SPECIFICATION GraphicsSpec
CONSTANT Hues = {0, 1, 7}
INVARIANT OrderlyNumbersShow
