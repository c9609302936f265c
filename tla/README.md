# EtherTerm in TLA+

Models, model-checking runs and machine-checked proofs for EtherTerm, the
ANSI/TELNET/SSH terminal in `src/`. Paths below are relative to `src/`
(`src/io_service.cpp` is the file `src/src/io_service.cpp` of the repository).

`PROJECT.json` lists the components, the runs, the findings, the hazards and,
for every definition that models code, the source lines it stands for.

## 1. The system

One process, two threads.

- The **main thread** runs `Interface::startup()`: it polls SDL events, sends
  them to the session of the window, calls `SessionManager::update()` for every
  session, resets the window focus and starts the connections that were dialled.
- The **io thread** runs `IOService::run()`: it polls the jobs of a shared list,
  does their socket operation and runs the callback of the session
  (`handleConnection`, `handleRead`, `handleWrite`) itself.

They share the set of sessions, the job list, the flags of every session, the
read buffer, the socket handler, and the queue of decoded messages. Only
`SafeVector` and `SafeQueue` take locks, and they take one per call.

| Component | State | Operations | Hard behaviour |
|---|---|---|---|
| `IOService`, `SafeVector` | job list, `m_is_active`, loop index | `addAsyncJob`, `run`, `stop` | removal by index while both threads add; `stop()` at any time |
| `Session`, `SessionManager`, `Interface` | `m_sessions`, `m_new_connections`, `m_is_system_disconnected`, flags and buffer of each session | `join`, `leave`, `update`, `grabNewWindowFocus`, `shutdown`, the three callbacks, `waitForSocketData`, `deliver` | a session is taken out by either thread while the other uses it |
| `SocketHandler`, `SDL_Socket`, `SSH_Socket`, `IRC_Socket` | `m_socket`, `m_is_active` | connect, poll, receive, send, close | closed by one thread, used by the other |
| `TelnetManager` | stage, command, option, answered options | `parseIncomingData`, `telnetOptionParse`, replies | reads that end inside a command; negotiations that never end |
| `SequenceDecoder` | state, level, builder, pending text | `decodeEscSequenceData`, `validateSequence` | reads that end inside a sequence; order of text and commands |
| `SequenceParser`, `ScreenBuffer`, `Renderer` | cursor, margins, modes, colours, the surface, the characters kept for the clipboard | `textInput`, `sequenceInput` | cursor behind the edges, wrap and newline there, scroll region, two copies of the screen, two attributes that remember an exchange of colours |
| `InputHandler` | characters that wait, key map, mouse selection, window mode | `update` for every SDL event, `getInputSequence` | pixels to cells and back, windows that change size during a drag, keys joined into one string |
| `MenuFunction`, `MenuManager`, `LinkList` | menu loaded, light bar chosen, page, selected system, theme, what is drawn | `menuStart`, `menuProcess`, `handleMenuUpdates`, `updateDialDirectory` | position, page and picture kept in step by hand across keys, pages and themes |
| `IrcManager` | rest of a line | `handleLineRead`, `handleUserInput` | lines cut by reads; two threads |
| `SessionIO`, `CommonIO` | the line being typed, an escape sequence in it | `pipe2ansi`, `getInputField` | offsets that move while codes are replaced; keys that come in parts |
| `Protocol`, data files, rendering, fonts | files, textures | input and output | none that a model adds to |

What makes each right: the job service serves every job once and loses none;
a connection in use always has one read under way and only one; a session that
ends leaves the manager, on whichever path; the text and the commands of the
server reach the screen once and in order; a negotiation ends, answers only what
was asked, and tells the truth; text wraps and scrolls without losing a
character, a scroll region leaves the other rows alone, the colours are the ones
asked for, and the clipboard copies what is on the screen and between the two
points of the mouse; the directory dials the system it shows; a prompt sends the
line it shows; no line of an IRC server is lost.

## 2. The modules

| Module | Models |
|---|---|
| `SafeVector` | `push_back`, the bounds test of `get`, `remove` |
| `JobService` | what the users of `IOService` rely on: jobs are added, each is run at most once, `stop()` drops the rest |
| `IOService` | `run()` step by step against both threads, on `SafeVector`; implements `JobService` |
| `SessionLifecycle` | sessions, callbacks, window events, the main loop, over the jobs of `JobService` |
| `TelnetManager` | the TELNET parser byte by byte, with its server and its reads |
| `SequenceDecoder` | the escape sequence decoder character by character, with reads that cut the stream |
| `SequenceParser` | the emulated screen: cursor, wrapping, scrolling and its region, erasing, reports, on the surface and on `ScreenBuffer` |
| `GraphicsMode` | ESC [ m, number by number, and the colours ESC [ s and ESC [ u keep |
| `Selection` | from two points of the mouse to the cells of the screen that are copied |
| `InputHandler` | the events of a window: keys and their sequences, pasting, the selection, its size, closing |
| `MenuFunction` | a menu file, and what the characters that wait make of it |
| `MenuManager` | the list of systems, its pages, the bar, the themes, the picture that is drawn |
| `DialDirectory` | the window of the dialing directory: `InputHandler` and `MenuManager` under the main loop |
| `PipeCodes` | `|09` and the like: finding and replacing codes in a text |
| `InputField` | the input line of `CommonIO` |
| `IrcManager` | an IRC session: lines of the server, and the prompt on `InputField` and `PipeCodes` |
| `DataInduction` | lemmas on what the community modules compute, for sequences of any length |
| `...Proofs` | the theorems about a module; those about `GraphicsMode` are in `SequenceParserProofs`, those about `InputHandler` in `DialDirectoryProofs` |
| `MC...` | values of constants for the runs |

`IOService` is built on `SafeVector` and implements `JobService`;
`SessionLifecycle` uses the jobs as `JobService` describes them. `TelnetManager`,
`SequenceDecoder` and `SequenceParser` are a pipeline: the text the first passes
on is the stream of the second, whose messages are the inputs of the third. Each
is checked against every input of the one before it, so they are not composed.
`DialDirectory` composes `InputHandler` (with `Selection`) and `MenuManager` (with
`MenuFunction`) by the main loop: the strings of the first are what the second
reads. `IrcManager` composes `InputField` and `PipeCodes`.

### 2.1 IOService

`run` names the next statement of `IOService::run`: `while`, `for` (the size
test), `get`, `serve` (poll or send), `callback`, `remove`. `main` says where the
main thread is in `addAsyncJob`, `stop` or the destructor. A job is the number of
its `addAsyncJob` call; `added[j]` is its type. `size()`, `get()` and `remove()`
are separate steps because each locks for itself, so the other thread may act
between any two of them; `remove(i)` behaves as the code does when `i` is out of
range, and `at()` of `get()` throws.

The run of a callback is a step that may add jobs (`CallbackAdds`) any number of
times before it returns.

`JobService` is the contract `SessionLifecycle` builds on: any waiting job may be
next. `IOService` is proved to implement it, with `served` as the jobs that ran
and the list minus the served ones as the waiting ones.

### 2.2 SessionLifecycle

`main.at` follows `Interface::startup`: `top` (the loop test), `events`,
`walk`/`check`/`update`/`next` (the loop of `SessionManager::update`), `focus`/
`focused` (`grabNewWindowFocus`), `spawn`, `stop`/`join` (`~Interface`). `io.at`
follows one job from its socket operation to the end of its callback.
`leave[t]` is the call of `SessionManager::leave` a thread is in, one step per
statement that the other thread can see. `erasing` is TRUE while the io thread
is inside `m_sessions.erase`; whatever the main thread then does with the set is
undefined behaviour. A behaviour that meets undefined behaviour stops with its
name in `undefined`, and each kind has a property of its own.

Choices, all in the direction of fewer steps:

- A socket operation is one step, and so is `if(!m_is_shutdown) add` of
  `waitForSocketData`. What happens inside `SocketHandler::close` is left to a
  module of its own (section 6).
- The crash and the lost stop of `IOService` (its findings) are not repeated.
- The 40 ms sleep of `leave()` is no synchronisation: any number of steps of the
  other thread fit into it or none.
- Window focus events do nothing but set a flag of the window; not modelled.
- The thread of `Protocol` does nothing on POSIX; not modelled.
- After the dialing directory is closed its `InputHandler` is used once more; the
  object is kept alive by SDL's loop or not, the model takes it as alive.
- A server that closes its SSH connection is not noticed by `pollSocket`, so
  nothing is promised for it.

### 2.3 TelnetManager

The server sends whole messages (`ServerText`, `ServerAsks`, ...), the read buffer
takes them byte by byte, and `EndOfBuffer` ends a read: `setBuffer` appends all
8193 bytes of the buffer, so zeros follow the data, one or more; three lead to
the same stage as any larger number. A read may end anywhere, and the server may
double a data byte 255 at any time. `whole` is history: it remembers whether a read
has ended inside a message, or an IAC was doubled before binary mode. The two
properties that this breaks speak of the steps before it and say so
(`TextComesThrough`, `RepliesAreAnswers`); the others hold in any case.
Each `case` of `telnetOptionParse` is an action; a reply is delivered in the same
step unless the connection has closed.

### 2.4 SequenceDecoder

One action per character of the loop in `decodeEscSequenceData`.
`BeginDecode` takes any number of characters up to `MaxChunk` from the stream,
so reads end at every place. The items the server sends carry what a terminal
shows for them, and the properties compare the queue with that. `PlainItem` says
which items the properties speak of: a character, a bell, or an ESC and what the
levels of the code admit after it up to the character that ends the sequence or
makes it invalid, without an ESC or a bell inside. What the code does with those
two inside a sequence is in the counterexamples.
`m_is_sequence` equals `m_sequence_state = SEQ_PROCESSING` between characters and
is left out. `m_data_queue` keeps all messages ever queued; the main thread's
dequeue takes them in that order. The session outlives the call in
`handleRead`, so `m_weak_session` always locks. Parameters stay far below the
overflow of `int`.

### 2.5 SequenceParser

One step per character of `textInput` (`FormFeed`, `BackSpace`, `CarriageReturn`,
`NewLine`, `Glyph`) and one per command of `sequenceInput` (`CursorUp` ...
`ControlNewLine`), with everything the handler calls: the scroll of `Renderer` and of
`ScreenBuffer`, the reset of the cursor, the character drawn. `surface` is the
picture, a grid of rows and columns; `m_screen_buffer` is the flat vector
`bufferToClipboard` reads. `repeat` counts what is left of the string of ESC [ b,
which goes through `textInput` one character a step.

Two history variables serve the properties: `typed` is the text since the screen
was last cleared, as long as only text came; `inStep` is TRUE as long as no
command wrote only one of the two copies (ESC [ J, ESC [ P, a scroll in a region,
a character behind the right edge in a region do, by the code's design).

Choices:

- CR LF within one call of `textInput` is one character of the model, and so are
  a CR and an LF of their own, for strings cut between the two.
- Any number of a command may be -1: the decoder turns every empty field into it
  (src/sequence_decoder.cpp:912-918), and each command adds, clamps or tests it in its
  own way. So the cursor may be anywhere, also left of the screen or above it: ESC [ ; C
  goes back by one column, to column 0 from column 1, and ESC [ ; d takes it to row -1.
  ESC [ ; 2 r sets a top margin of -1. ESC [ ; b asks for a string of -1 characters, a
  `std::length_error` that `startup()` catches: nothing is repeated. What is drawn
  outside of the surface is clipped; the buffer is written wherever the position
  computed from such a cursor lies in it, and not at all elsewhere.
- ESC [ ; P shifts the row to the right, a blit of the surface onto itself that may read
  what it has drawn; the model allows both outcomes.
- The sums of positions and numbers stay far below the overflow of `int`: a number of a
  sequence has few digits. Numbers below -1 do not exist (a minus ends a sequence).
- Colors, fonts, textures and `m_is_cleared_the_screen` (which only chooses the
  texture drawn before a scroll) are left out, and so are the visible cursor, the
  reply to ESC [ 0 c and `reset()`, which a session calls once, before its first input, to the
  values of `Init`.
- `clearScreenBufferRange` behind the end of the vector, and a scroll whose top
  margin is below its bottom one or above the screen, are undefined behaviour: the model
  records it
  in `undefined` and takes no further input.

Known and accepted by the properties: a newline behind the last column goes down
two rows, but one on the last row.

### 2.6 GraphicsMode

A number of ESC [ m is a step, because the loop of `sequenceGraphicsModeDisplay`
keeps nothing between two numbers. A colour is a hue and whether it is the light
one. `want` and `orderly` are history: what the numbers since the last reset ask
for, and whether they came as BBS software writes them (intensity, inversion,
colours). Outside of this order the code shows other colours than a terminal
would: a bold after an inversion lightens the paper, a "bold off" leaves the
colour light. No sentence of the repository says otherwise, so the property
speaks of the usual order. Colours 38 and 48 (true colour) are ignored by the code; the attributes that only its text of the current colour records (8, 9, 23, 24, 28, 29) change nothing here.

### 2.7 InputHandler and Selection

Every SDL event that changes something is an action. The key maps are functions
from keys to sequences of characters; where the code has the same case twice, so
has the table once. That what one key sends is not the beginning of what another
sends is a fact about these tables, and `MCInputHandler` states it as an `ASSUME`
that TLC evaluates (`KeysAreToldApart`).

`CellAt` and its neighbours do with fractions what the code does with doubles,
and cut where it assigns to an `int`. `drag` is history: the drag that filled the
clipboard, and the size of the window at both ends of it. Points are inside the
window, as SDL reports them. An empty box becomes one rounded cell, as in the code; the
runs' windows have no cell that small, the proofs speak of every window.

Left out: `CTRL` combinations other than the six of `ControlKey` (they are a
table of the same form), the middle button, the scaling of `SDL_RenderCopy`, and
ALT-D, an action of `SessionLifecycle`.

### 2.8 DialDirectory

`phase` is where the main loop is: it takes all events, updates the session,
spawns the connections asked for. So the keys of one pass are one string, of
which `menuLightBars` reads the first. Each command of `handleMenuActions` is an
action, with the `menuProcess` before it and the `updateDialDirectory` after it.
The members of `MenuFunction` are one record that its operators take and return,
because `menuDoCommands` is called in loops whose later rounds see what the
earlier ones set: `RunStacked` runs the commands in the order of the file.
`m_command_index`, the light bars, is filled when a menu is loaded, as in the
code; `m_choice` stays when another menu is loaded.

Three facts about themes and menus are named because properties depend on them:
all themes have a box of one size (`SameBoxes`), all have a menu with the same
number of light bars, at least one (`SameBars`), and no menu of a theme has a
command about the menu itself (`NoMenuCommands`). They hold of the themes of the
distribution, which `MCDialDirectory` states as the `ASSUME` `ThemesAgree`; other
themes are allowed by the code, and the further counterexamples show what happens
with them.

`drawn` is the picture the data queue will leave on the screen and `screen` the
one the user sees; they differ while the mouse is held. A row of the picture is
the number of the system it shows, or -1, and whether it is lit. The text of an
entry, the other parts of a theme and the page numbers are left out. The menus of the
runs have the keys and commands of the distribution's, and two light bars for their
eight (those with a command; help and about are plain keys here); the proofs are about
any menus. That the menu takes every key for the key it is, the two
tables of sequences being in two classes, is again an `ASSUME` there
(`KeysAreUnderstood`).

### 2.9 IrcManager, InputField, PipeCodes

What the server sends is a sequence of tokens (`PING`, ` :`, CR, LF, characters);
`Read` hands any front part of it to `handleLineRead`, which is one step, since
the socket thread alone uses its state. `Input` hands the prompt a key, a part of
an escape sequence, or more than one character. What `getInputField` returns is
drawn and `prompt` is what one then sees there. `asked`, `cut` and `abandoned`
are history. The lines of the server are sequences of tokens other than CR and LF
(`IrcAssumption`): the model's server ends each with CR LF.

`PingsAreAnswered` holds however the reads cut the lines: each PING among the lines
*handled* has its PONG. `LinesAreWhole` is about reads that end with a line, because
a line cut by a read is handled as two (a counterexample below). Both, and
`NothingIsLost`, stop at the exception that ends the thread (`terminated`).

`PipeCodes` has the regular expression as a list of alternatives in its order,
each a sequence of classes of characters; `AsRead` is the reference, a text read
from left to right. Its recursion is a recursive function. Codes of
`m_mapped_codes` are added by tests only and are left out.

Both threads of an IRC session hand text to the same `SequenceDecoder`; that the
two calls may mix is not modelled (a call is one step here).

## 3. The runs

With two workers the longest takes about two minutes (`TelnetManager_options`, 19 million
distinct states), `DialDirectory_keys` little more than one (three million), the others
less.

| Run | Question | Bound |
|---|---|---|
| `IOService_jobs` | does `run()` remove the job it served, serve none twice, lose none, implement `JobService`, serve every job in the end, and end after `stop()`? | 4 jobs of any type: two passes with skipped entries, additions in front of and during a pass |
| `SessionLifecycle_safety` | one read per session at a time, one read in its buffer? | a TELNET and an SSH system, one write each, windows may close |
| `SessionLifecycle_live` | is a connection in use always read, does a session leave when its server or window closes, does the program end? | one TELNET system, ALT-D adds at most 2 READ jobs, windows may close; under fairness |
| `TelnetManager_options` | does the negotiation end, is binary mode agreed, is the size right; is the text unchanged and every reply an answer until a read cuts a message? | 3 messages, five options the code names and an unknown one, reads end anywhere |
| `SequenceDecoder_stream` | is everything shown once, in order, at once? | 3 items of all kinds, every way to cut them |
| `SequenceParser_screen` | does text keep its order, the clipboard its picture, a region the other rows? | 2 columns, 3 rows, two characters, every command with no number, an ordinary one, those at the edges and the -1 of an empty field, 5 inputs, enough for text to wrap in the last row and scroll; a screen of 3 rows has a region with a row outside of it on either side |
| `GraphicsMode_colours` | do the two exchanged colours, the attributes and the saved copy fit together? | three hues (both defaults and another), every number, any length: the state space is finite |
| `DialDirectory_keys` | is a light bar chosen, does the page hold the selection, does the picture light it and the chosen bar, is the system lit the one dialled? | 0 or 3 systems in boxes of 2 rows: a full and a short page; 2 themes; all nine keys and `]`, `[`, `?`, one or two in a pass; unbounded length |
| `InputHandler_window` | are the cells copied on the screen, and the ones between the points? | 4 columns and 3 rows; windows with whole and fractional cells of three sizes; five points, among them both sides of a cell's edge; all key maps |
| `IrcManager_lines` | is anything lost, is a line whole when it was read whole, are PINGs answered, does the prompt show what it sends, are codes replaced in place? | 2 lines (a PING; one with a code and a PING inside), cut anywhere; a field of 1 character that can be full; a prompt of up to 2 |

The two characters of `SequenceParser_screen` are symmetric (`GlyphsAlike`): no action and
no property tells one from the other, they are only drawn, moved and compared.

The bounds of `DialDirectory_keys` and `GraphicsMode_colours` limit no behaviour in
length; `MaxInput`, `MaxShown` and `MaxLines` stop the user or the server.

Two runs expect a violation: each checks a sentence of the repository that the code
does not keep.

| Run | The sentence | What happens |
|---|---|---|
| `SessionLifecycle_iterator` | src/session_manager.cpp:117, :123 | the entry is erased between the check and `++it` |
| `IOService_remove` | src/safe_vector.hpp:105 "swap with back, then pop back" | `remove()` copies the other elements in their order: of <<1, 2, 3>> it leaves <<2, 3>>, the comment's list is <<3, 2>> |

`IOService_remove` is a fault of the comment, not of the code: `ListInOrder` and what
rests on it hold because the order is kept, and `RemoveJobSwapsBack`, the comment's
removal, is the mutant that breaks it.

### Further counterexamples

These properties fail for this code too. They are stated in the modules, with the
comment "Not so" or beside the property that does hold, and are in no run of the
list. "Configuration" is the one to use: where it is also the name of a run above,
replace the properties of that `.cfg` by the one named; the others are files of
their own, with other constants. `tlc -config <file> <module>` shows the
counterexample.

| Configuration | Property | The sentence | What happens |
|---|---|---|---|
| `IOService_jobs` | `WritesInOrder` | changelog.txt:53-56 | `remove(i); i++` skips a job; a later write overtakes it |
| `IOService_jobs` | `NeverTerminated` | src/safe_vector.hpp:14 "thread safe" | `clear()` between `size()` and `get()`: the thread throws |
| `IOService_jobs` | `StopJoins` | src/main.cpp:206 | `stop()` before `run()` starts is forgotten |
| `SessionLifecycle_safety` | `CleanExit` | src/session_manager.cpp:40 "clean exit" | a waiting write finds the vector of sockets empty |
| `SessionLifecycle_safety` | `AnyRemovalIsDetected` | src/session_manager.hpp:73 | a removal during the scan is reset with the flag |
| `SessionLifecycle_safety` | `FailedConnectionLeavesNoSocket` | src/async_connection.hpp:69 | an inactive handler's socket is never closed |
| `SessionLifecycle_live` | `BufferHoldsOneRead` | src/session.hpp:226 | ALT-D adds a second READ job with the same buffer |
| `SessionLifecycle_live` | `NoSessionWithoutWork` | src/session.hpp:382 | a transfer plus a failed write leave a session without a job |
| `SessionLifecycle_live` | `ClosedWindowLeavesNoSocket` | changelog.txt:187 | the socket opens after its session has left |
| `TelnetManager_split` | `RepliesAreAnswersAlways` | changelog.txt:191 | the zeros behind the data are taken for an option |
| `TelnetManager_options` | `FirstRequestIsAnswered` | src/telnet_manager.cpp:409, :485, :547 | the second option refused with a command gets no answer |
| `TelnetManager_escape` | `TextComesThroughAlways` | src/telnet_manager.cpp:336 | a doubled IAC leaves the parser in stage 1 |
| `SequenceDecoder_given_up` | `CommandsComeThrough` | src/sequence_decoder.cpp:1128 | the sequence after an abandoned one is lost |
| `SequenceDecoder_double_esc` | `CommandsComeThrough` | src/sequence_decoder.cpp:1020 | a double ESC cut by a read is not removed |
| `SequenceParser_screen` | `ForwardIsForward` | src/sequence_decoder.cpp:200 | an empty field is -1: ESC [ ; C goes back |
| `SequenceParser_screen` | `DeleteKeepsLeft` | src/sequence_parser.cpp:473 | deleting more than is behind the cursor blanks what is in front of it |
| `SequenceParser_screen` | `ReportIsOnScreen` | src/sequence_parser.cpp:2037 | behind the last column the column reported is `Width + 1` |
| `SequenceParser_screen` | `TextStaysInRegion` | src/sequence_parser.cpp:293 | with ESC [ ? 7 h text at the bottom of a region goes on below it |
| `GraphicsMode_colours` | `InversionDarkens` | src/sequence_parser.cpp:1005 | a light foreground becomes a light background |
| `GraphicsMode_colours` | `ColoursAreSet` | src/sequence_parser.hpp:199 | ESC [ u before ESC [ s takes colours nobody has set |
| `DialDirectory_keys` | `DialsWhatIsSeen` | src/session.hpp:606 | with the mouse held the selection moves and the screen does not |
| `DialDirectory_keys` | `OneKeyAtATime` | src/input_handler.hpp:88 | two keys of a pass are one string, the second is lost |
| `DialDirectory_boxes` | `PageHoldsSelection` | src/menu_manager.cpp:567 | with themes of different boxes `m_box_size` is that of the first |
| `DialDirectory_bars` | `TypeOK` | src/menu_function.cpp:945 | in a menu with fewer light bars `m_choice` indexes behind the last |
| `DialDirectory_lit` | `PictureShowsSelection` | src/menu_function.cpp:1058 | a "Change Menu" chooses the first light bar and leaves another one lit |
| `DialDirectory_switch` | `MenuIsTheOneAskedFor` | src/menu_function.cpp:1058 | a "Change Menu" is undone by the next `updateDialDirectory` |
| `InputHandler_window` | `CopiedIsMeantAlways` | src/renderer.cpp:264 | fractions of a pixel lost twice: a column or row too few or beside |
| `InputHandler_window` | `CopiedIsOnScreen` | src/renderer.cpp:258 | the window shrinks during a drag: positions behind the end of the buffer |
| `IrcManager_lines` | `LinesAreWholeAlways` | src/irc_manager.cpp:42, :52 | a line cut by a read is handled as two |
| `IrcManager_lines` | `NeverTerminated` | src/irc_manager.cpp:103 | a PING cut before its sixth character: `substr` throws |
| `IrcManager_lines` | `PromptShowsLineAlways` | src/common_io.cpp:808 | ESC drops the line and the prompt still shows it |
| `IrcManager_percent` | `TextIsShown` | src/session_io.hpp:220 | `%AB` in a line of the server is replaced by blanks |

`IrcManager_prompt.cfg` passes: the properties of `IrcManager_lines` and the type
invariant, with more keys (LF, CTRL-Y, whole and partial sequences) and no server.

The runs of `SequenceDecoder` and `SequenceParser` switch the deadlock check off:
when the server has sent what the bound allows and all is read, or after
undefined behaviour, the model stops. `DialDirectory` and `InputHandler` do so
because a closed window ends them, `IrcManager` because its bounds end the server
and the user. Nothing else may stop but by an explicit step (`Finished`).

### Fairness

`IOService.FairSpec`: the operating system runs both threads, and a send or
connect returns. Nobody has to add a job or to send data.
`SessionLifecycle.FairSpec`: both threads run; a waiting job whose operation stays
possible or becomes possible again and again is served, which is what
`JobsAreServed` of `IOService` says of the loop (strong fairness, because other
jobs come in between); the user and the servers may do nothing.

### Mutants

Every property of a passing run has a faulty variant of one mapped definition
beside it (`RemoveNextJob`, `HandleWriteReads`, ...), a bug that could have been
written there; with it the property fails.

## 4. The proofs

All for every value of the constants, checked by TLAPS without open leaves. Every
invariant and every action property of the passing runs is stated by a theorem, and
so is the refinement of `JobService`; the runs show the same on a small instance, and
the liveness besides.

- **IOService** (`IOServiceProofs`). `TypeCorrect`. The invariant `IndInv`
  says that the list is strictly increasing, holds only jobs added, that a
  served job is in the list only while it is being removed, that the loop index
  points at `job_work` from `serve` to `remove`, and that every job added is in
  the list, served, or about to be pushed. None of the properties is inductive
  alone: `RemovesItsOwnJob` needs that additions go to the end, `ServedOnce` needs
  that the entry removed is the served one, `NoJobLost` needs both.
  From it: `RemovalCorrect`, `AtMostOnce`, `NothingLost`, `OrderKept`, and
  `ServiceRefinement`, one lemma per kind of step: it is a step of `JobService` or a
  stutter.
  Two lemmas of its own say what `RemoveIndex` and `PushBack` of `SafeVector` do to
  the elements.
- **SessionLifecycle** (`SessionLifecycleProofs`), for any number of systems, any bound
  on the writes, with every interleaving of the two threads. `TypeCorrect`;
  `ConnectionRead` is `ActiveConnectionIsRead`, with or without ALT-D; `ReadsOnce` and
  `BufferClean` are `OneRead` and `BufferHoldsOneRead`, without ALT-D, which
  breaks the latter (the counterexample `SessionLifecycle_live` /
  `BufferHoldsOneRead`). None is inductive alone: a second
  read would come from a second CONNECT, so `DialledOnce` says that a system is in one
  place only on its way from `m_new_connections` to its open socket, and that
  nothing is read before. `EveryStep` sorts every step of both threads, as one
  connection sees it, into eight kinds; each invariant then needs one lemma over these.
  `RearmInv` strengthens `ActiveConnectionIsRead`: the job served that keeps a connection
  alive is never a WRITE, whose callback reads nothing.
- **TelnetManager** (`TelnetManagerProofs`). `TypeCorrect`. `NegotiationEnds` is
  `NoLoop`, from `ReplyInv`: the refusals sent so far are those `active_sequence`
  remembers, and the acceptances sent are those `completed` and `is_active`
  remember. `TextUnchanged` and `OnlyAnswers` are `TextComesThrough` and
  `RepliesAreAnswers`; they rest on `InSync`, which holds while `whole` does: stage by
  stage, what is left on the wire is the rest of one message of the server, and the
  output is what was sent before it. That the condition `whole` is needed is what
  `TelnetManager_split` and `TelnetManager_escape` show. `BinaryToldFirst`
  (`BinaryIsAgreed`) and `SizeIsTold` (`NawsTellsSize`) need none: `Growth` bounds what one
  step, on any stream, may add to the replies (one of the answers the code has) and
  when it may turn binary mode on.
- **SequenceDecoder** (`SequenceDecoderProofs`). `TypeCorrect`, an invariant with
  content: in `SEQ_NORMAL` nothing of a sequence is left over, in
  `SEQ_PROCESSING` the builder begins with its ESC and no text waits behind it.
  `StreamInOrder` and `StreamIsComplete` are `StreamIsShownInOrder` and
  `NothingIsHeldBack`, for any set of items of the grammar `PlainItem` (`ItemsArePlain`;
  the two configurations with other items show that it is needed), any number of
  them, and reads that end anywhere. `StreamInv` splits the items sent into those
  done and those to do: builder, input and wire are together the characters of
  those to do, what has been shown is the picture of those done, and inside a
  sequence the builder is a proper front part of the first one to do, at the level
  its characters lead to.
- **SequenceParser** (`SequenceParserProofs`), for every size of the screen, wrap
  column, alphabet and set of commands, whose numbers may be -1. `TypeCorrect`: the
  buffer and the picture keep the size of the screen and an active region ends on it,
  wherever the cursor is. `RegionProtectsRest` is `ScrollKeepsRest`.
  `ClipboardCorrect` is `ClipboardMatchesPicture`: the flat vector and the grid
  agree. It rests on `PositionRange` (a position between two columns of a row is
  of that row) and `ScrollMatches` (a row up in the grid is `Width` positions
  down in the vector), the only nonlinear arithmetic.
  `TextIsOrdered` is `TextInReadingOrder`. It is not inductive: where the next
  character goes depends on the cursor. `TextInv` adds that while only text came
  there is no region and every cell from the cursor on is blank, and that the text
  typed is something that has scrolled away followed by what is shown; a scroll
  moves the first row from the one to the other.
- **GraphicsMode** (`SequenceParserProofs`), for every set of hues. `GraphicsTypeCorrect`,
  and `OrderlyShown`, which is `OrderlyNumbersShow`. The invariant says what the two
  attributes are for each history: the one that later numbers test is 5 or 7 exactly
  while the colours are exchanged, and the other remembers the intensity; it says
  the same of the saved copy, or ESC [ u would break it.
- **InputHandler** (`DialDirectoryProofs`), for every screen, window and drag.
  `SelectionCorrect` and `CopyCorrect` are `SelectionOnScreen` and `CopiedIsMeant`.
  `DragInv` keeps both points of the drag within the window it was done in; the
  rest is arithmetic, a handful of lemmas on quotients (`Quotient` and those built on it),
  applied to columns and rows alike.
- **DialDirectory** (`DialDirectoryProofs`), for every number of systems, every list of
  themes and any menu files, as long as all themes have a box of the same size
  (`SameBoxes`, which `DialDirectory_boxes` shows to be needed). `ListInv` ties page,
  row of the bar and drawn rows to the position. `Redraw` shows that
  `updateDialDirectory` restores it whenever the handler before it has found the
  page of the position, so each command needs one lemma on its page. From it:
  `SelectionKept`, `OneSystemLit`, `DialsTheLitSystem`.
  `DirectoryTypeCorrect` is `TypeOK`, whose part about the menu is the one that can be
  wrong: the code indexes `m_command_index` with `m_choice`. `MenuInv` says that the
  commands are those of a theme's menu, the light bars are theirs, and the choice is
  one of them; each command, each move of the bar and each load keeps it, the first
  because `RunStacked` keeps what each of its commands keeps. It assumes `SameBars`
  (needed: `DialDirectory_bars`). `LoopInv` bounds the queue of connections by one.
  `PictureIsTrue` is `PictureShowsSelection`, its light bars included (`BarInv`), and
  assumes `NoMenuCommands` too (needed: `DialDirectory_lit`). Both are about the
  window of the directory (`IsDialDirectory`), which is ANSI.
- **IrcManager** (`IrcManagerProofs`), for all lines of the server, any keys and any
  length of the field. `TypeCorrect` and `PromptIsTheLine` (`PromptShowsLine`) come from
  `PromptInv`: what is drawn is the line typed, and at most eight characters of an escape sequence are
  collected. `EverythingArrives` (`NothingIsLost`) and `EveryPingIsAnswered`
  (`PingsAreAnswered`) come from `LinesInv`, wherever the reads cut; they need to know
  that splitting a text at its line ends and joining it again loses nothing.
  `WholeLinesStayWhole` (`LinesAreWhole`) rests on `WholeInv`: as long as no read has
  ended inside a line, nothing is held back, and the lines handled followed by those on
  the wire are those sent. It assumes that no line is empty: a read that begins with
  an empty line is held back (`find_last_of('\r', 0)`, src/irc_manager.cpp:54, looks at
  the first character only). `CodesStayInPlace` (`CodesAreReplacedInPlace`): replacing
  from the last match to the first leaves the offsets of the others alone, so the
  result is that of reading the line once from left to right.
- **DataInduction**. The induction theorems of the library take an operator as a
  parameter, which these provers cannot instantiate. `NatSet` is induction without
  one: a set of naturals with 0 and with n + 1 for every n of it is `Nat`, from the
  well-foundedness of `<`. From it come what `FlattenSeq` and `FoldLeft` return for a
  sequence of any length (each is a function chosen by its equation, so first there
  must be one), and the lemmas on cutting sequences that three of the proofs share.
  `SelectSeq` is built into tlapm without its definition, so definitions the proofs
  open use `FlattenSeq` instead.

Assumptions are the `ASSUME`s of the modules: finite counts, options and
characters in the range of a byte, terminal sizes below 255.

Hypotheses of single theorems, with the reason given above:
`ItemsArePlain`, `~UserTransfers`, `SameBoxes`, `SameBars`, `NoMenuCommands`,
`IsDialDirectory`, no empty line. `ItemsArePlain` and the three about themes are
evaluated by TLC for the instances of the runs.

Only model-checked: liveness, which TLAPS proves not under fairness (`JobsAreServed`,
`StopEndsTheThread`, `RemoteCloseEndsSession`, `ClosedWindowLeaves`,
`DialCloseEndsProgram`). That a menu takes every key for the key it is, and that the
sequences of the keyboard are told apart, are facts about fixed tables that TLC
evaluates.

## 5. Not modelled

Textures, windows and fonts (`SurfaceManager`, `WindowManager`, the rest of
`Renderer`), reading and writing of XML/INI/menu files, the display of .ans files by
`MenuIO`, the formatting of directory entries, starting external programs, string
helpers and the vendored libraries: no state shared between the threads, no protocol.
`SafeQueue`: each queue has one consumer, so the `is_empty()` in front of a blocking
`dequeue()` cannot become false before it. Not yet modelled, and planned below: the
steps inside of the sockets, and the decoder fed by both threads of an IRC session.
See the components of `PROJECT.json`.

## 6. Plan

Done: `SafeVector`, `JobService`, `IOService` and its refinement,
`SessionLifecycle`, `TelnetManager`, `SequenceDecoder`, `SequenceParser`,
`GraphicsMode`, `Selection`, `InputHandler`, `MenuFunction`, `MenuManager`,
`DialDirectory`, `PipeCodes`, `InputField`, `IrcManager`, with the theorems above.

Next, in this order:

1. `SocketHandler`: the steps inside `close`, `poll` and `sendSocket` on two
   threads, and the SSH and IRC sockets' own receive.
2. `SequenceDecoder` fed by two threads at once, as an IRC session does it.
3. Proofs: `ItemsArePlain` weakened to bells inside of sequences; what a second pass
   of `IOService` skips, as a bound.
