# Verification of thulogin

thulogin logs a machine in to, and out of, a campus network whose gateway is
an srun portal, and can then keep the connection in use. This directory holds
TLA+ models of the program, TLC configurations that check them, and proofs
that TLAPS checks. Paths below are relative to the repository.

## The system

| component | code | state | operations | where it is modelled |
|---|---|---|---|---|
| command-line program | `src/main.cpp` | `CliParams`, `g_keepAlive`, exit status | `parseArgs`, `parseSubcommand`, `main`, `doAuth`, `doDeauth`, `startKeepAlive`, `signalHandler` | `Thulogin`, `CliArgs`, `KeepAlive` |
| keep-alive | `src/KeepAlive.cpp` | `running_`, `thread_`, error counter | constructor, destructor, `start`, `stop`, `isRunning`, `loop` | `KeepAlive`, `KeepAliveMonitor`, `KeepAliveRefinement` |
| authenticator | `src/Authenticator.cpp` | name, password, `ac_id`, `token`, `ip_addr`, `response_msg` | `detect_ac_id`, `is_online`, `auth`, `logout` | `Authenticator` |
| portal and network | not in the repository | session, outstanding challenge | challenge, login, logout, user info, pages | `Portal` (external) |
| password prompt | `src/PwdInput.cpp` | terminal echo | `pwd_input` | `Thulogin` |
| HTTP client | `lib/HTTPSClient.cpp` | sockets, TLS contexts | `get` | `HTTPSClient`, `HTTPExchange`, `HTTPSClientRefinement`, `HttpText`, `Texts`; as seen by its callers, `Portal` |
| configuration | `src/Config.cpp` | `~/.auth-thu` | `load`, `save` (never called), `defaultPath` | `ConfigFile`; `load`'s result, `Thulogin` |
| portal messages | `src/PortalError.cpp` | table | lookup | wording, left out |
| URL encoding | `lib/Encoder.cpp` | none | `UrlEncode`, `UrlDecode` | `Encoder` |
| SRBX1 encryption, digests | `src/encrypt/` | none | `x_encode`, base64, MD5, SHA1 | `SrunXEncode`, `SrunBase64`, `SrunInfo`; digests symbolic in `Authenticator` |
| logger | `src/Logger.cpp` | level | `logMessage` | no property depends on it |
| vendored | `lib/mbedtls`, `lib/json.hpp`, `lib/hash-lib`, `lib/HTTPRequest.hpp` | | | third-party |

How they interact: `main` merges command line, configuration and prompts, builds
an `Authenticator` and calls its operations one after another; each is a
sequence of HTTP exchanges with the portal. After a login, or when somebody is
online already, `-k` and `-D` start the keep-alive phase: the main thread polls
an object on its stack whose worker thread makes a request every 180 seconds.
A signal handler reaches the object through the global `g_keepAlive` and ends
the process.

What is hard here: signals on either of two threads against the lifetime of a
stack object; requests that never return; replies lost after they took effect,
cut short or replaced by pages; a block cipher computed with `size_t`, on targets
where that has 32 or 64 bits and `char` is signed or not; a command line read by two
loops that must agree; challenges superseded and sessions changed by
other clients at the same address; results that do not say whether a login
succeeded. `PROJECT.json` lists each hazard at its line.

What makes each part correct:

* keep-alive: no access to a dead object, no crash other than the one the
  language allows, a stop that is noticed at once, the exact retry limit, and an
  end when a signal comes or the target keeps failing;
* authenticator: what it reports to the user is what the portal did; a request
  carries the challenge it was given, for the user it names;
* HTTP client: whatever fails, nothing stays open and nothing is freed twice; no
  part of a request reaches a host that was not verified; to its callers it is one
  exchange;
* texts: what the portal decodes is what was encoded, a name stays in the part of
  the URL it was put in, and a body comes back whole;
* command line: both walks over it take the same words for values, and what they
  make of it is a grammar one can write down;
* configuration: what is loaded was saved or written by hand, as a whole;
* program: exit statuses mean something, the terminal is left as it was found,
  a logout names somebody known, and every run comes to an end.

## The modules

**`KeepAlive`** has one action per access to shared state or blocking call of the
two threads. `mainPc` walks through `startKeepAlive` and the inlined destructor,
`workerPc` through `loop`. `handler[t]` is where thread `t` is in
`signalHandler`, and `blocked[t]` the signals it blocks because a handler of
theirs is running. The handler never returns, so a thread inside one is lost to
its own code, and a second signal nests. `StartThrows` is `std::thread`
throwing; `GetThrows` a request that fails. `ReloadsPointer` chooses between a
build that loads `g_keepAlive` once in the handler (-O2) and one that loads it
twice (-O0); the pointer is a plain global, so both are allowed. `streak` and
`lateWork` are history variables. Calling `exit` in a handler is treated as
ending the process after an interval in which the other thread runs on; what
static destructors do to that thread is left out.

**`KeepAliveMonitor`** is what the rest of the program may assume: a watch that
ends after `RetryLimit` failures in a row, or after an interrupt.
**`KeepAliveRefinement`** maps `KeepAlive` onto it. The mapping uses the history
of failures and the end of the process, never `errorCount` or `running_`, so a
wrong counter or a lost stop would break it.

**`Portal`** is the external world: a session, an outstanding challenge, one
exchange at a time. Requests are lost before or after they take effect, replies
arrive garbled, other clients log in, are challenged, and sessions end, at any
step. A login or logout is accepted only if the checksum and the encrypted
information verify against the challenge now outstanding, and may be refused in
any case. A refusal carries any combination of error, code, message and result,
whether the client reads those fields for that error or not; `Null` is a field that is
missing, null or empty. The client encodes nothing where it builds a URL for the
challenge or the JSON of the information object, so `UrlSafe` holds the names that
survive the one and `JsonSafe` the names and passwords that survive the other; the rest
arrive there as `Mangled`.

**`Authenticator`** has the members of the class and one action per exchange
boundary of each operation: `DetectCall`/`DetectReturn`,
`OnlineCall`/`OnlineAsk`/`OnlineReturn`, `AuthCall`/`AuthSend`/`AuthReturn`,
`LogoutCall`/`LogoutSend`/`LogoutReturn`, with `GetInfo` inside the last two.
Digests are injective records and an encrypted text is a record with its key.
`said` is what the user was told.

**`Thulogin`** extends `Authenticator` and `KeepAliveMonitor` with `main`,
`doAuth`, `doDeauth` and `pwd_input`. Until the keep-alive phase the program has
one thread and `g_keepAlive` is null, so a signal is one step there. In the
keep-alive phase its steps are the monitor's. `"auth"` stands for every
subcommand but `deauth`, as in `main`. A `return -1` from `main` is the exit
status 255. When a signal came in the keep-alive phase, `WatchOver` allows what the
threads allow: the handler's 0, a null `g_keepAlive` on its second load (139), or
`std::thread` throwing (134).

**`HTTPSClient`** is `get`, called again and again: `at` is the next call of
`httpGet` or `httpsGet`, each of which succeeds or fails. `contexts`, `fd`,
`sockets` and `addresses` are what is held; closing a number nobody owns sets
`strayClose`, and freeing a context twice makes it `corrupt`. `peer` is whom the
connection leads to, chosen anew in every call, `anchors` what became of the two
CA files, `wire` the request's units the peer was sent. `mbedtls_net_connect` is
modelled with its residue: refused by the last address, it leaves the number of
the closed socket behind; and it ignores SIGPIPE from then on (`sigpipe`,
`NetPrepare`), until which a `send` over HTTP can end the process
(`KilledBySend`, here and in `Thulogin`). `refusal` is the history of how it failed in
this call: a name that does not resolve leaves no residue, a refusal does. The
handshake is taken to let anything through and to report problems as the verify flags,
so that the check after it carries the property even where
`MBEDTLS_SSL_VERIFY_REQUIRED` would not. A URL that is no HTTP or HTTPS is left out:
the program has none.

**`HTTPExchange`** is what `get` promises: an answer only from a peer that was
delivered the whole request and, over TLS, is the right one; a failure says nothing.
**`HTTPSClientRefinement`** maps the client onto it: the state from `at` and
`outcome`, the delivery from `wire`, the peer from who it really is and not from
what the client believes. This is what entitles `Portal` to show an exchange as one
request that is lost or served and one reply that arrives or not.

**`HttpText`** has `parseUrl`, `buildHttpRequest`, `parseHttpResponse` and
`strip_jsonp` on sequences of symbols: the characters the code looks for, and names
for words that contain none of them. **`Texts`** grows a text by one symbol or byte
after another, puts it where somebody else decides what the text is (a user's name, the
body of a response, the argument of a JSONP reply, what is encoded for a URL or in
base64), and states
where it comes out; `ServerReads` and `Response` are the other side, and so are
`Decoders` and `Base64Reader`.

**`CliArgs`** is `parseArgs` and `parseSubcommand`, a turn of a loop as a step, with
the option lists each of them has. `values` and `skipped` are histories of the places
each takes for a value. `Run` is the rest of `main` as far as the arguments decide it:
which of `doAuth` and `doDeauth` is called.

**`SrunXEncode`** computes `x_encode` at its real width: a word is the set of the
positions of its one bits, so that xor and shifts are operations on sets, and a step
mixes one word. `Packed` has the sign extension of a fourth byte of 128 or more, which
is there in a 64-bit build only. **`SrunBase64`** and **`Encoder`** are the functions
on byte values. **`Base64Reader`**, **`Decoders`** and the second half of **`SrunInfo`**
are the portal's side: reference decoders, the last one with words of 32 bits that undo
the rounds backwards. Whatever recurs is a function defined within the operator that
uses it (the value of a text from a place on, the words before a step), so that it can be
proved about. What base64 needs of its alphabet is the assumption
`AlphabetIsUnambiguous`, which TLC evaluates for the program's alphabet; texts and keys
are bytes, and not empty (`SrunXEncodeConstants`).

**`ConfigFile`** is `~/.auth-thu` under `save`: opening empties it; the text stays in
the stream's buffer, unless it is longer than that, until the destructor; the
permissions change before. Each step can fail or be the last one of a killed process.
So can `chmod`, whose result nobody looks at; `unrestricted` remembers it. `load` is an operator on every file,
also one written by hand. The program calls only `load`; `save` is finished code
without a caller.

**`KeepAliveProofs`**, **`HTTPSClientProofs`**, **`ThuloginProofs`**,
**`CliArgsProofs`**, **`ConfigFileProofs`**, **`TextsProofs`** and **`SrunInfoProofs`**
hold the theorems; **`DecodersProofs`** holds the lemmas about the encodings that the last
two share. The `MC` modules give the constants their values. Definitions marked *Mutant*
are variants with a plausible slip; nothing uses them but the mutation runs of
`PROJECT.json`, in which each property is seen to fail.

## The runs

| run | states | what it shows |
|---|---|---|
| `keepalive_safety` (`MCKeepAlive.cfg`) | 42,879 | lifetime, the late reload, prompt stop, retry limit, the inductive invariant, every step a step of the monitor; two signals on two threads, -O0 build |
| `keepalive_liveness` (`MCKeepAliveLive.cfg`) | 34,099 | a signal ends the process even if a request hangs; a failing target ends it; the liveness of the monitor; -O2 build |
| `httpsclient_safety` (`MCHTTPSClient.cfg`) | 319 | nothing leaks or is freed twice over every failure of every call, the request goes only to the verified host, in order; a descriptor that is not ours is closed only after a refused connection; SIGPIPE is harmless after a TLS connection; the abstract exchange is implemented; the inductive invariant |
| `program_safety` (`MCThulogin.cfg`) | 2,321,758 | truth of messages; `deauth` exits with 0 exactly if the logout was confirmed; use of challenges; whom a logout names; the terminal; which refusals are shown without a text; the inductive invariant |
| `program_liveness` (`MCThuloginLive.cfg`) | 760,632 | every run ends or comes to watch |
| `keep_online_claim` (`MCKeepOnline.cfg`) | violation | `-k` (like `-D`) keeps "online" after a refused login |
| `deauth_claim` (`MCDeauthDetects.cfg`) | violation | a saved configuration replaces the detection of the user |
| `cli_args` (`MCCliArgs.cfg`) | 90,009 | the two walks over the command line agree, and read it as one grammar; the inductive invariant |
| `texts` (`Texts.cfg`) | 103,879 | base64 and URL encoding are undone by their decoders, and signed and unsigned `char` agree on whole sequences; a name stays in the path, and reaches the server exactly if it has no space and no line break; when bodies and JSONP arguments come back whole |
| `info` (`MCSrunInfo.cfg`) | 5,880 | the portal opens `info` whatever the text on a 32-bit build; on a 64-bit build exactly if no fourth byte of a word but the first is beyond ASCII |
| `config_file` (`MCConfigFile.cfg`) | 1,107 | load finds all of a save or none of it; short credentials are readable by others only if `chmod` failed |
| `cli_word_claim` (`MCCliArgsWord.cfg`) | violation | a word alone is not the user's name |

Bounds. Keep-alive: an interval of 2 or 3 one-second pauses (180 in the program;
the pauses are alike, and three show one, two and a last one), a limit of 2 failures
(the program's), both signals the program handles; no counter is
bounded otherwise, since the errors are bounded by the limit and the signals by
the blocking. HTTP client: a request of three units, so that it can be written in
one, two or three pieces, and a response of up to two; calls follow one another
without limit, and the state between them is the same after each. Program:
three user names (one that survives any context, one that does not survive a URL, one
that does not survive JSON), one password, two challenges (ours and another client's),
one detected `ac_id`, the 24 refusals that two errors, two kinds of code, a message and
a result make, each field there or not, command lines that between them leave out and give every relevant
option, and three configuration files (absent, complete, and one whose password
is no string, so that `load` returns only the name). One password suffices
because no step compares passwords; two challenges because the program asks for
one per run. `Tokens` bounds how many challenges other clients can get.

Command line: up to four words (`MaxArgs`) of ten: three options with a value, two
flags, an unknown option, both subcommands, a word that is neither and the empty one;
four are enough for a value that looks like an option before and after another option.
The claim needs one word. Texts: up to five symbols
(`MaxLen`), so that the longest pattern (four) occurs with something before or after it,
and an escape sequence (three) with two; base64 sees every length modulo three.
`info`: lengths around the ends of words, and one that is long enough for fewer
rounds; a byte beyond ASCII at each place of a word; a key shorter and one longer than
four words. Configuration: one text that fits the buffer, one that does not, one that
is no UTF-8.

Fairness. In `KeepAlive` each thread's own steps and its handler are weakly fair:
the operating system runs runnable threads and one-second sleeps end. Returning
from a request is not fair, because `HTTPSClient::get` has no timeout; the
properties that need it say so in their hypothesis. In `Thulogin` the program's
own steps are weakly fair; portal, network and user are not.
`HTTPSClient` states no fairness and no liveness: it has no timeout to rely on.

### Divergences from the program's texts

* Usage text, `-k, --keep-online  Keep online after login` (`src/main.cpp:58`):
  `auth` returns 0 whenever a challenge was obtained, also if the login was
  refused or its request failed (`src/Authenticator.cpp:70-84`). The keep-alive
  phase then starts, or the process exits with 0, without a login.
* Comment, "username is auto-detected via is_online" (`src/main.cpp:236`): the
  configured name has been merged before, so detection is skipped whenever a
  configuration with a name exists.
* Usage in the README, `./thulogin username` (`README.md:22`): the word is taken for
  a subcommand, and `main` logs in with the configured name or asks for one.

Three more were met and have no run of their own. A login or logout that was refused
is announced by "The error below occurred:" (`src/Authenticator.cpp:77`) with nothing
below it, if the portal put its explanation into a field that is not read for that error
(`src/Authenticator.cpp:277-287`): only the code and the message for `login_error`, only
the result for any other; `RefusalIsExplained` says exactly when. Of the README's usage `--pwd`,
`--server`, `--ua`, `--wifi` and `--ethernet` (`README.md:23-25`) are unknown to
`parseArgs`, so the word after `--pwd` becomes the subcommand. And the file of `--ca-file
<path>` (`src/main.cpp:62`) is never handed on, as a TODO says (`src/main.cpp:157`).

## The proofs

All of `KeepAliveProofs` is checked for every `IntervalSec` in Nat, every
`RetryLimit` above 0, any set of signals and both builds
(`KeepAliveConstants` is the only assumption).

The safety properties are not inductive. That a handler never holds the address
of a dead object depends on where main is, which depends on why `running_` was
false. `IndInv` adds the missing links:

* `LifeInv`: main's place determines the lifetime, `thread_` and `g_keepAlive`;
* `HandlerInv`: a handler runs on a live thread, and main stands still while its
  own handler is about to use the pointer;
* `StopInv`: if main, uninterrupted, finds `running_` false, something happened
  on the worker's thread: the loop ended, a handler called `stop`, or a second
  signal nested;
* `LoopInv`: counter, sleep index and late work agree with the worker's place;
* `EndInv`: the end was caused by a signal or by a streak of failures.

`InitEstablishes`, `MainPreserves`, `WorkerPreserves`, `DeliverPreserves` and
`HandlerPreserves` make `Invariance`; each safety property is a consequence of
it. `Refinement` proves that every step is a monitor step or a stutter, from
`MainImplements`, `WorkerImplements` and `SignalImplements`.

`HTTPSClientProofs` does the same for the HTTP client, for every length of request
and response (`HTTPSClientConstants`). Its `IndInv` says what each place in `get`
holds (`HoldInv`), what is known of the peer there (`PeerInv`: a whole CA file
from the set-up on, the name set before the connection, flags that are right
after the handshake) and how far the request is (`WireInv`). `NothingHeldWhenIdle`
needs the first, since what `cleanup` may free depends on the place it is called
from; `OnlyTheHostReadsRequest` needs the second. `CleanupFrees` and
`LeavingPreserves` are the argument for every failure at once; `NextUnits` and
the lemmas about prefixes carry `RequestArrivesInOrder`, and `ClientInvariance`
puts the steps together. `TlsUserSurvives` needs one more link in `HoldInv`: from the
handshake on, and ever after, SIGPIPE is ignored. `StrayCloses` needs another: while a
call is under way nothing was refused, so that the refusal it speaks of is this call's. `ClientImplementsExchange` shows
each step to be one of the exchange or a stutter; that an answer comes from the right
peer is `PeerInv`, that it comes after the whole request is `WireInv`.

`ThuloginProofs` is about the whole program: `Thulogin` with `Authenticator` and
`Portal`, for any users, passwords, challenges, command lines and configurations.
`PortalConstants` keeps the values that stand for an absent or an unreadable text apart
from real ones, `ThuloginConstants` types command lines and configurations, and
`MonitorConstants` says that some failures are allowed. None of the properties is
inductive: each relates what the portal did to what the user is told several steps
later, with lost replies, other clients and signals in between. `IndInv` has a part for
each thing in between:

* `ExchangeInv` and `PcInv`: which exchange an operation waits for, which operation runs
  in which part of `main`, and that a name is known by then;
* `ChallengeInv`: a challenge in force that is ours was issued for the name the members
  hold, and a request on its way was computed from it; from this comes
  `RequestUsesItsChallenge`;
* `PerformedInv`, `ReplyInv` (with `CanSay`, what a reply to each kind of request can
  say) and `ReturnedInv`: from the portal's step to the reply, the result and the
  message; from these come `SuccessIsReal` and `ExitStatusMeaning`. That `deauth` returns 0
  whenever the logout was confirmed needs that the last reply is no confirmation until
  one to the logout is there. `RefusalReads` and `TextReads` are what the client's
  branches make of a refusal, for `RefusalIsExplained`;
* `SessionInv` and `NameInv`: who is online was seen online, and the name to log out is
  configured or was seen, for `LogoutNamesSomebodyKnown`;
* `WatchInv`, `SaidInv` and `EchoInv`: failures are counted only while watching, `said`
  is the last word, and what `pwd_input` restores is what it found; a signal ends
  everything but the watch.

`ProgramInvariance` goes through the actions group by group, and the theorems after it are
its consequences. The proof asked for links that nobody would list at first, and TLC
checks them in `program_safety`: that a challenge request is only on its way late in
`main` (an earlier one would make `challenge.ours` mean something else), and that the
member `username` equals the merged parameter throughout `auth`.

`CliArgsProofs` is for every set of words and every number of arguments
(`CliArgsConstants`). That the walks agree at the end needs an invariant of each walk
on its own: `WalkInv` says that both compute the only set of places in which a place is
a value if the one before it is an option with a value and no value itself, as far as
they have come. `ReadInv` says what the walks have made of the arguments so far in terms
of that set: the last value of each option, the flags seen, the first free word. At the
end it is the grammar of `ReadsAsGrammar`, which names the set by what it is and not by
how it is computed. `WalksAlwaysAgree` and `ReadsAlwaysAsGrammar` follow.

`ConfigFileProofs` is for texts of any kind, as long as those that fit the buffer, those
that do not, those that are no UTF-8 and the marks for absent ones are apart
(`ConfigFileTexts`). Its `IndInv` adds to the two properties where a save stands: a file
that parses holds what is being saved from the moment it is opened, and before the
permissions are restricted, or `chmod` has failed to, a short text is not in the file
yet.

`TextsProofs` is for texts of every length over every set of symbols, with no
assumption about them. `TextInvariance` says only that the text is one; the rest is about
operators. `PlaceIs` says what a place of a pattern is, symbol by symbol; `FindIs` and
`FindExists` what `Find` returns; `CutAt` and `Middle` cut a text that was put together;
`FindInPrefix` and `FindPastPrefix` find a pattern in what stands before or after
a text that may contain anything. On these rest `TextIsRead` and `TailIsKept` for JSONP
replies (`ArgumentsComeOut`), `LongBody` and `ShortBody` for responses
(`BodiesComeBack`), `UrlParts` for URLs, and, for `NamesReachTheServer`, `WholeLine` (a
text without a line break: the first line is the whole one, the first empty line ends
the request, and there are two spaces or more) and `BrokenLine` (a text with one: the
line is cut inside it, and any path in it is too short).

`DecodersProofs` is about the encodings alone, for texts of bytes of every length
(`TextsConstants` says that bytes are below 256).

* Base64 takes of the alphabet only `AlphabetIsUnambiguous`, a fact about 64 characters.
  `CodeIs` gives the character at each place of each group of four, `CharacterStands` what
  it is read as and where the padding is, `GroupIs` puts the four numbers together again
  and `NumberIs` takes three bytes out of them; `PaddingIs` gives the length.
* What recurs along a text is proved by induction in first-order form: `SetInduction` is
  about a set of numbers, and every induction names the set of the places for which its
  claim holds. `FormIs`, `EncodeIs` and `ReadingIs` give the recursive functions their
  equations that way (that such a function exists, and only one, is itself such an
  induction); `PlainIsRead` and `EscapeIsRead` are one step of the server's reading,
  `ByteIsRead` the encoding of one byte read back. The induction from the last byte to the
  first is `EncodedIsRead`.

`Base64Returns`, `ParametersComeBack` and `BuildsReadAlike` in `TextsProofs` follow from
these. The last one needs `DigitIs`: the digits of a well formed sequence are in the three
ranges `CharToInt` knows, so that it never returns the -1 whose meaning depends on whether
`char` is signed.

`SrunInfoProofs` is for texts and keys of every length and both widths of `size_t`. It
goes up from bits to the whole parameter:

* sums of words: a word is a set of bit positions and `Add` says where a carry comes from,
  not how it is handed on. `NextCarry` gives back the step from a bit to the next, and from
  it come `SumAssociates`, `WordsCancel` and `MinusUndoesSum`: subtracting on 32 bits undoes
  adding on 32 bits. `LowSum` says that the low half of a sum on 64 bits is the sum of the
  low halves;
* one step: `MixIs` and `AddedIs` take what the program adds to a word, on 64 bits and
  masked afterwards, and what the portal subtracts to the same form. They differ only by
  what the right neighbour has beyond 32 bits; `MixedWord` says that a step is taken back if
  it has nothing there, and leads to another word if a sign was spread (`SumsDiffer` and
  `OtherSumStays`: no carry cancels the difference);
* the state: `IInv` is `Shape` and `Undoing`. `Shape` says which words are mixed (all, or
  in the first round those before `p`), that a mixed word has 32 bits, that `d` is `Delta`
  times the round and `z` the word mixed last. `Undoing` says that taking back as many
  steps as were made gives the words of the text; and if a step has read a word with a
  spread sign, that some word but the last two differs: the one the step was about, which
  the steps before it, about the words before it, do not touch (`LaterWordStays`).
  `UndoingInvariance` is that `IInv` holds; TLC agreed on the instance of `info` before
  the proof was begun;
* the end: `BytesAre`, `WordsAreRead` and `PartsMakeWord` turn words to bytes and back,
  `CodeIsPrinted` and `PrintedIsRead` take the code through the URL, `SizesAre` finds the
  length in the last word, `SignsCount` translates signs back to bytes of the text.

`InfoAlwaysOpened` is an equivalence: on a 64-bit build the portal opens the parameter if
and only if no fourth byte of a word but the first is beyond ASCII. Neither half could have
been had from the instance alone, since it depends on every key word and every carry.

Every invariant and every action property of the runs is proved, and so are the refinement
steps of both abstract specifications. Only model-checked: the liveness properties
(`SignalEndsProcess`, `FailingTargetEndsProcess`, `ImplementsMonitorEnds`, `Terminates`),
because fairness and ENABLED are beyond the prover's reach. The three claims of the
program's texts are refuted by TLC.

## Not modelled, and the plan

What is left to prove: that the keep-alive phase of `Thulogin`, composed with the real
threads instead of their monitor, keeps the program's invariant. What is left to model is
the table of portal messages and the digests, if a property should ever depend on them.

Known and without a property: `get` sets no timeout, so a target that accepts and
never answers blocks its caller for ever (the liveness properties state the assumption);
two signals handled on the two threads at once call `exit` twice; a signal while the
password is typed leaves the terminal without echo (`src/PwdInput.cpp:21`), which
`EchoAsFound` exempts; a quote in a name or a password breaks the information object
(`src/Authenticator.cpp:257`), and the login is then refused; a numeric `ecode` is
narrowed to `int` before it is printed.

Left out for good: the logger, the wording of messages (`PortalError` is a table), the
digests, and the vendored libraries, which are more than nine tenths of the lines in the
repository: mbedTLS, nlohmann json, hash-lib and `HTTPRequest.hpp` (unused) are
third-party code, seen here by what the program's own code can observe of them. So are
`-6` and `--campus-only`, which only choose URLs, and a standard input that is no
terminal (`tcgetattr` fails). Undefined behaviour of calling `exit` from a signal
handler is not explored beyond the interleavings above.
