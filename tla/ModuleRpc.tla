------------------------------ MODULE ModuleRpc ------------------------------
(***************************************************************************)
(* One product command run across the boundary between the shell and a     *)
(* module process (internal/rpc, sdk/module, sdk/protocol).                *)
(*                                                                         *)
(* Three parties and a clock take interleaved steps: the session, a        *)
(* goroutine that reads and writes the protocol; the launcher, which waits *)
(* for the session, the deadline or a cancellation and then ends the       *)
(* process; and the module, built on the SDK with handlers on several      *)
(* goroutines, or any program at all. They share two pipes that hold Pipe  *)
(* frames. A frame is its kind and what is checked of it; a frame cut off  *)
(* by the death of its writer is Cut, read only once the stream has ended. *)
(***************************************************************************)
EXTENDS AnswerDeadline, Sequences

CONSTANTS Askers,             \* goroutines of a handler
          Codes,              \* codes the broker may deny access with
          MaxAccessRequests,  \* requests the shell answers in one invocation
          MaxRequests,        \* bound: requests a handler built on the SDK makes
          MaxFrames,          \* bound: frames any other program writes
          Pipe                \* frames a pipe holds before a writer blocks

ASSUME RpcAssumption ==
    /\ MaxAccessRequests \in Nat
    /\ MaxRequests \in Nat \ {0}
    /\ MaxFrames \in Nat
    /\ Pipe \in Nat \ {0}

VARIABLES launcher, session, module, asker, toModule, fromModule, spoken, awaited

vars == <<launcher, session, module, asker, toModule, fromModule, spoken, awaited, deadline>>

-----------------------------------------------------------------------------
(* Frames. What the shell refuses for one reason is one kind: hello covers the
   identity, capabilities and protocol the receipt promises, wrongHello any that
   differ; foreign is a message of another invocation; damaged one that is
   malformed or too large; unrenderable a result or problem that does not
   validate; other any message out of its place. *)
Plain(kind) == [kind |-> kind]
Access(n) == [kind |-> "access", correlation |-> n]
Denial(code, n) == [kind |-> "problem", code |-> code, about |-> n]
OwnProblem == [kind |-> "own"]
Cut == Plain("cut")

Numbers == 1..MaxRequests
Denials == {Denial(code, n) : code \in Codes, n \in Numbers}
Terminals == {Plain("result"), OwnProblem} \cup Denials
Requests == {Access(n) : n \in Numbers}
Plains == {Plain(k) : k \in {"hello", "wrongHello", "uncorrelated", "foreign",
                             "damaged", "unrenderable", "other"}}
FromModule == Terminals \cup Requests \cup Plains \cup {Cut}

Answer(n, verdict) == [kind |-> "answer", correlation |-> n, verdict |-> verdict]
Answers == {Answer(n, v) : n \in Numbers, v \in {Plain("granted")} \cup Denials}
ToModule == {Plain("welcome"), Plain("invoke")} \cup Answers

None == Plain("none")

Errors == {"none", "no_terminal_message", "truncated_message", "damaged_message",
           "unexpected_message", "trust", "stream_failed", "invocation_mismatch",
           "too_many_access_requests", "uncorrelated_access_request",
           "invalid_terminal", "extra_message"}
Outcomes == Terminals \cup {None}
            \cup {Plain(e) : e \in Errors \cup {"timed_out", "cancelled", "module_exited",
                                                "module_not_launched"}}
-----------------------------------------------------------------------------
Launchers ==
    [at : {"start", "select", "close", "ending", "join", "reaping", "joinExit", "returned"},
     ending : {"none", "timed_out", "cancelled"},
     outcome : Outcomes]

(* pending is the request before the broker, and then the answer to it. *)
Sessions ==
    [at : {"unborn", "hello", "welcome", "invoke", "reading", "broker", "answer", "tail", "ended"},
     error : Errors,
     produced : Terminals \cup {None},
     requests : 0..MaxAccessRequests + 1,
     pending : Answers \cup Requests \cup {None},
     issued : Seq(Denials)]

(* told and reply are the SDK's: the denials the handler was told and what it
   returned. misled is history: the module was sent what it did not wait for. *)
Modules ==
    [at : {"hello", "welcome", "invoke", "handler", "terminal", "exit", "any"},
     status : {"unborn", "running", "ok", "failed", "killed"},
     shut : BOOLEAN, deaf : BOOLEAN, heirs : BOOLEAN,
     requests : 0..MaxRequests, frames : 0..MaxFrames,
     told : SUBSET Denials, misled : BOOLEAN,
     reply : Terminals \cup {None, Plain("tooLarge")}]

TypeOK ==
    /\ deadline \in Deadlines
    /\ awaited \in 0..Timeout
    /\ launcher \in Launchers
    /\ session \in Sessions
    /\ module \in Modules
    /\ asker \in [Askers -> [at : {"idle", "asking", "awaiting"}, number : 0..MaxRequests]]
    /\ toModule \in [frames : Seq(ToModule), closed : BOOLEAN]
    /\ fromModule \in Seq(FromModule)
    /\ spoken \in Terminals \cup {Plain("nothing"), Plain("opened"), Plain("astray")}

(* A module that is built on the SDK starts at hello, any other program at any. *)
Init ==
    /\ deadline = NewDeadline
    /\ awaited = 0
    /\ launcher = [at |-> "start", ending |-> "none", outcome |-> None]
    /\ session = [at |-> "unborn", error |-> "none", produced |-> None, requests |-> 0,
                  pending |-> None, issued |-> <<>>]
    /\ \E program \in {"hello", "any"} :
        module = [at |-> program, status |-> "unborn", shut |-> FALSE, deaf |-> FALSE,
                  heirs |-> FALSE, requests |-> 0, frames |-> 0, told |-> {},
                  misled |-> FALSE, reply |-> None]
    /\ asker = [g \in Askers |-> [at |-> "idle", number |-> 0]]
    /\ toModule = [frames |-> <<>>, closed |-> FALSE]
    /\ fromModule = <<>>
    /\ spoken = Plain("nothing")
-----------------------------------------------------------------------------
(* The streams. A stream ends for its reader when nobody holds its other end. *)
Running == module.status = "running"
WriterLives == (Running /\ ~module.shut) \/ module.heirs
ReaderLives == (Running /\ ~module.deaf) \/ module.heirs

(* ReadEnvelope on the shell's side: a whole frame, or the end of the stream. *)
Arrived == fromModule # <<>> /\ Head(fromModule) # Cut
StreamEnded == ~Arrived /\ ~WriterLives
Truncated == fromModule # <<>>

(* What the module's own writing amounts to: a hello, access requests, one
   terminal message; anything else is astray. *)
Spoken(s, f) ==
    CASE s = Plain("nothing") /\ f = Plain("hello") -> Plain("opened")
      [] s = Plain("opened") /\ f \in Requests -> s
      [] s = Plain("opened") /\ f \in Terminals -> f
      [] OTHER -> Plain("astray")

ModuleWrites(f) ==
    /\ Len(fromModule) < Pipe
    /\ fromModule' = Append(fromModule, f)
    /\ spoken' = Spoken(spoken, f)
-----------------------------------------------------------------------------
(* The session (session.go). *)
SessionAt(place) == session.at = place
Failed(error) == [session EXCEPT !.at = "ended", !.error = error]

(* A read that finds the stream ended, or a frame that is not an envelope. *)
ReadProblem ==
    /\ \/ /\ StreamEnded
          /\ session' = Failed(IF Truncated THEN "truncated_message" ELSE "no_terminal_message")
          /\ UNCHANGED fromModule
       \/ /\ Arrived
          /\ Head(fromModule) = Plain("damaged")
          /\ session' = Failed("damaged_message")
          /\ fromModule' = Tail(fromModule)
    /\ UNCHANGED <<launcher, module, asker, toModule, spoken, awaited, deadline>>

(* A read that returns f. *)
Reads(f) ==
    /\ Arrived
    /\ f = Head(fromModule)
    /\ f # Plain("damaged")
    /\ fromModule' = Tail(fromModule)
    /\ UNCHANGED <<launcher, module, asker, toModule, spoken, awaited>>

Handshake ==
    /\ SessionAt("hello")
    /\ \/ ReadProblem
       \/ \E f \in FromModule :
            /\ Reads(f)
            /\ session' = CASE f = Plain("hello") -> [session EXCEPT !.at = "welcome"]
                            [] f = Plain("wrongHello") -> Failed("trust")
                            [] OTHER -> Failed("unexpected_message")
            /\ UNCHANGED deadline

(* Session.write: the frame is sent, or the pipe has no reader, or it is closed. *)
Write(f, next) ==
    /\ \/ /\ ~toModule.closed
          /\ ReaderLives
          /\ Len(toModule.frames) < Pipe
          /\ toModule' = [toModule EXCEPT !.frames = Append(@, f)]
          /\ session' = [session EXCEPT !.at = next, !.pending = None]
       \/ /\ toModule.closed \/ ~ReaderLives
          /\ session' = Failed("stream_failed")
          /\ UNCHANGED toModule
    /\ UNCHANGED <<launcher, module, asker, fromModule, spoken, awaited, deadline>>

Welcome == SessionAt("welcome") /\ Write(Plain("welcome"), "invoke")
SendInvoke == SessionAt("invoke") /\ Write(Plain("invoke"), "reading")

(* An access request is counted before it is looked at. *)
Asked(f) ==
    LET n == session.requests + 1
    IN  IF n > MaxAccessRequests THEN [Failed("too_many_access_requests") EXCEPT !.requests = n]
        ELSE IF f = Plain("uncorrelated")
             THEN [Failed("uncorrelated_access_request") EXCEPT !.requests = n]
             ELSE [session EXCEPT !.at = "broker", !.requests = n, !.pending = f]

(* restoreDenial: the first refusal of this invocation with the code of the
   problem the module returned stands in for it; any other is the module's own. *)
Restored(f) ==
    LET same == {i \in DOMAIN session.issued : session.issued[i].code = f.code}
    IN  IF same = {} THEN OwnProblem
        ELSE session.issued[CHOOSE i \in same : \A j \in same : i <= j]

Answered(produced) == [session EXCEPT !.at = "tail", !.produced = produced]

(* A message that asks for access pauses the deadline in the same step. *)
ReadTerminal ==
    /\ SessionAt("reading")
    /\ \/ ReadProblem
       \/ \E f \in FromModule :
            /\ Reads(f)
            /\ session' = CASE f = Plain("foreign") -> Failed("invocation_mismatch")
                            [] f \in Requests \cup {Plain("uncorrelated")} -> Asked(f)
                            [] f \in {Plain("result"), OwnProblem} -> Answered(f)
                            [] f \in Denials -> Answered(Restored(f))
                            [] f = Plain("unrenderable") -> Failed("invalid_terminal")
                            [] OTHER -> Failed("unexpected_message")
            /\ deadline' = IF session'.at = "broker" THEN Held(deadline) ELSE deadline

(* The broker grants or refuses and the deadline resumes; the answer is written
   after that, in the module's time. *)
BrokerAnswers ==
    /\ SessionAt("broker")
    /\ LET n == session.pending.correlation IN
       \E verdict \in {Plain("granted")} \cup {Denial(code, n) : code \in Codes} :
            session' = [session EXCEPT !.at = "answer", !.pending = Answer(n, verdict),
                !.issued = IF verdict \in Denials THEN Append(@, verdict) ELSE @]
    /\ deadline' = Released(deadline)
    /\ UNCHANGED <<launcher, module, asker, toModule, fromModule, spoken, awaited>>

AnswerAccess == SessionAt("answer") /\ Write(session.pending, "reading")

(* Mutant: ExpectNoFurtherMessages, not reading on. *)
ExpectNoFurtherMessages_Unread ==
    /\ SessionAt("tail")
    /\ session' = [session EXCEPT !.at = "ended"]
    /\ UNCHANGED <<launcher, module, asker, toModule, fromModule, spoken, awaited, deadline>>

ExpectNoFurtherMessages ==
    /\ SessionAt("tail")
    /\ \/ /\ StreamEnded /\ ~Truncated
          /\ session' = [session EXCEPT !.at = "ended"]
          /\ UNCHANGED <<launcher, module, asker, toModule, fromModule, spoken, awaited, deadline>>
       \/ (StreamEnded => Truncated) /\ ReadProblem
       \/ \E f \in FromModule :
            /\ Reads(f)
            /\ session' = Failed("extra_message")
            /\ UNCHANGED deadline

SessionStep == \/ Handshake \/ Welcome \/ SendInvoke \/ ReadTerminal
               \/ AnswerAccess \/ ExpectNoFurtherMessages
-----------------------------------------------------------------------------
(* The launcher (launch.go). *)
LauncherAt(place) == launcher.at = place
Goes(place) == launcher' = [launcher EXCEPT !.at = place]
GivesUp(ending) == launcher' = [launcher EXCEPT !.at = "close", !.ending = ending]

(* Launcher.Invoke: the process starts, or the command ends here. *)
Launch ==
    /\ LauncherAt("start")
    /\ \/ /\ Goes("select")
          /\ module' = [module EXCEPT !.status = "running"]
          /\ session' = [session EXCEPT !.at = "hello"]
       \/ /\ launcher' = [launcher EXCEPT !.at = "returned", !.outcome = Plain("module_not_launched")]
          /\ UNCHANGED <<module, session>>
    /\ UNCHANGED <<asker, toModule, fromModule, spoken, awaited, deadline>>

(* runSession's select; whichever of its cases are ready, any is taken. *)
Select ==
    /\ LauncherAt("select")
    /\ \/ SessionAt("ended") /\ Goes("close") /\ UNCHANGED deadline
       \/ Expired /\ GivesUp("timed_out") /\ deadline' = Received
    /\ UNCHANGED <<session, module, asker, toModule, fromModule, spoken, awaited>>

Cancelled ==
    /\ LauncherAt("select")
    /\ GivesUp("cancelled")
    /\ UNCHANGED <<session, module, asker, toModule, fromModule, spoken, awaited, deadline>>

(* stop: the module's input is closed, whoever may be writing to it. *)
CloseInput ==
    /\ LauncherAt("close")
    /\ Goes("ending")
    /\ toModule' = [toModule EXCEPT !.closed = TRUE]
    /\ UNCHANGED <<session, module, asker, fromModule, spoken, awaited, deadline>>

(* The process ends; one that ends while it is writing may leave a frame cut off. *)
Writing == \/ module.at \in {"hello", "any"} /\ ~module.shut
           \/ module.at = "terminal" /\ module.reply # Plain("tooLarge")
           \/ \E g \in Askers : asker[g].at = "asking"

Dies(status) ==
    /\ module' = [module EXCEPT !.status = status]
    /\ \/ UNCHANGED <<fromModule, spoken>>
       \/ Writing /\ fromModule' = Append(fromModule, Cut) /\ spoken' = Plain("astray")

(* waitOrKill: the signal comes first, or the grace is over and the process is
   killed; next is where the launcher waits on. *)
Kill(next) ==
    /\ Goes(next)
    /\ IF Running THEN Dies("killed") ELSE UNCHANGED <<module, fromModule, spoken>>
    /\ UNCHANGED <<session, asker, toModule, awaited, deadline>>

AwaitSession ==
    \/ /\ LauncherAt("ending") \/ LauncherAt("join")
       /\ SessionAt("ended")
       /\ Goes("reaping")
       /\ UNCHANGED <<session, module, asker, toModule, fromModule, spoken, awaited, deadline>>
    \/ LauncherAt("ending") /\ Kill("join")

(* runSession's answer, one problem or the module's terminal message: why the
   launcher gave up, what the session met, how the process exited (checkExit). *)
Ended == CASE launcher.ending # "none" -> Plain(launcher.ending)
           [] session.error # "none" -> Plain(session.error)
           [] module.status # "ok" -> Plain("module_exited")
           [] OTHER -> session.produced

(* Mutant: AwaitExit, waiting for the process without a grace. *)
AwaitExit_Patient ==
    /\ LauncherAt("reaping")
    /\ ~Running /\ ~module.heirs
    /\ launcher' = [launcher EXCEPT !.at = "returned", !.outcome = Ended]
    /\ UNCHANGED <<session, module, asker, toModule, fromModule, spoken, awaited, deadline>>

(* command.Wait returns once the process has exited and nobody else holds the
   standard error it copies. *)
AwaitExit ==
    \/ /\ LauncherAt("reaping") \/ LauncherAt("joinExit")
       /\ ~Running /\ ~module.heirs
       /\ launcher' = [launcher EXCEPT !.at = "returned", !.outcome = Ended]
       /\ UNCHANGED <<session, module, asker, toModule, fromModule, spoken, awaited, deadline>>
    \/ LauncherAt("reaping") /\ Kill("joinExit")

(* A tick of the clock, as long as somebody waits for the timer; awaited counts
   the time the session is not in the broker. *)
Tick ==
    /\ LauncherAt("select")
    /\ deadline' = Older(deadline)
    /\ awaited' = IF SessionAt("broker") THEN awaited ELSE Capped(awaited + 1)
    /\ UNCHANGED <<launcher, session, module, asker, toModule, fromModule, spoken>>
-----------------------------------------------------------------------------
(* A module built on the SDK (sdk/module/serve.go, broker.go). Its main exits
   with status 1 when Serve returns an error, and 0 otherwise. *)
ModuleAt(place) == Running /\ module.at = place
Input == toModule.frames
InputEnded == Input = <<>> /\ toModule.closed
Takes(f) ==
    /\ Input # <<>>
    /\ f = Head(Input)
    /\ toModule' = [toModule EXCEPT !.frames = Tail(@)]

SendHello ==
    /\ ModuleAt("hello")
    /\ ModuleWrites(Plain("hello"))
    /\ module' = [module EXCEPT !.at = "welcome"]
    /\ UNCHANGED <<launcher, session, asker, toModule, awaited, deadline>>

(* readWelcome and readInvoke: the expected frame moves on, anything else, and
   the end of the input, is an error. *)
Expects(place, kind, next) ==
    /\ ModuleAt(place)
    /\ \/ \E f \in ToModule :
            /\ Takes(f)
            /\ module' = IF f = Plain(kind) THEN [module EXCEPT !.at = next]
                         ELSE [module EXCEPT !.status = "failed", !.misled = TRUE]
       \/ /\ InputEnded
          /\ module' = [module EXCEPT !.status = "failed"]
          /\ UNCHANGED toModule
    /\ UNCHANGED <<launcher, session, asker, fromModule, spoken, awaited, deadline>>

ReadWelcome == Expects("welcome", "welcome", "invoke")
ReadInvoke == Expects("invoke", "invoke", "handler")

(* Mutant: Acquire, without the mutex. *)
Acquire_Unlocked(g) ==
    /\ ModuleAt("handler")
    /\ asker[g].at = "idle"
    /\ module.requests < MaxRequests
    /\ module' = [module EXCEPT !.requests = @ + 1]
    /\ asker' = [asker EXCEPT ![g] = [at |-> "asking", number |-> module.requests + 1]]
    /\ UNCHANGED <<launcher, session, toModule, fromModule, spoken, awaited, deadline>>

(* streamBroker.Acquire on goroutine g: take the mutex and number the request,
   write it, read the answer to it. *)
Acquire(g) ==
    /\ ModuleAt("handler")
    /\ \A h \in Askers : asker[h].at = "idle"
    /\ module.requests < MaxRequests
    /\ module' = [module EXCEPT !.requests = @ + 1]
    /\ asker' = [asker EXCEPT ![g] = [at |-> "asking", number |-> module.requests + 1]]
    /\ UNCHANGED <<launcher, session, toModule, fromModule, spoken, awaited, deadline>>

WriteRequest(g) ==
    /\ ModuleAt("handler")
    /\ asker[g].at = "asking"
    /\ ModuleWrites(Access(asker[g].number))
    /\ asker' = [asker EXCEPT ![g].at = "awaiting"]
    /\ UNCHANGED <<launcher, session, module, toModule, awaited, deadline>>

ReadAnswer(g) ==
    /\ ModuleAt("handler")
    /\ asker[g].at = "awaiting"
    /\ \/ \E f \in ToModule :
            /\ Takes(f)
            /\ module' = IF f \in Answers /\ f.correlation = asker[g].number
                         THEN [module EXCEPT !.told = @ \cup ({f.verdict} \cap Denials)]
                         ELSE [module EXCEPT !.misled = TRUE]
       \/ InputEnded /\ UNCHANGED <<module, toModule>>
    /\ asker' = [asker EXCEPT ![g].at = "idle"]
    /\ UNCHANGED <<launcher, session, fromModule, spoken, awaited, deadline>>

(* runCommand: the handler, once its goroutines are done, returns a result, a
   problem of its own or a denial it was told; the result may not fit a frame. *)
RunCommand ==
    /\ ModuleAt("handler")
    /\ \A g \in Askers : asker[g].at = "idle"
    /\ \E reply \in {Plain("result"), OwnProblem, Plain("tooLarge")} \cup module.told :
            module' = [module EXCEPT !.at = "terminal", !.reply = reply]
    /\ UNCHANGED <<launcher, session, asker, toModule, fromModule, spoken, awaited, deadline>>

(* ServeStreams' last write, and the exit. *)
SendTerminal ==
    /\ ModuleAt("terminal")
    /\ \/ /\ module.reply # Plain("tooLarge")
          /\ ModuleWrites(module.reply)
          /\ module' = [module EXCEPT !.at = "exit"]
       \/ /\ module.reply = Plain("tooLarge")
          /\ module' = [module EXCEPT !.status = "failed"]
          /\ UNCHANGED <<fromModule, spoken>>
    /\ UNCHANGED <<launcher, session, asker, toModule, awaited, deadline>>

Exit ==
    /\ ModuleAt("exit")
    /\ module' = [module EXCEPT !.status = "ok"]
    /\ UNCHANGED <<launcher, session, asker, toModule, fromModule, spoken, awaited, deadline>>
-----------------------------------------------------------------------------
(* Any other program writes and reads what it likes, closes its streams, exits. *)
AnyWrites ==
    /\ ModuleAt("any")
    /\ ~module.shut
    /\ module.frames < MaxFrames
    /\ \E f \in Plains \cup {Access(1), Plain("result"), OwnProblem}
                \cup {Denial(code, 1) : code \in Codes} : ModuleWrites(f)
    /\ module' = [module EXCEPT !.frames = @ + 1]
    /\ UNCHANGED <<launcher, session, asker, toModule, awaited, deadline>>

AnyReads ==
    /\ ModuleAt("any")
    /\ ~module.deaf
    /\ \E f \in ToModule : Takes(f)
    /\ UNCHANGED <<launcher, session, module, asker, fromModule, spoken, awaited, deadline>>

AnyCloses ==
    /\ ModuleAt("any")
    /\ \/ ~module.shut /\ module' = [module EXCEPT !.shut = TRUE]
       \/ ~module.deaf /\ module' = [module EXCEPT !.deaf = TRUE]
    /\ UNCHANGED <<launcher, session, asker, toModule, fromModule, spoken, awaited, deadline>>

AnyExits ==
    /\ ModuleAt("any")
    /\ module' = [module EXCEPT !.status = "ok"]
    /\ UNCHANGED <<launcher, session, asker, toModule, fromModule, spoken, awaited, deadline>>

(* Any module may die of itself, in the middle of a frame too, and may have
   started children that keep its streams open. *)
Crash ==
    /\ Running
    /\ Dies("failed")
    /\ UNCHANGED <<launcher, session, asker, toModule, awaited, deadline>>

StartChildren ==
    /\ Running
    /\ ~module.heirs /\ ~module.shut /\ ~module.deaf
    /\ module' = [module EXCEPT !.heirs = TRUE]
    /\ UNCHANGED <<launcher, session, asker, toModule, fromModule, spoken, awaited, deadline>>

LauncherStep == Launch \/ Select \/ CloseInput \/ AwaitSession \/ AwaitExit

SdkStep ==
    \/ SendHello \/ ReadWelcome \/ ReadInvoke \/ RunCommand \/ SendTerminal \/ Exit
    \/ \E g \in Askers : Acquire(g) \/ WriteRequest(g) \/ ReadAnswer(g)

AnyStep == AnyWrites \/ AnyReads \/ AnyCloses \/ AnyExits

Next == \/ LauncherStep \/ Cancelled \/ SessionStep \/ BrokerAnswers \/ Tick
        \/ SdkStep \/ AnyStep \/ Crash \/ StartChildren

(* The shell's goroutines are scheduled, its clock runs, and the broker bounds its
   own waits; of the module nothing is assumed. *)
Spec == /\ Init /\ [][Next]_vars
        /\ WF_vars(LauncherStep)
        /\ WF_vars(SessionStep \/ BrokerAnswers)
        /\ WF_vars(Tick)
-----------------------------------------------------------------------------
(* Safety. *)
BuiltOnSdk == module.at # "any"

(* A terminal message is believed only of a module that wrote a hello, access
   requests and that one message, nothing more, and exited cleanly; what the
   shell reports is that message, a refusal restored under its own code at most
   (session.go:281, launch.go:169-187). *)
Believed ==
    launcher.outcome \in Terminals =>
        /\ module.status = "ok"
        /\ spoken \in Terminals
        /\ spoken \notin Denials => launcher.outcome = spoken
        /\ launcher.outcome \in Denials => spoken \in Denials /\ spoken.code = launcher.outcome.code

(* A module that returns a denial it was told has the shell's own refusal
   reported, not its account of it (session.go:393-407). *)
RefusalIsTheShells ==
    launcher.outcome \in Terminals /\ spoken \in module.told =>
        \E i \in DOMAIN session.issued :
            launcher.outcome = session.issued[i] /\ session.issued[i].code = spoken.code

(* Whatever happens, when Invoke returns the process is finished with and the
   session's goroutine has ended (launch.go:62-64, 189-200). *)
ChildGone == launcher.at = "returned" => ~Running /\ session.at \in {"unborn", "ended"}

(* A module is ended for its deadline only when its whole time has gone by outside
   the broker: no time before an earlier pause is charged twice, and none of the
   broker's is charged to it. Not only what the module itself takes is: a write of
   the shell's that waits for a full pipe counts, an answer's too, although the
   timer is said to resume once the answer is written (launch.go:242-243), for the
   session releases it before the write (session.go:324). *)
ModuleTimeOnly == launcher.ending = "timed_out" => awaited = Timeout

(* While the launcher waits, the deadline can end the exchange exactly when the
   module's time has gone by outside the broker, and the broker is not the one
   waited for: a pause never leaves the timer silent, or running
   (launch.go:263-290). The time the session takes to write an answer is counted
   against the module, as ModuleTimeOnly says. *)
DeadlineKept ==
    launcher.at = "select" => (Expired <=> awaited = Timeout /\ ~SessionAt("broker"))

(* A module built on the SDK is never refused for what it says: what the shell
   reports of it is its outcome, its death or that it asked too often, and the
   module in turn never gets an answer it did not ask for, whichever of its
   goroutines ask (serve.go:113-153, broker.go:103-107, 160-167). *)
SdkUnderstood ==
    BuiltOnSdk =>
        /\ ~module.misled
        /\ session.error \in {"none", "too_many_access_requests", "no_terminal_message",
                              "truncated_message", "stream_failed"}
        /\ session.error \in {"no_terminal_message", "truncated_message", "stream_failed"} =>
               module.status \in {"failed", "killed"} \/ toModule.closed

-----------------------------------------------------------------------------
(* Liveness. *)

(* Invoke comes back, whatever the module does, short of leaving children behind
   that keep its streams open (launch.go:62-64, 189-206). *)
Returns == launcher.at = "select" ~> launcher.at = "returned" \/ module.heirs
=============================================================================
