--------------------------- MODULE ModuleRpcProofs ---------------------------
(* Proofs about ModuleRpc, for any deadline, any number of goroutines, codes *)
(* and access requests, and pipes of any length.                             *)
EXTENDS ModuleRpc, WellFoundedInduction, TLAPS

-----------------------------------------------------------------------------
(* What each step leaves alone. *)
ModuleStep == SdkStep \/ AnyStep \/ Crash \/ StartChildren

\* The module's steps touch neither the launcher, the session nor the clock.
LEMMA ModuleFrame ==
  ASSUME ModuleStep
  PROVE  UNCHANGED <<launcher, session, awaited, deadline>>
<1>1. SdkStep => UNCHANGED <<launcher, session, awaited, deadline>>
  BY DEF SdkStep, SendHello, ReadWelcome, ReadInvoke, Expects, RunCommand, SendTerminal, Exit,
         Acquire, WriteRequest, ReadAnswer
<1>2. AnyStep => UNCHANGED <<launcher, session, awaited, deadline>>
  BY DEF AnyStep, AnyWrites, AnyReads, AnyCloses, AnyExits
<1> QED
  BY <1>1, <1>2 DEF ModuleStep, Crash, StartChildren

\* The session's steps touch neither the launcher, the module nor the clock.
LEMMA SessionFrame ==
  ASSUME SessionStep \/ BrokerAnswers
  PROVE  UNCHANGED <<launcher, module, asker, spoken, awaited>>
  BY DEF SessionStep, BrokerAnswers, Handshake, Welcome, SendInvoke, ReadTerminal, AnswerAccess,
         ExpectNoFurtherMessages, Write, Reads, ReadProblem

\* A step of the session reads, finds that it cannot, or leaves the stream to the
\* shell alone.
LEMMA SessionReads ==
  ASSUME SessionStep \/ BrokerAnswers
  PROVE  UNCHANGED fromModule \/ ReadProblem \/ \E f \in FromModule : Reads(f)
<1>1. Handshake => ReadProblem \/ \E f \in FromModule : Reads(f)
  BY DEF Handshake
<1>2. ReadTerminal => ReadProblem \/ \E f \in FromModule : Reads(f)
  BY DEF ReadTerminal
<1>3. Welcome \/ SendInvoke \/ AnswerAccess \/ BrokerAnswers => UNCHANGED fromModule
  BY DEF Welcome, SendInvoke, AnswerAccess, BrokerAnswers, Write
<1>4. ExpectNoFurtherMessages => UNCHANGED fromModule \/ ReadProblem \/ \E f \in FromModule : Reads(f)
  BY DEF ExpectNoFurtherMessages
<1> QED
  BY <1>1, <1>2, <1>3, <1>4 DEF SessionStep

\* The launcher's steps after the start touch neither the session nor the clock.
LEMMA LauncherFrame ==
  ASSUME LauncherStep \/ Cancelled
  PROVE  /\ UNCHANGED <<asker, awaited>>
         /\ Launch \/ UNCHANGED session
         /\ Select \/ UNCHANGED deadline
         /\ CloseInput \/ UNCHANGED toModule
  BY DEF LauncherStep, Cancelled, Launch, Select, CloseInput, AwaitSession, AwaitExit, Kill

\* Every step is one of these.
LEMMA Steps ==
  [Next]_vars => \/ LauncherStep \/ Cancelled \/ SessionStep \/ BrokerAnswers
                 \/ Tick \/ ModuleStep \/ UNCHANGED vars
  BY DEF Next, ModuleStep
-----------------------------------------------------------------------------
(* Types. *)
\* The launcher and the deadline.
LauncherType ==
  /\ launcher \in Launchers
  /\ deadline \in Deadlines
  /\ awaited \in 0..Timeout

(***************************************************************************)
(* The session: what is pending where it asks and answers, that it has     *)
(* met no error and not asked too often while it goes on, and that it      *)
(* has a terminal message once it waits for the end of the stream.         *)
(***************************************************************************)
SessionType ==
  /\ session \in Sessions
  /\ session.at = "broker" => session.pending \in Requests
  /\ session.at = "answer" => session.pending \in Answers
  /\ session.at # "ended" => session.error = "none" /\ session.requests <= MaxAccessRequests
  /\ session.at = "tail" => session.produced \in Terminals
  /\ session.at = "ended" /\ session.error = "none" => session.produced \in Terminals

\* The module: it numbers a request before it writes it, and has a reply before
\* it writes that.
ModuleType ==
  /\ module \in Modules
  /\ module.at = "terminal" => module.reply \in Terminals \cup {Plain("tooLarge")}
  /\ asker \in [Askers -> [at : {"idle", "asking", "awaiting"}, number : 0..MaxRequests]]
  /\ \A g \in Askers : asker[g].at = "asking" => asker[g].number \in Numbers

\* The pipes.
PipesType ==
  /\ toModule \in [frames : Seq(ToModule), closed : BOOLEAN]
  /\ fromModule \in Seq(FromModule)
  /\ spoken \in Terminals \cup {Plain("nothing"), Plain("opened"), Plain("astray")}

Typed == LauncherType /\ SessionType /\ ModuleType /\ PipesType

(***************************************************************************)
(* The lives of the process and of the session's goroutine: neither begins *)
(* before the launch, the launcher waits for the process only once the     *)
(* session has ended, and both are over when it returns.                   *)
(***************************************************************************)
Life ==
  /\ launcher.at = "start" => session.at = "unborn" /\ module.status = "unborn"
  /\ session.at = "unborn" => launcher.at \in {"start", "returned"}
  /\ launcher.at \in {"reaping", "joinExit"} => session.at = "ended"
  /\ launcher.at = "returned" => ~Running /\ session.at \in {"unborn", "ended"}

LEMMA InitTyped == Init => Typed
<1> SUFFICES ASSUME Init PROVE Typed
  OBVIOUS
<1>1. LauncherType
  BY TimeoutAssumption DEF Init, LauncherType, Launchers, Outcomes, NewDeadline, Deadlines
<1>2. SessionType
  BY RpcAssumption DEF Init, SessionType, Sessions, Errors
<1>3. ModuleType
  BY RpcAssumption DEF Init, ModuleType, Modules
<1>4. PipesType
  BY DEF Init, PipesType
<1> QED
  BY <1>1, <1>2, <1>3, <1>4 DEF Typed

\* The time between two steps does not take the deadline out of its type.
LEMMA DeadlineTypes ==
  ASSUME deadline \in Deadlines
  PROVE  /\ Older(deadline) \in Deadlines
         /\ Held(deadline) \in Deadlines
         /\ Released(deadline) \in Deadlines
         /\ Received \in Deadlines
<1>1. /\ deadline.left \in 0..Timeout /\ deadline.remaining \in 0..Timeout
      /\ deadline.age \in 0..Timeout /\ deadline.armed \in BOOLEAN
  BY DEF Deadlines
<1>2. /\ Capped(deadline.age + 1) \in 0..Timeout
      /\ Floor(deadline.left - 1) \in 0..Timeout
      /\ Floor(deadline.remaining - deadline.age) \in 0..Timeout
      /\ 0 \in 0..Timeout
  BY <1>1, TimeoutAssumption DEF Floor, Capped
<1>3. Older(deadline) \in Deadlines
  BY <1>1, <1>2 DEF Deadlines, Older
<1>4. Held(deadline) \in Deadlines
  BY <1>1, <1>2 DEF Deadlines, Held
<1>5. Released(deadline) \in Deadlines /\ Received \in Deadlines
  BY <1>1, <1>2 DEF Deadlines, Released, Received
<1> QED
  BY <1>3, <1>4, <1>5

LEMMA SequenceTypes ==
  ASSUME NEW S, NEW q \in Seq(S)
  PROVE  /\ \A x \in S : Append(q, x) \in Seq(S)
         /\ q # <<>> => Head(q) \in S /\ Tail(q) \in Seq(S)
  OBVIOUS

LEMMA NextLauncherType ==
  ASSUME Typed, [Next]_vars
  PROVE  LauncherType'
<1> USE DEF Typed
<1>1. CASE LauncherStep \/ Cancelled
  <2>1. launcher' \in Launchers
    <3>1. Ended \in Outcomes
      BY DEF Ended, Outcomes, SessionType, Sessions, LauncherType, Launchers
    <3> QED
      BY <1>1, <3>1 DEF LauncherStep, Cancelled, Launch, Select, CloseInput, AwaitSession, AwaitExit,
           Kill, Goes, GivesUp, LauncherType, Launchers, Outcomes
  <2>2. deadline' \in Deadlines
    <3>1. Select => deadline' = deadline \/ deadline' = Received
      BY DEF Select
    <3> QED
      BY <1>1, <3>1, LauncherFrame, DeadlineTypes DEF LauncherType
  <2> QED
    BY <1>1, <2>1, <2>2, LauncherFrame DEF LauncherType
<1>2. CASE SessionStep \/ BrokerAnswers
  <2>1. \/ UNCHANGED deadline
        \/ deadline' = Held(deadline)
        \/ deadline' = Released(deadline)
    BY <1>2 DEF SessionStep, BrokerAnswers, Handshake, Welcome, SendInvoke, ReadTerminal, AnswerAccess,
         ExpectNoFurtherMessages, Write, ReadProblem
  <2> QED
    BY <1>2, <2>1, SessionFrame, DeadlineTypes DEF LauncherType
<1>3. CASE Tick
  BY <1>3, DeadlineTypes, TimeoutAssumption DEF Tick, LauncherType, Capped
<1>4. CASE ModuleStep
  BY <1>4, ModuleFrame DEF LauncherType
<1>5. CASE UNCHANGED vars
  BY <1>5 DEF vars, LauncherType
<1> QED
  BY <1>1, <1>2, <1>3, <1>4, <1>5, Steps

LEMMA NextPipesType ==
  ASSUME Typed, [Next]_vars
  PROVE  PipesType'
<1> USE DEF Typed
<1>1. ASSUME NEW f \in FromModule, ModuleWrites(f)
      PROVE  /\ fromModule' \in Seq(FromModule)
             /\ spoken' \in Terminals \cup {Plain("nothing"), Plain("opened"), Plain("astray")}
  BY <1>1 DEF ModuleWrites, Spoken, PipesType
<1>2. fromModule # <<>> => Tail(fromModule) \in Seq(FromModule)
  BY DEF PipesType
<1>3. ASSUME NEW status, Dies(status)
      PROVE  /\ fromModule' \in Seq(FromModule)
             /\ spoken' \in Terminals \cup {Plain("nothing"), Plain("opened"), Plain("astray")}
  <2>1. Cut \in FromModule
    BY DEF FromModule
  <2> QED
    <3>1. Append(fromModule, Cut) \in Seq(FromModule)
      BY <2>1, SequenceTypes DEF PipesType
    <3> QED
      BY <1>3, <3>1 DEF Dies, PipesType
<1>4. ASSUME NEW f, NEW next, f \in ToModule, Write(f, next)
      PROVE  toModule' \in [frames : Seq(ToModule), closed : BOOLEAN]
  BY <1>4 DEF Write, PipesType
<1>5. ASSUME NEW f, Takes(f)
      PROVE  toModule' \in [frames : Seq(ToModule), closed : BOOLEAN]
  <2>1. Tail(toModule.frames) \in Seq(ToModule)
    BY <1>5, SequenceTypes DEF Takes, Input, PipesType
  <2> QED
    BY <1>5, <2>1 DEF Takes, PipesType
<1>6. CASE LauncherStep \/ Cancelled
  <2>1. \/ UNCHANGED <<fromModule, spoken>>
        \/ \E status : Dies(status)
    BY <1>6 DEF LauncherStep, Cancelled, Launch, Select, CloseInput, AwaitSession, AwaitExit, Kill
  <2>2. CloseInput => toModule' \in [frames : Seq(ToModule), closed : BOOLEAN]
    BY DEF CloseInput, PipesType
  <2> QED
    BY <1>3, <1>6, <2>1, <2>2, LauncherFrame DEF PipesType
<1>7. CASE SessionStep \/ BrokerAnswers
  <2>1. UNCHANGED fromModule \/ (fromModule # <<>> /\ fromModule' = Tail(fromModule))
    BY <1>7, SessionReads DEF ReadProblem, Reads, Arrived
  <2>2. \/ UNCHANGED toModule
        \/ \E f \in ToModule : \E next : Write(f, next)
    <3>1. Welcome \/ SendInvoke => \E f \in ToModule : \E next : Write(f, next)
      BY DEF Welcome, SendInvoke, ToModule
    <3>2. AnswerAccess => \E f \in ToModule : \E next : Write(f, next)
      BY DEF AnswerAccess, SessionAt, SessionType, ToModule
    <3>3. ReadProblem \/ (\E f \in FromModule : Reads(f)) => UNCHANGED toModule
      BY DEF ReadProblem, Reads
    <3>4. Handshake \/ ReadTerminal \/ BrokerAnswers => UNCHANGED toModule
      BY <3>3 DEF Handshake, ReadTerminal, BrokerAnswers
    <3>5. ExpectNoFurtherMessages => UNCHANGED toModule
      BY <3>3 DEF ExpectNoFurtherMessages
    <3> QED
      BY <1>7, <3>1, <3>2, <3>4, <3>5 DEF SessionStep
  <2> QED
    BY <1>2, <1>4, <1>7, <2>1, <2>2, SessionFrame DEF PipesType
<1>8. CASE Tick
  BY <1>8 DEF Tick, PipesType
<1>9. CASE SdkStep
  <2>1. \/ UNCHANGED <<fromModule, spoken>>
        \/ \E f \in FromModule : ModuleWrites(f)
    <3>1. SendHello => \E f \in FromModule : ModuleWrites(f)
      BY DEF SendHello, FromModule, Plains
    <3>2. \A g \in Askers : WriteRequest(g) => \E f \in FromModule : ModuleWrites(f)
      BY DEF WriteRequest, FromModule, Requests, ModuleType
    <3>3. SendTerminal => \/ UNCHANGED <<fromModule, spoken>>
                          \/ \E f \in FromModule : ModuleWrites(f)
      BY DEF SendTerminal, ModuleAt, FromModule, ModuleType
    <3> QED
      BY <1>9, <3>1, <3>2, <3>3 DEF SdkStep, ReadWelcome, ReadInvoke, Expects, RunCommand, Exit,
           Acquire, ReadAnswer
  <2>2. UNCHANGED toModule \/ \E f : Takes(f)
    BY <1>9 DEF SdkStep, SendHello, ReadWelcome, ReadInvoke, Expects, RunCommand, SendTerminal, Exit,
         Acquire, WriteRequest, ReadAnswer
  <2> QED
    BY <1>1, <1>5, <2>1, <2>2 DEF PipesType
<1>10. CASE AnyStep
  <2>1. \/ UNCHANGED <<fromModule, spoken>>
        \/ \E f \in FromModule : ModuleWrites(f)
    <3>1. ASSUME AnyWrites PROVE \E f \in FromModule : ModuleWrites(f)
      <4>1. PICK f \in Plains \cup {Access(1), Plain("result"), OwnProblem}
                 \cup {Denial(code, 1) : code \in Codes} : ModuleWrites(f)
        BY <3>1 DEF AnyWrites
      <4>2. f \in FromModule
        BY RpcAssumption DEF FromModule, Requests, Terminals, Denials, Numbers
      <4> QED
        BY <4>1, <4>2
    <3> QED
      BY <1>10, <3>1 DEF AnyStep, AnyReads, AnyCloses, AnyExits
  <2>2. UNCHANGED toModule \/ \E f : Takes(f)
    BY <1>10 DEF AnyStep, AnyWrites, AnyReads, AnyCloses, AnyExits
  <2> QED
    BY <1>1, <1>5, <2>1, <2>2 DEF PipesType
<1>11. CASE Crash \/ StartChildren
  <2>1. UNCHANGED toModule
    BY <1>11 DEF Crash, StartChildren
  <2>2. UNCHANGED <<fromModule, spoken>> \/ \E status : Dies(status)
    BY <1>11 DEF Crash, StartChildren
  <2> QED
    BY <1>3, <2>1, <2>2 DEF PipesType
<1>12. CASE UNCHANGED vars
  BY <1>12 DEF vars, PipesType
<1> QED
  BY <1>6, <1>7, <1>8, <1>9, <1>10, <1>11, <1>12, Steps DEF ModuleStep

\* There is a least of any positions in a sequence.
LEMMA LeastPosition ==
  ASSUME NEW S \in SUBSET Nat, S # {}
  PROVE  \E i \in S : \A j \in S : i <= j
<1> DEFINE less == OpToRel(<, Nat)
<1>1. \A i, j \in Nat : j < i => <<j, i>> \in less
  BY DEF OpToRel
<1>2. IsWellFoundedOn(less, Nat)
  BY NatLessThanWellFounded
<1> HIDE DEF less
<1>3. PICK i \in S : \A j \in S : ~ (<<j, i>> \in less)
  BY <1>2, WFMin
<1>4. ASSUME NEW j \in S PROVE i <= j
  <2>1. i \in Nat /\ j \in Nat /\ ~ j < i
    BY <1>1, <1>3
  <2> QED
    BY <2>1
<1> QED
  BY <1>4

\* What a problem is restored to: a denial this session has issued under the
\* problem's code or, when there is none, the module's own.
LEMMA RestoredIsOne ==
  ASSUME SessionType, NEW f \in Denials
  PROVE  \/ /\ Restored(f) = OwnProblem
            /\ \A i \in DOMAIN session.issued : session.issued[i].code # f.code
         \/ \E i \in DOMAIN session.issued :
              Restored(f) = session.issued[i] /\ session.issued[i].code = f.code
<1> DEFINE same == {i \in DOMAIN session.issued : session.issued[i].code = f.code}
<1>1. DOMAIN session.issued \in SUBSET Nat
  BY DEF SessionType, Sessions
<1>2. same # {} => \E i \in same : \A j \in same : i <= j
  BY <1>1, LeastPosition
<1>3. same # {} => (CHOOSE i \in same : \A j \in same : i <= j) \in same
  BY <1>2
<1>4. Restored(f) = IF same = {} THEN OwnProblem
                    ELSE session.issued[CHOOSE i \in same : \A j \in same : i <= j]
  BY DEF Restored
<1>5. ASSUME NEW i \in same PROVE i \in DOMAIN session.issued /\ session.issued[i].code = f.code
  OBVIOUS
<1>6. same = {} => \A i \in DOMAIN session.issued : session.issued[i].code # f.code
  OBVIOUS
<1> HIDE DEF same
<1> QED
  BY <1>3, <1>4, <1>5, <1>6

\* A denial is restored to a terminal message.
LEMMA RestoredIsTerminal ==
  ASSUME SessionType, NEW f \in Denials
  PROVE  Restored(f) \in Terminals
<1>1. ASSUME NEW i \in DOMAIN session.issued PROVE session.issued[i] \in Denials
  BY <1>1 DEF SessionType, Sessions
<1> QED
  BY <1>1, RestoredIsOne DEF Terminals

\* The shapes of the session's steps.
LEMMA FailedType ==
  ASSUME SessionType, NEW e \in Errors, e # "none", session' = Failed(e)
  PROVE  SessionType'
  BY DEF SessionType, Sessions, Failed

LEMMA GoesOnType ==
  ASSUME SessionType, session.at # "ended",
         NEW next \in {"welcome", "invoke", "reading"},
         \/ session' = [session EXCEPT !.at = next]
         \/ session' = [session EXCEPT !.at = next, !.pending = None]
  PROVE  SessionType'
  BY DEF SessionType, Sessions

LEMMA AskedType ==
  ASSUME SessionType, SessionAt("reading"), NEW f \in Requests \cup {Plain("uncorrelated")},
         session' = Asked(f)
  PROVE  SessionType'
<1> DEFINE n == session.requests + 1
<1>1. n \in 0..MaxAccessRequests + 1
  BY RpcAssumption DEF SessionAt, SessionType, Sessions
<1>2. CASE n > MaxAccessRequests
  <2>1. session' = [session EXCEPT !.at = "ended", !.error = "too_many_access_requests", !.requests = n]
    BY <1>2 DEF Asked, Failed
  <2> QED
    BY <1>1, <2>1 DEF SessionType, Sessions, Errors
<1>3. CASE ~ n > MaxAccessRequests /\ f = Plain("uncorrelated")
  <2>1. session' = [session EXCEPT !.at = "ended", !.error = "uncorrelated_access_request", !.requests = n]
    BY <1>3 DEF Asked, Failed
  <2> QED
    BY <1>1, <2>1 DEF SessionType, Sessions, Errors
<1>4. CASE ~ n > MaxAccessRequests /\ f # Plain("uncorrelated")
  <2>1. session' = [session EXCEPT !.at = "broker", !.requests = n, !.pending = f]
    BY <1>4 DEF Asked
  <2>2. f \in Requests /\ n <= MaxAccessRequests
    BY <1>1, <1>4, RpcAssumption
  <2> QED
    BY <1>1, <2>1, <2>2 DEF SessionType, Sessions, SessionAt
<1> QED
  BY <1>2, <1>3, <1>4

LEMMA AnsweredType ==
  ASSUME SessionType, SessionAt("reading"), NEW t \in Terminals, session' = Answered(t)
  PROVE  SessionType'
  BY DEF SessionType, Sessions, SessionAt, Answered

LEMMA WriteType ==
  ASSUME SessionType, session.at # "ended", NEW f,
         NEW next \in {"welcome", "invoke", "reading"}, Write(f, next)
  PROVE  SessionType'
<1>1. \/ session' = [session EXCEPT !.at = next, !.pending = None]
      \/ session' = Failed("stream_failed")
  BY DEF Write
<1> QED
  BY <1>1, FailedType, GoesOnType DEF Errors

LEMMA ReadProblemType ==
  ASSUME SessionType, ReadProblem
  PROVE  SessionType'
<1>1. \E e \in {"truncated_message", "no_terminal_message", "damaged_message"} : session' = Failed(e)
  BY DEF ReadProblem
<1> QED
  BY <1>1, FailedType DEF Errors

LEMMA BrokerAnswersType ==
  ASSUME SessionType, BrokerAnswers
  PROVE  SessionType'
<1> DEFINE n == session.pending.correlation
<1>1. n \in Numbers
  BY DEF BrokerAnswers, SessionAt, SessionType, Requests, Access
<1>2. PICK verdict \in {Plain("granted")} \cup {Denial(code, n) : code \in Codes} :
        session' = [session EXCEPT !.at = "answer", !.pending = Answer(n, verdict),
                        !.issued = IF verdict \in Denials THEN Append(@, verdict) ELSE @]
  BY DEF BrokerAnswers
<1>3. Answer(n, verdict) \in Answers
  BY <1>1 DEF Answers, Denials
<1> DEFINE issued == IF verdict \in Denials THEN Append(session.issued, verdict) ELSE session.issued
<1>4. session.issued \in Seq(Denials) /\ issued \in Seq(Denials)
  BY DEF SessionType, Sessions
<1>5. session' = [session EXCEPT !.at = "answer", !.pending = Answer(n, verdict), !.issued = issued]
  BY <1>2
<1>6. session.at = "broker"
  BY DEF BrokerAnswers, SessionAt
<1> HIDE DEF n, issued
<1> QED
  BY <1>3, <1>4, <1>5, <1>6 DEF SessionType, Sessions

LEMMA NextSessionType ==
  ASSUME Typed, Life, [Next]_vars
  PROVE  SessionType'
<1> USE DEF Typed
<1>1. CASE LauncherStep \/ Cancelled
  <2>1. CASE UNCHANGED session
    BY <2>1 DEF SessionType
  <2>2. CASE session' = [session EXCEPT !.at = "hello"] /\ session.at = "unborn"
    BY <2>2 DEF SessionType, Sessions
  <2>3. Launch => UNCHANGED session \/ (session' = [session EXCEPT !.at = "hello"] /\ session.at = "unborn")
    BY DEF Launch, LauncherAt, Life
  <2> QED
    BY <1>1, <2>1, <2>2, <2>3, LauncherFrame
<1>2. CASE Handshake
  <2>1. \/ ReadProblem
        \/ session' = [session EXCEPT !.at = "welcome"]
        \/ session' = Failed("trust")
        \/ session' = Failed("unexpected_message")
    BY <1>2 DEF Handshake
  <2>2. session.at # "ended"
    BY <1>2 DEF Handshake, SessionAt
  <2> QED
    BY <2>1, <2>2, ReadProblemType, FailedType, GoesOnType DEF Errors
<1>3. CASE Welcome \/ SendInvoke \/ AnswerAccess
  BY <1>3, WriteType DEF Welcome, SendInvoke, AnswerAccess, SessionAt
<1>4. CASE ReadTerminal
  <2>1. \/ ReadProblem
        \/ \E e \in {"invocation_mismatch", "invalid_terminal", "unexpected_message"} : session' = Failed(e)
        \/ \E f \in Requests \cup {Plain("uncorrelated")} : session' = Asked(f)
        \/ \E f \in Terminals : session' = Answered(f)
        \/ \E f \in Denials : session' = Answered(Restored(f))
    BY <1>4 DEF ReadTerminal, Terminals
  <2>2. SessionAt("reading")
    BY <1>4 DEF ReadTerminal
  <2> QED
    BY <2>1, <2>2, ReadProblemType, FailedType, AskedType, AnsweredType, RestoredIsTerminal DEF Errors
<1>5. CASE BrokerAnswers
  BY <1>5, BrokerAnswersType
<1>6. CASE ExpectNoFurtherMessages
  <2>1. \/ ReadProblem
        \/ session' = Failed("extra_message")
        \/ session' = [session EXCEPT !.at = "ended"] /\ session.at = "tail"
    BY <1>6 DEF ExpectNoFurtherMessages, SessionAt
  <2>2. session' = [session EXCEPT !.at = "ended"] /\ session.at = "tail" => SessionType'
    BY DEF SessionType, Sessions
  <2> QED
    BY <2>1, <2>2, ReadProblemType, FailedType DEF Errors
<1>7. CASE Tick \/ ModuleStep \/ UNCHANGED vars
  <2>1. UNCHANGED session
    BY <1>7, ModuleFrame DEF Tick, vars
  <2> QED
    BY <2>1 DEF SessionType
<1> QED
  BY <1>1, <1>2, <1>3, <1>4, <1>5, <1>6, <1>7, Steps DEF SessionStep

\* Only a running module takes steps, and the steps of its process end it at most.
LEMMA ModuleRuns ==
  ASSUME Typed, ModuleStep
  PROVE  Running
<1>1. SdkStep => Running
  BY DEF SdkStep, SendHello, ReadWelcome, ReadInvoke, Expects, RunCommand, SendTerminal, Exit,
         Acquire, WriteRequest, ReadAnswer, ModuleAt
<1>2. AnyStep => Running
  BY DEF AnyStep, AnyWrites, AnyReads, AnyCloses, AnyExits, ModuleAt
<1> QED
  BY <1>1, <1>2 DEF ModuleStep, Crash, StartChildren

\* The session goes from the place it is at to another one, and not from its end.
LEMMA SessionMoves ==
  ASSUME Typed, SessionStep \/ BrokerAnswers
  PROVE  session.at \notin {"unborn", "ended"} /\ session'.at # "unborn"
<1> USE DEF Typed
<1>1. session.at \notin {"unborn", "ended"}
  BY DEF SessionStep, BrokerAnswers, Handshake, Welcome, SendInvoke, ReadTerminal, AnswerAccess,
         ExpectNoFurtherMessages, SessionAt
<1>2. \A e \in Errors : session' = Failed(e) => session'.at # "unborn"
  BY DEF SessionType, Sessions, Failed
<1>3. ReadProblem => session'.at # "unborn"
  BY <1>2 DEF ReadProblem, Errors
<1>4. Handshake => session'.at # "unborn"
  BY <1>2, <1>3 DEF Handshake, SessionType, Sessions, Errors
<1>5. \A f, next : next # "unborn" /\ Write(f, next) => session'.at # "unborn"
  BY <1>2 DEF Write, SessionType, Sessions, Errors
<1>6. Welcome \/ SendInvoke \/ AnswerAccess => session'.at # "unborn"
  BY <1>5 DEF Welcome, SendInvoke, AnswerAccess
<1>7. \A f : session' = Asked(f) => session'.at # "unborn"
  BY DEF Asked, Failed, SessionType, Sessions
<1>8. \A t : session' = Answered(t) => session'.at # "unborn"
  BY DEF Answered, SessionType, Sessions
<1>9. ReadTerminal => session'.at # "unborn"
  BY <1>2, <1>3, <1>7, <1>8 DEF ReadTerminal, Errors
<1>10. BrokerAnswers => session'.at # "unborn"
  BY DEF BrokerAnswers, SessionType, Sessions
<1>11. ExpectNoFurtherMessages => session'.at # "unborn"
  BY <1>2, <1>3 DEF ExpectNoFurtherMessages, SessionType, Sessions, Errors
<1> QED
  BY <1>1, <1>4, <1>6, <1>9, <1>10, <1>11, SessionFrame DEF SessionStep

LEMMA NextLife ==
  ASSUME Typed, Life, [Next]_vars
  PROVE  Life'
<1> USE DEF Typed, Life, Running, LauncherAt, SessionAt
<1> launcher \in Launchers /\ session \in Sessions /\ module \in Modules
  BY DEF LauncherType, SessionType, ModuleType
<1>1. CASE Launch
  BY <1>1 DEF Launch, Goes, Launchers, Sessions, Modules
<1>2. CASE Select \/ Cancelled \/ CloseInput
  BY <1>2 DEF Select, Cancelled, CloseInput, Goes, GivesUp, Launchers
<1>3. ASSUME NEW next \in {"join", "joinExit"}, Kill(next)
      PROVE  module'.status # "running" /\ launcher'.at = next /\ UNCHANGED session
  <2>1. \A status : Dies(status) => module'.status = status
    BY DEF Dies, Modules
  <2> QED
    BY <1>3, <2>1 DEF Kill, Goes, Launchers
<1>4. CASE AwaitSession
  BY <1>3, <1>4 DEF AwaitSession, Goes, Launchers
<1>5. CASE AwaitExit
  BY <1>3, <1>5 DEF AwaitExit, Launchers
<1>6. CASE SessionStep \/ BrokerAnswers
  BY <1>6, SessionFrame, SessionMoves
<1>7. CASE ModuleStep
  BY <1>7, ModuleFrame, ModuleRuns
<1>8. CASE Tick \/ UNCHANGED vars
  BY <1>8 DEF Tick, vars
<1> QED
  BY <1>1, <1>2, <1>4, <1>5, <1>6, <1>7, <1>8, Steps DEF LauncherStep

LEMMA NextModuleType ==
  ASSUME Typed, [Next]_vars
  PROVE  ModuleType'
<1> USE DEF Typed
<1>1. ASSUME NEW status \in {"ok", "failed", "killed"}, Dies(status), UNCHANGED asker
      PROVE  ModuleType'
  BY <1>1 DEF Dies, ModuleType, Modules
<1>2. CASE LauncherStep \/ Cancelled
  <2>1. \/ UNCHANGED module
        \/ module' = [module EXCEPT !.status = "running"]
        \/ Dies("killed")
    BY <1>2 DEF LauncherStep, Cancelled, Launch, Select, CloseInput, AwaitSession, AwaitExit, Kill
  <2> QED
    BY <1>1, <1>2, <2>1, LauncherFrame DEF ModuleType, Modules
<1>3. CASE SendHello \/ Exit
  BY <1>3 DEF SendHello, Exit, ModuleType, Modules
<1>4. ASSUME NEW place, NEW kind, NEW next \in {"invoke", "handler"}, Expects(place, kind, next)
      PROVE  ModuleType'
  <2>1. \/ module' = [module EXCEPT !.at = next]
        \/ module' = [module EXCEPT !.status = "failed", !.misled = TRUE]
        \/ module' = [module EXCEPT !.status = "failed"]
    BY <1>4 DEF Expects
  <2>2. UNCHANGED asker
    BY <1>4 DEF Expects
  <2> QED
    BY <2>1, <2>2 DEF ModuleType, Modules
<1>5. CASE ReadWelcome \/ ReadInvoke
  BY <1>4, <1>5 DEF ReadWelcome, ReadInvoke
<1>6. ASSUME NEW g \in Askers, Acquire(g)
      PROVE  ModuleType'
  <2>1. module.requests + 1 \in Numbers
    BY <1>6, RpcAssumption DEF Acquire, ModuleType, Modules, Numbers
  <2>2. module' \in Modules /\ UNCHANGED <<module.at, module.reply>>
    BY <1>6, <2>1 DEF Acquire, ModuleType, Modules, Numbers
  <2> QED
    BY <1>6, <2>1, <2>2 DEF Acquire, ModuleType, Numbers
<1>7. ASSUME NEW g \in Askers, WriteRequest(g)
      PROVE  ModuleType'
  BY <1>7 DEF WriteRequest, ModuleType
<1>8. ASSUME NEW g \in Askers, ReadAnswer(g)
      PROVE  ModuleType'
  <2>1. asker' = [asker EXCEPT ![g].at = "idle"]
    BY <1>8 DEF ReadAnswer
  <2>2. \/ UNCHANGED module
        \/ \E verdict : module' = [module EXCEPT !.told = @ \cup ({verdict} \cap Denials)]
        \/ module' = [module EXCEPT !.misled = TRUE]
    BY <1>8 DEF ReadAnswer
  <2>3. \A D \in SUBSET Denials : module' = [module EXCEPT !.told = D] =>
          module' \in Modules /\ module'.at = module.at /\ module'.reply = module.reply
    BY DEF ModuleType, Modules
  <2>4. \A verdict : module.told \cup ({verdict} \cap Denials) \in SUBSET Denials
    BY DEF ModuleType, Modules
  <2>5. module' = [module EXCEPT !.misled = TRUE] =>
          module' \in Modules /\ module'.at = module.at /\ module'.reply = module.reply
    BY DEF ModuleType, Modules
  <2> QED
    BY <2>1, <2>2, <2>3, <2>4, <2>5 DEF ModuleType
<1>9. CASE RunCommand
  <2>1. PICK reply \in Terminals \cup {Plain("tooLarge")} :
          module' = [module EXCEPT !.at = "terminal", !.reply = reply]
    BY <1>9 DEF RunCommand, ModuleType, Modules, Terminals
  <2> QED
    BY <1>9, <2>1 DEF RunCommand, ModuleType, Modules
<1>10. CASE SendTerminal
  BY <1>10 DEF SendTerminal, ModuleType, Modules
<1>11. CASE AnyStep
  <2>1. UNCHANGED asker
    BY <1>11 DEF AnyStep, AnyWrites, AnyReads, AnyCloses, AnyExits
  <2>2. \/ module' = [module EXCEPT !.frames = @ + 1] /\ module.frames < MaxFrames
        \/ UNCHANGED module
        \/ module' = [module EXCEPT !.shut = TRUE]
        \/ module' = [module EXCEPT !.deaf = TRUE]
        \/ module' = [module EXCEPT !.status = "ok"]
    BY <1>11 DEF AnyStep, AnyWrites, AnyReads, AnyCloses, AnyExits
  <2>3. module.frames < MaxFrames => module.frames + 1 \in 0..MaxFrames
    BY RpcAssumption DEF ModuleType, Modules
  <2> DEFINE frames == module.frames + 1
  <2>4. module' = [module EXCEPT !.frames = frames] /\ frames \in 0..MaxFrames =>
          module' \in Modules /\ module'.at = module.at /\ module'.reply = module.reply
    <3> HIDE DEF frames
    <3> QED
      BY DEF ModuleType, Modules
  <2>5. \/ UNCHANGED module
        \/ module' = [module EXCEPT !.shut = TRUE]
        \/ module' = [module EXCEPT !.deaf = TRUE]
        \/ module' = [module EXCEPT !.status = "ok"]
        => module' \in Modules /\ module'.at = module.at /\ module'.reply = module.reply
    BY DEF ModuleType, Modules
  <2>6. module' \in Modules /\ module'.at = module.at /\ module'.reply = module.reply
    BY <2>2, <2>3, <2>4, <2>5
  <2> QED
    BY <2>1, <2>6 DEF ModuleType
<1>12. CASE Crash \/ StartChildren
  BY <1>1, <1>12 DEF Crash, StartChildren, ModuleType, Modules
<1>13. CASE SessionStep \/ BrokerAnswers \/ Tick \/ UNCHANGED vars
  <2>1. UNCHANGED <<module, asker>>
    BY <1>13, SessionFrame DEF Tick, vars
  <2> QED
    BY <2>1 DEF ModuleType
<1> QED
  BY <1>2, <1>3, <1>5, <1>6, <1>7, <1>8, <1>9, <1>10, <1>11, <1>12, <1>13, Steps DEF ModuleStep, SdkStep
-----------------------------------------------------------------------------
(* The clock. *)
(***************************************************************************)
(* The deadline is held exactly while the broker is asked; held, it keeps  *)
(* what the module has left, and running, the timer's next firing and the  *)
(* remainder since it was resumed both say that; once its firing has been  *)
(* received nothing was left.                                              *)
(***************************************************************************)
Clock ==
  /\ deadline.held <=> session.at = "broker"
  /\ deadline.held => ~deadline.armed /\ deadline.remaining = Timeout - awaited
  /\ ~deadline.held /\ deadline.armed =>
       /\ deadline.left = Timeout - awaited
       /\ deadline.left = Floor(deadline.remaining - deadline.age)
  /\ ~deadline.held /\ ~deadline.armed =>
       awaited = Timeout /\ launcher.at \notin {"start", "select"}
  /\ launcher.ending = "timed_out" => awaited = Timeout

LEMMA InitClock == Init => Clock
  BY TimeoutAssumption DEF Init, Clock, NewDeadline, Floor

\* Where a step of the session leads, and what it does to the deadline.
LEMMA SessionHolds ==
  ASSUME Typed, SessionStep \/ BrokerAnswers
  PROVE  \/ session.at # "broker" /\ session'.at # "broker" /\ UNCHANGED deadline
         \/ session.at # "broker" /\ session'.at = "broker" /\ deadline' = Held(deadline)
         \/ session.at = "broker" /\ session'.at # "broker" /\ deadline' = Released(deadline)
<1> USE DEF Typed, SessionAt
<1> session \in Sessions
  BY DEF SessionType
<1>1. \A e \in Errors : session' = Failed(e) => session'.at # "broker"
  BY DEF Sessions, Failed
<1>2. ReadProblem => session'.at # "broker" /\ UNCHANGED deadline
  BY <1>1 DEF ReadProblem, Errors
<1>3. Handshake => session'.at # "broker" /\ UNCHANGED deadline
  BY <1>1, <1>2 DEF Handshake, Sessions, Errors
<1>4. \A f, next : next # "broker" /\ Write(f, next) => session'.at # "broker" /\ UNCHANGED deadline
  BY <1>1 DEF Write, Sessions, Errors
<1>5. ReadTerminal => \/ session'.at # "broker" /\ UNCHANGED deadline
                      \/ session'.at = "broker" /\ deadline' = Held(deadline)
  BY <1>2 DEF ReadTerminal
<1>6. ExpectNoFurtherMessages => session'.at # "broker" /\ UNCHANGED deadline
  BY <1>1, <1>2 DEF ExpectNoFurtherMessages, Sessions, Errors
<1>7. CASE BrokerAnswers
  BY <1>7 DEF BrokerAnswers, Sessions
<1>8. CASE SessionStep
  <2>1. session.at # "broker"
    BY <1>8 DEF SessionStep, Handshake, Welcome, SendInvoke, ReadTerminal, AnswerAccess,
         ExpectNoFurtherMessages
  <2> QED
    BY <1>3, <1>4, <1>5, <1>6, <1>8, <2>1 DEF SessionStep, Welcome, SendInvoke, AnswerAccess
<1> QED
  BY <1>7, <1>8

\* Where a step of the launcher leads, and that it takes up a firing at most.
LEMMA LauncherHolds ==
  ASSUME Typed, LauncherStep \/ Cancelled
  PROVE  /\ launcher'.ending = launcher.ending \/ launcher'.ending = "cancelled"
              \/ (launcher'.ending = "timed_out" /\ Expired)
         /\ \/ UNCHANGED deadline
            \/ Expired /\ deadline' = Received /\ launcher'.at \notin {"start", "select"}
         /\ launcher'.at \in {"start", "select"} => launcher.at = "start" /\ Launch
<1> USE DEF Typed, Goes, GivesUp, Launchers
<1> launcher \in Launchers
  BY DEF LauncherType
<1>1. CASE Launch
  BY <1>1 DEF Launch, LauncherAt
<1>2. CASE Select
  BY <1>2 DEF Select
<1>3. CASE Cancelled \/ CloseInput
  BY <1>3 DEF Cancelled, CloseInput
<1>4. CASE AwaitSession
  BY <1>4 DEF AwaitSession, Kill
<1>5. CASE AwaitExit
  BY <1>5 DEF AwaitExit, Kill
<1> QED
  BY <1>1, <1>2, <1>3, <1>4, <1>5 DEF LauncherStep

LEMMA NextClock ==
  ASSUME Typed, Life, Clock, [Next]_vars
  PROVE  Clock'
<1> USE DEF Typed, Clock
<1> /\ deadline \in Deadlines /\ awaited \in 0..Timeout
    /\ deadline.left \in 0..Timeout /\ deadline.remaining \in 0..Timeout
    /\ deadline.age \in 0..Timeout
  BY DEF LauncherType, Deadlines
<1>1. CASE LauncherStep \/ Cancelled
  <2>1. session'.at = "broker" <=> session.at = "broker"
    <3>1. Launch => session.at # "broker" /\ session'.at # "broker"
      BY DEF Launch, LauncherAt, Life, SessionType, Sessions
    <3> QED
      BY <1>1, <3>1, LauncherFrame
  <2>2. CASE UNCHANGED deadline
    <3>1. Expired => awaited = Timeout
      BY TimeoutAssumption DEF Expired
    <3>2. launcher'.ending = "timed_out" => awaited = Timeout
      BY <1>1, <3>1, LauncherHolds
    <3>3. launcher'.at \in {"start", "select"} => launcher.at = "start"
      BY <1>1, LauncherHolds
    <3>4. UNCHANGED awaited
      BY <1>1, LauncherFrame
    <3> QED
      BY <2>1, <2>2, <3>2, <3>3, <3>4
  <2>3. CASE Expired /\ deadline' = Received /\ launcher'.at \notin {"start", "select"}
    <3>1. ~deadline.held /\ awaited = Timeout
      BY <2>3, TimeoutAssumption DEF Expired
    <3>2. ~deadline'.held /\ ~deadline'.armed
      BY <2>3, <3>1 DEF Received, Deadlines
    <3> QED
      BY <1>1, <2>1, <2>3, <3>1, <3>2, LauncherFrame
  <2> QED
    BY <1>1, <2>2, <2>3, LauncherHolds
<1>2. CASE SessionStep \/ BrokerAnswers
  <2>1. CASE session.at # "broker" /\ session'.at # "broker" /\ UNCHANGED deadline
    <3>1. UNCHANGED <<launcher, awaited>>
      BY <1>2, SessionFrame
    <3> QED
      BY <2>1, <3>1
  <2>2. CASE session.at # "broker" /\ session'.at = "broker" /\ deadline' = Held(deadline)
    <3>1. /\ deadline'.held /\ ~deadline'.armed
          /\ deadline'.remaining = IF deadline.armed THEN Floor(deadline.remaining - deadline.age) ELSE 0
      BY <2>2 DEF Held, Deadlines
    <3>2. deadline'.remaining = Timeout - awaited
      BY <2>2, <3>1
    <3>3. UNCHANGED <<launcher, awaited>>
      BY <1>2, SessionFrame
    <3> QED
      BY <2>2, <3>1, <3>2, <3>3
  <2>3. CASE session.at = "broker" /\ session'.at # "broker" /\ deadline' = Released(deadline)
    <3>1. /\ ~deadline'.held /\ deadline'.armed /\ deadline'.age = 0
          /\ deadline'.left = deadline.remaining /\ deadline'.remaining = deadline.remaining
      BY <2>3 DEF Released, Deadlines
    <3>2. Floor(deadline'.remaining - deadline'.age) = deadline'.remaining
      BY <3>1 DEF Floor
    <3>3. UNCHANGED <<launcher, awaited>>
      BY <1>2, SessionFrame
    <3> QED
      BY <2>3, <3>1, <3>2, <3>3
  <2> QED
    BY <1>2, <2>1, <2>2, <2>3, SessionHolds
<1>3. CASE Tick
  <2>1. /\ deadline'.held = deadline.held /\ deadline'.armed = deadline.armed
        /\ deadline'.remaining = deadline.remaining
        /\ deadline'.age = Capped(deadline.age + 1)
        /\ deadline'.left = IF deadline.armed THEN Floor(deadline.left - 1) ELSE deadline.left
    BY <1>3 DEF Tick, Older, Deadlines
  <2>2. UNCHANGED <<launcher, session>> /\ launcher.at = "select"
    BY <1>3 DEF Tick, LauncherAt
  <2>3. awaited' = IF session.at = "broker" THEN awaited ELSE Capped(awaited + 1)
    BY <1>3 DEF Tick, SessionAt
  <2>4. CASE deadline.held
    BY <2>1, <2>2, <2>3, <2>4, TimeoutAssumption DEF Capped
  <2>5. CASE ~deadline.held
    <3>1. deadline.armed
      BY <2>2, <2>5
    <3>2. deadline'.left = Timeout - awaited'
      BY <2>1, <2>3, <2>5, <3>1, TimeoutAssumption DEF Capped, Floor
    <3>3. deadline'.left = Floor(deadline'.remaining - deadline'.age)
      BY <2>1, <2>5, <3>1, TimeoutAssumption DEF Capped, Floor
    <3> QED
      BY <2>1, <2>2, <2>3, <2>5, <3>1, <3>2, <3>3, TimeoutAssumption DEF Capped
  <2> QED
    BY <2>4, <2>5
<1>4. CASE ModuleStep
  BY <1>4, ModuleFrame
<1>5. CASE UNCHANGED vars
  BY <1>5 DEF vars
<1> QED
  BY <1>1, <1>2, <1>3, <1>4, <1>5, Steps
-----------------------------------------------------------------------------
(* What the module said, and what the session made of it. *)
Voices == Terminals \cup {Plain("nothing"), Plain("opened"), Plain("astray")}

\* A module whose words so far came to s has, with the frames of q, come to e.
Carries(s, q, e) ==
  \E h \in [0..Len(q) -> Voices] :
    /\ h[0] = s
    /\ h[Len(q)] = e
    /\ \A i \in 1..Len(q) : h[i] = Spoken(h[i - 1], q[i])

LEMMA SpokenType ==
  ASSUME NEW s \in Voices, NEW f
  PROVE  Spoken(s, f) \in Voices
  BY DEF Spoken, Voices

\* One more frame written.
LEMMA CarriesAppend ==
  ASSUME NEW s, NEW e, NEW q \in Seq(FromModule), NEW f \in FromModule, Carries(s, q, e)
  PROVE  Carries(s, Append(q, f), Spoken(e, f))
<1> DEFINE n == Len(q)
           r == Append(q, f)
<1>1. PICK h \in [0..n -> Voices] :
        /\ h[0] = s
        /\ h[n] = e
        /\ \A i \in 1..n : h[i] = Spoken(h[i - 1], q[i])
  BY DEF Carries
<1>2. n \in Nat /\ Len(r) = n + 1 /\ r[n + 1] = f /\ \A i \in 1..n : r[i] = q[i]
  OBVIOUS
<1> DEFINE k == [i \in 0..n + 1 |-> IF i <= n THEN h[i] ELSE Spoken(e, f)]
<1> HIDE DEF n, r
<1>3. Spoken(e, f) \in Voices
  BY <1>1, <1>2, SpokenType
<1>4. k \in [0..Len(r) -> Voices] /\ k[0] = s /\ k[Len(r)] = Spoken(e, f)
  BY <1>1, <1>2, <1>3
<1>5. ASSUME NEW i \in 1..Len(r) PROVE k[i] = Spoken(k[i - 1], r[i])
  <2>1. CASE i <= n
    <3>1. k[i] = h[i] /\ k[i - 1] = h[i - 1] /\ r[i] = q[i] /\ i \in 1..n
      BY <1>2, <2>1
    <3> QED
      BY <1>1, <3>1
  <2>2. CASE ~ i <= n
    <3>1. i = n + 1
      BY <1>2, <2>2
    <3>2. k[i] = Spoken(e, f) /\ k[i - 1] = h[n] /\ r[i] = f
      BY <1>2, <3>1
    <3> QED
      BY <1>1, <3>2
  <2> QED
    BY <2>1, <2>2
<1> HIDE DEF k
<1> QED
  BY <1>4, <1>5 DEF Carries, r

\* One frame read.
LEMMA CarriesTail ==
  ASSUME NEW s, NEW e, NEW q \in Seq(FromModule), q # <<>>, Carries(s, q, e)
  PROVE  Carries(Spoken(s, Head(q)), Tail(q), e)
<1> DEFINE n == Len(q)
           r == Tail(q)
<1>1. PICK h \in [0..n -> Voices] :
        /\ h[0] = s
        /\ h[n] = e
        /\ \A i \in 1..n : h[i] = Spoken(h[i - 1], q[i])
  BY DEF Carries
<1>2. n \in Nat \ {0} /\ Len(r) = n - 1 /\ Head(q) = q[1] /\ \A i \in 1..n - 1 : r[i] = q[i + 1]
  OBVIOUS
<1> DEFINE k == [i \in 0..n - 1 |-> h[i + 1]]
<1> HIDE DEF n, r
<1>3. h[1] = Spoken(s, Head(q))
  BY <1>1, <1>2
<1>4. k \in [0..Len(r) -> Voices] /\ k[0] = Spoken(s, Head(q)) /\ k[Len(r)] = e
  BY <1>1, <1>2, <1>3
<1>5. ASSUME NEW i \in 1..Len(r) PROVE k[i] = Spoken(k[i - 1], r[i])
  <2>1. k[i] = h[i + 1] /\ k[i - 1] = h[i] /\ r[i] = q[i + 1] /\ i + 1 \in 1..n
    BY <1>2
  <2>2. h[i + 1] = Spoken(h[i], q[i + 1])
    <3>1. (i + 1) - 1 = i
      BY <1>2
    <3> QED
      BY <1>1, <2>1, <3>1
  <2> QED
    BY <2>1, <2>2
<1> HIDE DEF k
<1> QED
  BY <1>4, <1>5 DEF Carries, r

\* Nothing unread.
LEMMA CarriesNothing ==
  ASSUME NEW s, NEW e, Carries(s, <<>>, e)
  PROVE  s = e
  BY DEF Carries

LEMMA CarriesStart == Carries(Plain("nothing"), <<>>, Plain("nothing"))
<1> DEFINE h == [i \in 0..0 |-> Plain("nothing")]
<1>1. Len(<<>>) = 0 /\ 1..0 = {}
  OBVIOUS
<1>2. h \in [0..0 -> Voices] /\ h[0] = Plain("nothing")
  BY DEF Voices
<1> HIDE DEF h
<1> QED
  BY <1>1, <1>2 DEF Carries
-----------------------------------------------------------------------------
(***************************************************************************)
(* The terminal message t, read when the session had issued the denials it *)
(* has issued, is reported as itself; or, a denial of the module's, as the *)
(* session's own refusal with its code, if there is one.                   *)
(***************************************************************************)
Restores(t) ==
  IF t \in Denials
  THEN \/ /\ session.produced = OwnProblem
          /\ \A i \in DOMAIN session.issued : session.issued[i].code # t.code
       \/ \E i \in DOMAIN session.issued :
            session.produced = session.issued[i] /\ session.issued[i].code = t.code
  ELSE session.produced = t

(***************************************************************************)
(* What is unread carries on from what the session has understood to what  *)
(* the module has said, as long as the session has met no error; and once  *)
(* it has ended well nothing is unread and nobody is left to write.        *)
(***************************************************************************)
Understood ==
  session.error = "none" =>
    /\ session.at \in {"unborn", "hello"} => Carries(Plain("nothing"), fromModule, spoken)
    /\ session.at \in {"welcome", "invoke", "reading", "broker", "answer"} =>
         Carries(Plain("opened"), fromModule, spoken)
    /\ session.at \in {"tail", "ended"} =>
         \E t \in Terminals : Restores(t) /\ Carries(t, fromModule, spoken)
    /\ session.at = "ended" => fromModule = <<>> /\ ~WriterLives

\* Only a program not built on the SDK closes its output before it exits, and
\* only inside a handler is access asked for.
Places ==
  /\ module.shut => module.at = "any"
  /\ \A g \in Askers : asker[g].at # "idle" => module.at = "handler"

\* What was reported is a message of the module's only if all was well, and then
\* it is what the session made of it.
Reported ==
  launcher.outcome \in Terminals =>
    /\ launcher.at = "returned"
    /\ module.status = "ok"
    /\ session.at = "ended" /\ session.error = "none"
    /\ launcher.outcome = session.produced

\* The kinds of frames differ.
LEMMA Kinds ==
  /\ \A f \in Requests : f.kind = "access"
  /\ \A f \in Denials : f.kind = "problem"
  /\ \A f \in Terminals : f.kind \in {"result", "own", "problem"}
  /\ \A k : Plain(k).kind = k
  /\ OwnProblem.kind = "own"
<1>1. \A f \in Requests : f.kind = "access"
  BY DEF Requests, Access
<1>2. \A f \in Denials : f.kind = "problem"
  BY DEF Denials, Denial
<1>3. \A k : Plain(k).kind = k
  BY DEF Plain
<1>4. OwnProblem.kind = "own"
  BY DEF OwnProblem
<1> QED
  BY <1>1, <1>2, <1>3, <1>4 DEF Terminals

LEMMA InitUnderstood == Init => Understood /\ Places /\ Reported
<1> SUFFICES ASSUME Init PROVE Understood /\ Places /\ Reported
  OBVIOUS
<1>1. None \notin Terminals
  BY Kinds DEF None
<1>2. /\ session.at = "unborn" /\ fromModule = <<>> /\ spoken = Plain("nothing")
      /\ launcher.outcome = None /\ module.shut = FALSE
      /\ \A g \in Askers : asker[g].at = "idle"
  BY DEF Init
<1>3. Places /\ Reported
  BY <1>1, <1>2 DEF Places, Reported
<1> QED
  BY <1>1, <1>2, <1>3, CarriesStart DEF Understood

LEMMA NextPlaces ==
  ASSUME Typed, Life, Places, [Next]_vars
  PROVE  Places'
<1> USE DEF Typed, Places
<1> module \in Modules
  BY DEF ModuleType
<1>1. ASSUME UNCHANGED asker, module'.at = module.at, module'.shut = module.shut
      PROVE  Places'
  BY <1>1
<1>2. ASSUME NEW status, Dies(status), UNCHANGED asker
      PROVE  Places'
  BY <1>1, <1>2 DEF Dies, Modules
<1>3. CASE LauncherStep \/ Cancelled
  <2>1. \/ UNCHANGED module
        \/ module' = [module EXCEPT !.status = "running"]
        \/ Dies("killed")
    BY <1>3 DEF LauncherStep, Cancelled, Launch, Select, CloseInput, AwaitSession, AwaitExit, Kill
  <2> QED
    BY <1>1, <1>2, <1>3, <2>1, LauncherFrame DEF Modules
<1>4. CASE SendHello \/ SendTerminal \/ Exit
  <2>1. /\ UNCHANGED asker
        /\ module.at \notin {"any", "handler"}
        /\ module'.shut = module.shut
    BY <1>4 DEF SendHello, SendTerminal, Exit, ModuleAt, Modules
  <2> QED
    BY <2>1
<1>5. ASSUME NEW place \in {"welcome", "invoke"}, NEW kind, NEW next, Expects(place, kind, next)
      PROVE  Places'
  <2>1. /\ UNCHANGED asker
        /\ module.at \notin {"any", "handler"}
        /\ module'.shut = module.shut
    BY <1>5 DEF Expects, ModuleAt, Modules
  <2> QED
    BY <2>1
<1>6. CASE ReadWelcome \/ ReadInvoke
  BY <1>5, <1>6 DEF ReadWelcome, ReadInvoke
<1>7. ASSUME NEW g \in Askers, Acquire(g) \/ WriteRequest(g) \/ ReadAnswer(g)
      PROVE  Places'
  <2>1. module.at = "handler" /\ module'.at = module.at /\ module'.shut = module.shut
    BY <1>7 DEF Acquire, WriteRequest, ReadAnswer, ModuleAt, Modules
  <2> QED
    BY <2>1
<1>8. CASE RunCommand
  <2>1. /\ UNCHANGED asker
        /\ module.at = "handler"
        /\ module'.shut = module.shut
        /\ \A g \in Askers : asker[g].at = "idle"
    BY <1>8 DEF RunCommand, ModuleAt, Modules
  <2> QED
    BY <2>1
<1>9. CASE AnyStep
  <2>1. UNCHANGED asker /\ module.at = "any" /\ module'.at = "any"
    BY <1>9 DEF AnyStep, AnyWrites, AnyReads, AnyCloses, AnyExits, ModuleAt, Modules
  <2> QED
    BY <2>1
<1>10. CASE Crash \/ StartChildren
  BY <1>1, <1>2, <1>10 DEF Crash, StartChildren, Modules
<1>11. CASE SessionStep \/ BrokerAnswers \/ Tick \/ UNCHANGED vars
  BY <1>11, SessionFrame DEF Tick, vars
<1> QED
  BY <1>3, <1>4, <1>6, <1>7, <1>8, <1>9, <1>10, <1>11, Steps DEF ModuleStep, SdkStep

\* A step after which the module has said nothing more, or one frame more while
\* there was somebody to write it; and nobody begins to write.
Speaks ==
  /\ \/ UNCHANGED <<fromModule, spoken>>
     \/ /\ WriterLives
        /\ \E f \in FromModule : /\ fromModule' = Append(fromModule, f)
                                 /\ spoken' = Spoken(spoken, f)
  /\ WriterLives' => WriterLives

LEMMA SpeaksUnderstood ==
  ASSUME Typed, Understood, Speaks, UNCHANGED session
  PROVE  Understood'
<1> USE DEF Typed
<1>1. CASE UNCHANGED <<fromModule, spoken>>
  BY <1>1 DEF Understood, Speaks, Restores
<1>2. CASE ~ UNCHANGED <<fromModule, spoken>>
  <2>1. PICK f \in FromModule : fromModule' = Append(fromModule, f) /\ spoken' = Spoken(spoken, f)
    BY <1>2 DEF Speaks
  <2>2. \A s : Carries(s, fromModule, spoken) => Carries(s, fromModule', spoken')
    BY <2>1, CarriesAppend DEF PipesType
  <2>3. WriterLives
    BY <1>2 DEF Speaks
  <2> QED
    BY <2>2, <2>3 DEF Understood, Restores
<1> QED
  BY <1>1, <1>2

\* A process that ends leaves no more than a frame cut off, and that only if it
\* was writing.
LEMMA DyingSpeaks ==
  ASSUME Typed, Places, Running, NEW status \in {"ok", "failed", "killed"}, Dies(status)
  PROVE  Speaks
<1> USE DEF Typed
<1> module \in Modules
  BY DEF ModuleType
<1>1. WriterLives' => WriterLives
  BY DEF Dies, WriterLives, Running, Modules
<1>2. Writing => WriterLives
  BY DEF Writing, WriterLives, Places
<1>3. Spoken(spoken, Cut) = Plain("astray")
  BY Kinds DEF Spoken, Cut
<1>4. Cut \in FromModule
  BY DEF FromModule
<1> QED
  BY <1>1, <1>2, <1>3, <1>4 DEF Dies, Speaks

LEMMA ModuleSpeaks ==
  ASSUME Typed, Places, ModuleStep
  PROVE  Speaks
<1> USE DEF Typed, Places
<1> module \in Modules
  BY DEF ModuleType
<1>1. Running
  BY ModuleRuns
<1>2. ASSUME NEW f \in FromModule, ModuleWrites(f), ~module.shut,
             module'.status = module.status, module'.shut = module.shut, module'.heirs = module.heirs
      PROVE  Speaks
  BY <1>1, <1>2 DEF ModuleWrites, Speaks, WriterLives, Running
<1>3. ASSUME UNCHANGED <<fromModule, spoken>>, WriterLives' => WriterLives
      PROVE  Speaks
  BY <1>3 DEF Speaks
<1>4. CASE SendHello
  <2>1. Plain("hello") \in FromModule
    BY DEF FromModule, Plains
  <2> QED
    BY <1>2, <1>4, <2>1 DEF SendHello, ModuleAt, Modules
<1>5. CASE ReadWelcome \/ ReadInvoke
  BY <1>1, <1>3, <1>5 DEF ReadWelcome, ReadInvoke, Expects, WriterLives, Running, Modules
<1>6. ASSUME NEW g \in Askers, Acquire(g)
      PROVE  Speaks
  BY <1>3, <1>6 DEF Acquire, WriterLives, Running, Modules
<1>7. ASSUME NEW g \in Askers, WriteRequest(g)
      PROVE  Speaks
  <2>1. Access(asker[g].number) \in FromModule
    BY <1>7 DEF WriteRequest, FromModule, Requests, ModuleType
  <2> QED
    BY <1>2, <1>7, <2>1 DEF WriteRequest, ModuleAt
<1>8. ASSUME NEW g \in Askers, ReadAnswer(g)
      PROVE  Speaks
  BY <1>3, <1>8 DEF ReadAnswer, WriterLives, Running, Modules
<1>9. CASE RunCommand \/ Exit
  BY <1>3, <1>9 DEF RunCommand, Exit, WriterLives, Running, Modules
<1>10. CASE SendTerminal
  <2>1. module.reply # Plain("tooLarge") => module.reply \in FromModule
    BY <1>10 DEF SendTerminal, ModuleAt, FromModule, ModuleType
  <2> QED
    BY <1>2, <1>3, <1>10, <2>1 DEF SendTerminal, ModuleAt, WriterLives, Running, Modules
<1>11. CASE AnyWrites
  <2>1. PICK f \in Plains \cup {Access(1), Plain("result"), OwnProblem}
                   \cup {Denial(code, 1) : code \in Codes} : ModuleWrites(f)
    BY <1>11 DEF AnyWrites
  <2>2. f \in FromModule
    BY RpcAssumption DEF FromModule, Requests, Terminals, Denials, Numbers
  <2> QED
    BY <1>2, <1>11, <2>1, <2>2 DEF AnyWrites, Modules
<1>12. CASE AnyReads \/ AnyCloses \/ AnyExits
  BY <1>1, <1>3, <1>12 DEF AnyReads, AnyCloses, AnyExits, WriterLives, Running, Modules
<1>13. CASE Crash
  BY <1>1, <1>13, DyingSpeaks DEF Crash
<1>14. CASE StartChildren
  BY <1>1, <1>3, <1>14 DEF StartChildren, WriterLives
<1> QED
  BY <1>4, <1>5, <1>6, <1>7, <1>8, <1>9, <1>10, <1>11, <1>12, <1>13, <1>14
  DEF ModuleStep, SdkStep, AnyStep

\* The session's reads.
LEMMA ReadsCarry ==
  ASSUME Typed, NEW f \in FromModule, Reads(f), NEW s, Carries(s, fromModule, spoken)
  PROVE  Carries(Spoken(s, f), fromModule', spoken')
<1>1. fromModule # <<>> /\ f = Head(fromModule) /\ fromModule' = Tail(fromModule) /\ spoken' = spoken
  BY DEF Reads, Arrived
<1> QED
  BY <1>1, CarriesTail DEF Typed, PipesType

LEMMA ReadsTerminal ==
  ASSUME Typed, Understood, SessionAt("reading"), NEW f \in Terminals, Reads(f),
         NEW t \in Terminals, session' = Answered(t),
         IF f \in Denials THEN t = Restored(f) ELSE t = f
  PROVE  Understood'
<1> USE DEF Typed
<1>1. Carries(Plain("opened"), fromModule, spoken)
  BY DEF Understood, SessionAt, SessionType
<1>2. Spoken(Plain("opened"), f) = f
  BY Kinds DEF Spoken
<1>3. Carries(f, fromModule', spoken')
  BY <1>1, <1>2, ReadsCarry DEF FromModule
<1>4. session'.at = "tail" /\ session'.produced = t /\ session'.issued = session.issued
  BY DEF Answered, SessionType, Sessions
<1>5. Restores(f)'
  BY <1>4, RestoredIsOne DEF Restores
<1> QED
  BY <1>3, <1>4, <1>5 DEF Understood

LEMMA SessionUnderstood ==
  ASSUME Typed, Understood, SessionStep \/ BrokerAnswers
  PROVE  Understood'
<1> USE DEF Typed
<1> session \in Sessions
  BY DEF SessionType
<1>1. ASSUME NEW e \in Errors, e # "none", session' = Failed(e)
      PROVE  Understood'
  BY <1>1 DEF Failed, Sessions, Understood
<1>2. ASSUME ReadProblem
      PROVE  Understood'
  BY <1>1, <1>2 DEF ReadProblem, Errors
<1> DEFINE open == {"welcome", "invoke", "reading", "broker", "answer"}
<1>3. ASSUME session.at \in open, session'.at \in open,
             Carries(Plain("opened"), fromModule, spoken) => Carries(Plain("opened"), fromModule', spoken')
      PROVE  Understood'
  BY <1>3 DEF Understood, SessionType
<1>4. CASE Handshake
  <2>1. CASE \E f \in FromModule : Reads(f) /\ f = Plain("hello") /\ session' = [session EXCEPT !.at = "welcome"]
    <3>1. Reads(Plain("hello")) /\ Plain("hello") \in FromModule
      BY <2>1
    <3>2. Carries(Plain("nothing"), fromModule, spoken)
      BY <1>4 DEF Handshake, SessionAt, Understood, SessionType
    <3>3. Spoken(Plain("nothing"), Plain("hello")) = Plain("opened")
      BY Kinds DEF Spoken
    <3>4. Carries(Plain("opened"), fromModule', spoken')
      BY <3>1, <3>2, <3>3, ReadsCarry
    <3>5. session'.at = "welcome"
      BY <2>1 DEF Sessions
    <3> QED
      BY <3>4, <3>5 DEF Understood
  <2>2. \/ ReadProblem
        \/ \E f \in FromModule : Reads(f) /\ f = Plain("hello") /\ session' = [session EXCEPT !.at = "welcome"]
        \/ session' = Failed("trust")
        \/ session' = Failed("unexpected_message")
    BY <1>4 DEF Handshake
  <2> QED
    BY <1>1, <1>2, <2>1, <2>2 DEF Errors
<1>5. CASE Welcome \/ SendInvoke \/ AnswerAccess
  <2>1. session.at \in open /\ UNCHANGED <<fromModule, spoken>>
    BY <1>5 DEF Welcome, SendInvoke, AnswerAccess, SessionAt, Write
  <2>2. session'.at \in open \/ session' = Failed("stream_failed")
    BY <1>5 DEF Welcome, SendInvoke, AnswerAccess, Write, Sessions
  <2> QED
    BY <1>1, <1>3, <2>1, <2>2 DEF Errors
<1>6. CASE BrokerAnswers
  <2>1. session.at \in open /\ session'.at \in open /\ UNCHANGED <<fromModule, spoken>>
    BY <1>6 DEF BrokerAnswers, SessionAt, Sessions
  <2> QED
    BY <1>3, <2>1
<1>7. CASE ReadTerminal
  <2>1. \/ ReadProblem
        \/ \E e \in {"invocation_mismatch", "invalid_terminal", "unexpected_message"} : session' = Failed(e)
        \/ \E f \in FromModule : Reads(f) /\ f \in Requests \cup {Plain("uncorrelated")} /\ session' = Asked(f)
        \/ \E f \in FromModule : Reads(f) /\ f \in {Plain("result"), OwnProblem} /\ session' = Answered(f)
        \/ \E f \in FromModule : Reads(f) /\ f \in Denials /\ session' = Answered(Restored(f))
    BY <1>7 DEF ReadTerminal
  <2>2. SessionAt("reading")
    BY <1>7 DEF ReadTerminal
  <2>3. ASSUME NEW f \in FromModule, Reads(f), f \in Requests \cup {Plain("uncorrelated")}, session' = Asked(f)
        PROVE  Understood'
    <3>1. \/ session'.error # "none"
          \/ f \in Requests /\ session'.at = "broker"
      BY <2>3 DEF Asked, Failed, Sessions
    <3>2. f \in Requests => Spoken(Plain("opened"), f) = Plain("opened")
      BY Kinds DEF Spoken
    <3>3. session'.error # "none" => Understood'
      BY DEF Understood
    <3> QED
      BY <1>3, <2>2, <2>3, <3>1, <3>2, <3>3, ReadsCarry DEF SessionAt
  <2>4. ASSUME NEW f \in FromModule, Reads(f), f \in {Plain("result"), OwnProblem}, session' = Answered(f)
        PROVE  Understood'
    <3>1. f \in Terminals /\ f \notin Denials
      BY <2>4, Kinds DEF Terminals
    <3> QED
      BY <2>2, <2>4, <3>1, ReadsTerminal
  <2>5. ASSUME NEW f \in FromModule, Reads(f), f \in Denials, session' = Answered(Restored(f))
        PROVE  Understood'
    BY <2>2, <2>5, ReadsTerminal, RestoredIsTerminal DEF Terminals
  <2> QED
    BY <1>1, <1>2, <2>1, <2>3, <2>4, <2>5 DEF Errors
<1>8. CASE ExpectNoFurtherMessages
  <2>1. \/ ReadProblem
        \/ session' = Failed("extra_message")
        \/ StreamEnded /\ ~Truncated /\ session' = [session EXCEPT !.at = "ended"]
             /\ UNCHANGED <<module, fromModule, spoken>>
    BY <1>8 DEF ExpectNoFurtherMessages
  <2>2. session.at = "tail"
    BY <1>8 DEF ExpectNoFurtherMessages, SessionAt
  <2>3. ASSUME StreamEnded, ~Truncated, session' = [session EXCEPT !.at = "ended"],
               UNCHANGED <<module, fromModule, spoken>>
        PROVE  Understood'
    <3>1. fromModule' = <<>> /\ ~WriterLives'
      BY <2>3 DEF StreamEnded, Truncated, WriterLives, Running
    <3>2. /\ session'.at = "ended" /\ session'.error = session.error
          /\ session'.produced = session.produced /\ session'.issued = session.issued
      BY <2>3 DEF Sessions
    <3> QED
      BY <2>2, <2>3, <3>1, <3>2 DEF Understood, Restores
  <2> QED
    BY <1>1, <1>2, <2>1, <2>3 DEF Errors
<1> QED
  BY <1>4, <1>5, <1>6, <1>7, <1>8 DEF SessionStep

LEMMA NextUnderstood ==
  ASSUME Typed, Life, Places, Understood, [Next]_vars
  PROVE  Understood'
<1> USE DEF Typed
<1>1. CASE LauncherStep \/ Cancelled
  <2>1. CASE Launch
    <3>1. session.at = "unborn" /\ UNCHANGED <<fromModule, spoken>>
      BY <2>1 DEF Launch, LauncherAt, Life
    <3>2. UNCHANGED <<session, module>> \/ session' = [session EXCEPT !.at = "hello"]
      BY <2>1 DEF Launch
    <3>3. CASE UNCHANGED <<session, module>>
      BY <3>1, <3>3 DEF Understood
    <3>4. CASE session' = [session EXCEPT !.at = "hello"]
      <4>1. session'.at = "hello"
        BY <3>4 DEF SessionType, Sessions
      <4>2. Carries(Plain("nothing"), fromModule, spoken)
        BY <3>1 DEF Understood, SessionType
      <4> QED
        BY <3>1, <4>1, <4>2 DEF Understood
    <3> QED
      BY <3>2, <3>3, <3>4
  <2>2. CASE ~Launch
    <3>1. UNCHANGED session
      BY <1>1, <2>2, LauncherFrame
    <3>2. \/ UNCHANGED <<module, fromModule, spoken>>
          \/ Running /\ Dies("killed")
      BY <1>1, <2>2 DEF LauncherStep, Cancelled, Select, CloseInput, AwaitSession, AwaitExit, Kill
    <3>3. UNCHANGED <<module, fromModule, spoken>> => Speaks
      BY DEF Speaks, WriterLives, Running
    <3> QED
      BY <3>1, <3>2, <3>3, DyingSpeaks, SpeaksUnderstood
  <2> QED
    BY <2>1, <2>2
<1>2. CASE SessionStep \/ BrokerAnswers
  BY <1>2, SessionUnderstood
<1>3. CASE ModuleStep
  BY <1>3, ModuleFrame, ModuleSpeaks, SpeaksUnderstood
<1>4. CASE Tick \/ UNCHANGED vars
  <2>1. UNCHANGED <<session, module, fromModule, spoken>>
    BY <1>4 DEF Tick, vars
  <2>2. Speaks
    BY <2>1 DEF Speaks, WriterLives, Running
  <2> QED
    BY <2>1, <2>2, SpeaksUnderstood
<1> QED
  BY <1>1, <1>2, <1>3, <1>4, Steps

LEMMA NextReported ==
  ASSUME Typed, Life, Reported, [Next]_vars
  PROVE  Reported'
<1> USE DEF Typed, Running
<1> launcher \in Launchers
  BY DEF LauncherType
<1>1. \A k : k \notin {"result", "own", "problem"} => Plain(k) \notin Terminals
  BY Kinds
<1>2. ASSUME launcher.at = "returned", launcher.outcome \in Terminals
      PROVE  UNCHANGED <<launcher, session, module>>
  <2>1. ~Running /\ session.at = "ended"
    BY <1>2 DEF Life, Reported
  <2>2. ~ LauncherStep /\ ~ Cancelled /\ ~ Tick
    <3>1. ~ Launch /\ ~ Select /\ ~ Cancelled /\ ~ CloseInput /\ ~ Tick
      BY <1>2 DEF Launch, Select, Cancelled, CloseInput, Tick, LauncherAt
    <3>2. ~ AwaitSession /\ ~ AwaitExit
      BY <1>2 DEF AwaitSession, AwaitExit, LauncherAt
    <3> QED
      BY <3>1, <3>2 DEF LauncherStep
  <2>3. ~ ModuleStep
    BY <2>1, ModuleRuns
  <2>4. ~ (SessionStep \/ BrokerAnswers)
    BY <2>1, SessionMoves
  <2>5. UNCHANGED vars
    BY <2>2, <2>3, <2>4, Steps
  <2> QED
    BY <2>5 DEF vars
<1>3. CASE UNCHANGED launcher.outcome /\ launcher.outcome \in Terminals
  <2>1. launcher.at = "returned"
    BY <1>3 DEF Reported
  <2> QED
    BY <1>2, <1>3, <2>1 DEF Reported
<1>4. CASE UNCHANGED launcher.outcome /\ launcher.outcome \notin Terminals
  BY <1>4 DEF Reported
<1>5. CASE launcher'.outcome # launcher.outcome
  <2>1. CASE Launch
    <3>1. launcher'.outcome = Plain("module_not_launched")
      BY <1>5, <2>1 DEF Launch, Goes, Launchers
    <3>2. Plain("module_not_launched") \notin Terminals
      BY <1>1
    <3> QED
      BY <3>1, <3>2 DEF Reported
  <2>2. CASE AwaitExit
    <3>1. /\ launcher' = [launcher EXCEPT !.at = "returned", !.outcome = Ended]
          /\ UNCHANGED <<session, module>>
          /\ session.at = "ended"
      BY <1>5, <2>2 DEF AwaitExit, Kill, Goes, Launchers, LauncherAt, Life
    <3>2. launcher'.at = "returned" /\ launcher'.outcome = Ended
      BY <3>1 DEF Launchers
    <3>3. Plain(launcher.ending) \notin Terminals \/ launcher.ending = "none"
      BY <1>1 DEF Launchers
    <3>4. session.error \in Errors
      BY DEF SessionType, Sessions
    <3>5. Plain(session.error) \notin Terminals
      BY <1>1, <3>4 DEF Errors
    <3>6. Plain("module_exited") \notin Terminals
      BY <1>1
    <3>7. Ended \in Terminals =>
            launcher.ending = "none" /\ session.error = "none" /\ module.status = "ok"
      BY <3>3, <3>5, <3>6 DEF Ended
    <3>8. launcher.ending = "none" /\ session.error = "none" /\ module.status = "ok" =>
            Ended = session.produced
      BY DEF Ended
    <3> QED
      BY <3>1, <3>2, <3>7, <3>8 DEF Reported
  <2>3. ~ Launch /\ ~ AwaitExit => UNCHANGED launcher.outcome
    <3>1. Select \/ Cancelled \/ CloseInput \/ AwaitSession => UNCHANGED launcher.outcome
      BY DEF Select, Cancelled, CloseInput, AwaitSession, Kill, Goes, GivesUp, Launchers
    <3>2. SessionStep \/ BrokerAnswers \/ Tick \/ ModuleStep \/ UNCHANGED vars => UNCHANGED launcher
      BY SessionFrame, ModuleFrame DEF Tick, vars
    <3> QED
      BY <3>1, <3>2, Steps DEF LauncherStep
  <2> QED
    BY <1>5, <2>1, <2>2, <2>3
<1> QED
  BY <1>3, <1>4, <1>5
-----------------------------------------------------------------------------
(* Refusals. *)
Issued == {session.issued[i] : i \in DOMAIN session.issued}

\* A denial on its way to the module, or told to its handler, is one the session
\* has issued.
Honest ==
  /\ session.at = "answer" => {session.pending.verdict} \cap Denials \subseteq Issued
  /\ \A i \in DOMAIN toModule.frames :
       toModule.frames[i] \in Answers => {toModule.frames[i].verdict} \cap Denials \subseteq Issued
  /\ module.told \subseteq Issued

LEMMA InitHonest == Init => Honest
<1>1. Init => session.at = "unborn" /\ toModule.frames = <<>> /\ module.told = {}
  BY DEF Init
<1> QED
  BY <1>1 DEF Honest

\* A session forgets nothing it has issued.
LEMMA IssuedGrows ==
  ASSUME Typed, [Next]_vars
  PROVE  Issued \subseteq Issued'
<1> USE DEF Typed, Issued
<1> session \in Sessions /\ session.issued \in Seq(Denials)
  BY DEF SessionType, Sessions
<1>1. ASSUME session'.issued = session.issued
      PROVE  Issued \subseteq Issued'
  BY <1>1
<1>2. \A e : session' = Failed(e) => session'.issued = session.issued
  BY DEF Failed, Sessions
<1>3. ReadProblem => session'.issued = session.issued
  BY <1>2 DEF ReadProblem
<1>4. CASE LauncherStep \/ Cancelled
  <2>1. UNCHANGED session \/ session' = [session EXCEPT !.at = "hello"]
    BY <1>4, LauncherFrame DEF Launch
  <2> QED
    BY <1>1, <2>1 DEF Sessions
<1>5. CASE Handshake \/ Welcome \/ SendInvoke \/ AnswerAccess
  <2>1. Handshake => session'.issued = session.issued
    BY <1>2, <1>3 DEF Handshake, Sessions
  <2>2. \A f, next : Write(f, next) => session'.issued = session.issued
    BY <1>2 DEF Write, Sessions
  <2> QED
    BY <1>1, <1>5, <2>1, <2>2 DEF Welcome, SendInvoke, AnswerAccess
<1>6. CASE ReadTerminal
  <2>1. \A f : session' = Asked(f) => session'.issued = session.issued
    BY DEF Asked, Failed, Sessions
  <2>2. \A t : session' = Answered(t) => session'.issued = session.issued
    BY DEF Answered, Sessions
  <2> QED
    BY <1>1, <1>2, <1>3, <1>6, <2>1, <2>2 DEF ReadTerminal
<1>7. CASE BrokerAnswers
  <2>1. \/ session'.issued = session.issued
        \/ \E d \in Denials : session'.issued = Append(session.issued, d)
    BY <1>7 DEF BrokerAnswers, Sessions
  <2>2. ASSUME NEW d \in Denials, session'.issued = Append(session.issued, d)
        PROVE  Issued \subseteq Issued'
    <3>1. ASSUME NEW i \in DOMAIN session.issued
          PROVE  i \in DOMAIN session'.issued /\ session'.issued[i] = session.issued[i]
      BY <2>2, <3>1
    <3> QED
      BY <3>1
  <2> QED
    BY <1>1, <2>1, <2>2
<1>8. CASE ExpectNoFurtherMessages
  <2>1. session'.issued = session.issued
    BY <1>2, <1>3, <1>8 DEF ExpectNoFurtherMessages, Sessions
  <2> QED
    BY <1>1, <2>1
<1>9. CASE Tick \/ ModuleStep \/ UNCHANGED vars
  BY <1>1, <1>9, ModuleFrame DEF Tick, vars
<1> QED
  BY <1>4, <1>5, <1>6, <1>7, <1>8, <1>9, Steps DEF SessionStep

\* What reaches the handler's ear, or the pipe, was on its way already.
LEMMA NextHonest ==
  ASSUME Typed, Honest, [Next]_vars
  PROVE  Honest'
<1> USE DEF Typed
<1> session \in Sessions /\ module \in Modules
    /\ toModule \in [frames : Seq(ToModule), closed : BOOLEAN] /\ toModule.frames \in Seq(ToModule)
  BY DEF SessionType, ModuleType, PipesType
<1> DEFINE Fair(f) == f \in Answers => {f.verdict} \cap Denials \subseteq Issued
           Kept(q) == \A i \in DOMAIN q : Fair(q[i])
<1>1. Issued \subseteq Issued'
  BY IssuedGrows
<1>2. Kept(toModule.frames) /\ module.told \subseteq Issued
  BY DEF Honest
<1>3. ASSUME \/ session'.at # "answer"
             \/ session'.at = "answer" /\ session' = session
             \/ {session'.pending.verdict} \cap Denials \subseteq Issued',
             Kept(toModule'.frames),
             module'.told \subseteq Issued
      PROVE  Honest'
  BY <1>1, <1>3 DEF Honest
<1>4. CASE LauncherStep \/ Cancelled
  <2>1. toModule'.frames = toModule.frames
    BY <1>4, LauncherFrame DEF CloseInput
  <2>2. UNCHANGED session \/ session' = [session EXCEPT !.at = "hello"]
    BY <1>4, LauncherFrame DEF Launch
  <2>3. module'.told = module.told
    <3>1. \A status : Dies(status) => module'.told = module.told
      BY DEF Dies, Modules
    <3> QED
      BY <1>4, <3>1 DEF LauncherStep, Cancelled, Launch, Select, CloseInput, AwaitSession, AwaitExit, Kill, Modules
  <2> QED
    BY <1>2, <1>3, <2>1, <2>2, <2>3 DEF Sessions
<1>5. ASSUME NEW f \in ToModule, NEW next \in {"invoke", "reading"}, Write(f, next), Fair(f)
      PROVE  Honest'
  <2>1. session'.at # "answer" /\ UNCHANGED module
    BY <1>5 DEF Write, Failed, Sessions
  <2>2. toModule'.frames = toModule.frames \/ toModule'.frames = Append(toModule.frames, f)
    BY <1>5 DEF Write
  <2>3. ASSUME toModule'.frames = Append(toModule.frames, f)
        PROVE  Kept(toModule'.frames)
    <3>1. ASSUME NEW i \in DOMAIN toModule'.frames
          PROVE  \/ toModule'.frames[i] = f
                 \/ i \in DOMAIN toModule.frames /\ toModule'.frames[i] = toModule.frames[i]
      BY <2>3, <3>1
    <3> QED
      BY <1>2, <1>5, <3>1
  <2> QED
    BY <1>2, <1>3, <2>1, <2>2, <2>3
<1>6. CASE Welcome \/ SendInvoke
  <2>1. \A k : Plain(k) \in Answers => Plain(k).kind = "answer"
    BY DEF Answers, Answer
  <2>2. Plain("welcome") \notin Answers /\ Plain("invoke") \notin Answers
    BY <2>1, Kinds
  <2> QED
    BY <1>5, <1>6, <2>2 DEF Welcome, SendInvoke, ToModule
<1>7. CASE AnswerAccess
  <2>1. session.pending \in Answers /\ Fair(session.pending) /\ Write(session.pending, "reading")
    BY <1>7 DEF AnswerAccess, SessionAt, SessionType, Honest
  <2> QED
    BY <1>5, <2>1 DEF ToModule
<1>8. CASE Handshake \/ ReadTerminal \/ ExpectNoFurtherMessages
  <2>1. session'.at # "answer"
    <3>1. \A e : session' = Failed(e) => session'.at # "answer"
      BY DEF Failed, Sessions
    <3>2. ReadProblem => session'.at # "answer"
      BY <3>1 DEF ReadProblem
    <3>3. Handshake \/ ExpectNoFurtherMessages => session'.at # "answer"
      BY <3>1, <3>2 DEF Handshake, ExpectNoFurtherMessages, Sessions
    <3>4. \A f : session' = Asked(f) \/ session' = Answered(f) => session'.at # "answer"
      BY DEF Asked, Answered, Failed, Sessions
    <3>5. ReadTerminal => session'.at # "answer"
      BY <3>1, <3>2, <3>4 DEF ReadTerminal
    <3> QED
      BY <1>8, <3>3, <3>5
  <2>2. UNCHANGED toModule
    <3>1. ReadProblem \/ (\E f \in FromModule : Reads(f)) => UNCHANGED toModule
      BY DEF ReadProblem, Reads
    <3>2. Handshake \/ ReadTerminal => UNCHANGED toModule
      BY <3>1 DEF Handshake, ReadTerminal
    <3>3. ExpectNoFurtherMessages => UNCHANGED toModule
      BY <3>1 DEF ExpectNoFurtherMessages
    <3> QED
      BY <1>8, <3>2, <3>3
  <2> QED
    BY <1>2, <1>3, <1>8, <2>1, <2>2, SessionFrame DEF SessionStep
<1>9. CASE BrokerAnswers
  <2>1. UNCHANGED <<module, toModule>>
    BY <1>9 DEF BrokerAnswers
  <2>2. PICK n, verdict :
          /\ session'.pending = Answer(n, verdict)
          /\ verdict \in Denials => session'.issued = Append(session.issued, verdict)
    BY <1>9 DEF BrokerAnswers, Sessions
  <2>3. session'.pending.verdict = verdict
    BY <2>2 DEF Answer
  <2>4. verdict \in Denials => verdict \in Issued'
    <3>1. ASSUME verdict \in Denials
          PROVE  /\ Len(session.issued) + 1 \in DOMAIN session'.issued
                 /\ session'.issued[Len(session.issued) + 1] = verdict
      <4>1. session.issued \in Seq(Denials) /\ session'.issued = Append(session.issued, verdict)
        BY <2>2, <3>1 DEF Sessions
      <4> QED
        BY <4>1
    <3> QED
      BY <3>1 DEF Issued
  <2> QED
    BY <1>2, <1>3, <2>1, <2>3, <2>4
<1>10. ASSUME NEW f, Takes(f)
       PROVE  Kept(toModule'.frames) /\ Fair(f)
  <2>1. toModule.frames # <<>> /\ f = toModule.frames[1] /\ toModule'.frames = Tail(toModule.frames)
    BY <1>10 DEF Takes, Input
  <2>2. ASSUME NEW i \in DOMAIN Tail(toModule.frames)
        PROVE  i + 1 \in DOMAIN toModule.frames /\ Tail(toModule.frames)[i] = toModule.frames[i + 1]
    BY <2>1, <2>2
  <2>3. 1 \in DOMAIN toModule.frames
    BY <2>1
  <2> QED
    BY <1>2, <2>1, <2>2, <2>3
<1>11. ASSUME UNCHANGED session, module'.told \subseteq Issued,
              UNCHANGED toModule \/ \E f : Takes(f)
       PROVE  Honest'
  BY <1>2, <1>3, <1>10, <1>11 DEF Honest
<1>12. CASE ModuleStep
  <2>1. UNCHANGED session
    BY <1>12, ModuleFrame
  <2>2. UNCHANGED toModule \/ \E f : Takes(f)
    <3>1. SdkStep => UNCHANGED toModule \/ \E f : Takes(f)
      BY DEF SdkStep, SendHello, ReadWelcome, ReadInvoke, Expects, RunCommand, SendTerminal, Exit,
             Acquire, WriteRequest, ReadAnswer
    <3>2. AnyStep => UNCHANGED toModule \/ \E f : Takes(f)
      BY DEF AnyStep, AnyWrites, AnyReads, AnyCloses, AnyExits
    <3> QED
      BY <1>12, <3>1, <3>2 DEF ModuleStep, Crash, StartChildren
  <2>3. module'.told \subseteq Issued
    <3>1. ASSUME NEW g \in Askers, ReadAnswer(g) PROVE module'.told \subseteq Issued
      <4>1. \/ module'.told = module.told
            \/ \E f \in Answers : Takes(f) /\ module'.told = module.told \cup ({f.verdict} \cap Denials)
        BY <3>1 DEF ReadAnswer, Modules
      <4> QED
        BY <1>2, <1>10, <4>1
    <3>2. SendHello \/ ReadWelcome \/ ReadInvoke \/ RunCommand \/ SendTerminal \/ Exit => module'.told = module.told
      BY DEF SendHello, ReadWelcome, ReadInvoke, Expects, RunCommand, SendTerminal, Exit, Modules
    <3>3. \A g \in Askers : Acquire(g) \/ WriteRequest(g) => module'.told = module.told
      BY DEF Acquire, WriteRequest, Modules
    <3>4. AnyStep => module'.told = module.told
      BY DEF AnyStep, AnyWrites, AnyReads, AnyCloses, AnyExits, Modules
    <3>5. Crash \/ StartChildren => module'.told = module.told
      BY DEF Crash, Dies, StartChildren, Modules
    <3> QED
      BY <1>2, <1>12, <3>1, <3>2, <3>3, <3>4, <3>5 DEF ModuleStep, SdkStep
  <2> QED
    BY <1>11, <2>1, <2>2, <2>3
<1>13. CASE Tick \/ UNCHANGED vars
  BY <1>2, <1>11, <1>13 DEF Tick, vars
<1> QED
  BY <1>4, <1>6, <1>7, <1>8, <1>9, <1>12, <1>13, Steps DEF SessionStep
-----------------------------------------------------------------------------
(* The inductive invariant, and what follows from it. *)
IInv == Typed /\ Life /\ Clock /\ Places /\ Understood /\ Reported /\ Honest

LEMMA InitIInv == Init => IInv
<1>1. Init => Life
  BY DEF Init, Life
<1> QED
  BY <1>1, InitTyped, InitClock, InitUnderstood, InitHonest DEF IInv

LEMMA NextIInv == IInv /\ [Next]_vars => IInv'
<1> SUFFICES ASSUME IInv, [Next]_vars PROVE IInv'
  OBVIOUS
<1>1. Typed'
  BY NextLauncherType, NextSessionType, NextModuleType, NextPipesType DEF IInv, Typed
<1> QED
  BY <1>1, NextLife, NextClock, NextPlaces, NextUnderstood, NextReported, NextHonest DEF IInv

LEMMA Invariance == Spec => []IInv
  BY InitIInv, NextIInv, PTL DEF Spec

(* The variables hold what the code's types allow, in every behaviour of the
   three parties (session.go:17-63, launch.go:25-63). *)
THEOREM TypeCorrect == Spec => []TypeOK
<1>1. IInv => TypeOK
  BY DEF IInv, Typed, LauncherType, SessionType, ModuleType, PipesType, TypeOK
<1> QED
  BY <1>1, Invariance, PTL

(* When the launcher returns, the process has ended and the session's goroutine
   with it (launch.go:62-64, 189-200). *)
THEOREM ChildIsGone == Spec => []ChildGone
<1>1. IInv => ChildGone
  BY DEF IInv, Life, ChildGone
<1> QED
  BY <1>1, Invariance, PTL

(* The deadline ends an exchange only once it has all gone by outside the broker,
   the time a write of the shell's waited for the module counted in
   (launch.go:235-245, session.go:324). *)
THEOREM OnlyModuleTime == Spec => []ModuleTimeOnly
<1>1. IInv => ModuleTimeOnly
  BY DEF IInv, Clock, ModuleTimeOnly
<1> QED
  BY <1>1, Invariance, PTL

(* While the launcher waits, the timer is due exactly when that time has gone by
   and the broker is not the one waited for (launch.go:263-290). *)
THEOREM DeadlineIsKept == Spec => []DeadlineKept
<1>1. IInv => DeadlineKept
  <2> SUFFICES ASSUME IInv, launcher.at = "select"
               PROVE  Expired <=> awaited = Timeout /\ ~SessionAt("broker")
    BY DEF DeadlineKept
  <2> awaited \in 0..Timeout
    BY DEF IInv, Typed, LauncherType
  <2> QED
    BY TimeoutAssumption DEF IInv, Clock, Expired, SessionAt
<1> QED
  BY <1>1, Invariance, PTL

\* What is reported as the module's, the module has said, and said in order.
LEMMA ReportedIsSaid ==
  ASSUME IInv, launcher.outcome \in Terminals
  PROVE  /\ module.status = "ok"
         /\ spoken \in Terminals
         /\ Restores(spoken)
         /\ launcher.outcome = session.produced
<1>1. /\ module.status = "ok" /\ session.at = "ended" /\ session.error = "none"
      /\ launcher.outcome = session.produced
  BY DEF IInv, Reported
<1>2. PICK t \in Terminals : Restores(t) /\ Carries(t, fromModule, spoken)
  BY <1>1 DEF IInv, Understood
<1>3. fromModule = <<>>
  BY <1>1 DEF IInv, Understood
<1>4. t = spoken
  BY <1>2, <1>3, CarriesNothing
<1> QED
  BY <1>1, <1>2, <1>4

(* The shell believes a module only if it wrote a hello, access requests and one
   terminal message, all of it well, and exited cleanly (session.go:281,
   launch.go:169-187). *)
THEOREM OnlyWellSaid == Spec => []Believed
<1>1. IInv => Believed
  <2> SUFFICES ASSUME IInv, launcher.outcome \in Terminals
               PROVE  /\ module.status = "ok"
                      /\ spoken \in Terminals
                      /\ spoken \notin Denials => launcher.outcome = spoken
                      /\ launcher.outcome \in Denials =>
                           spoken \in Denials /\ spoken.code = launcher.outcome.code
    BY DEF Believed
  <2>1. OwnProblem \notin Denials
    BY Kinds
  <2> QED
    BY <2>1, ReportedIsSaid DEF Restores
<1> QED
  BY <1>1, Invariance, PTL

(* A module that returns a denial it was told has the shell's own refusal
   reported (session.go:393-407). *)
THEOREM RefusalKept == Spec => []RefusalIsTheShells
<1>1. IInv => RefusalIsTheShells
  <2> SUFFICES ASSUME IInv, launcher.outcome \in Terminals, spoken \in module.told
               PROVE  \E i \in DOMAIN session.issued :
                        launcher.outcome = session.issued[i] /\ session.issued[i].code = spoken.code
    BY DEF RefusalIsTheShells
  <2>1. spoken \in Denials
    BY DEF IInv, Typed, ModuleType, Modules
  <2>2. \E i \in DOMAIN session.issued : session.issued[i] = spoken
    BY DEF IInv, Honest, Issued
  <2> QED
    BY <2>1, <2>2, ReportedIsSaid DEF Restores
<1> QED
  BY <1>1, Invariance, PTL
-----------------------------------------------------------------------------
(***************************************************************************)
(* A module built on the SDK. Its goroutines ask one at a time, it stops    *)
(* with status 0 only behind its last message, and it keeps its streams.    *)
(***************************************************************************)
SdkPlaces ==
  /\ ~module.shut /\ ~module.deaf
  /\ module.status = "unborn" =>
       /\ module.at = "hello" /\ fromModule = <<>> /\ toModule.frames = <<>>
       /\ session.at = "unborn"
  /\ Running /\ module.at = "hello" =>
       fromModule = <<>> /\ session.at = "hello" /\ session.error = "none"
  /\ module.status = "ok" => module.at = "exit"
  /\ \A g, h \in Askers : asker[g].at # "idle" /\ asker[h].at # "idle" => g = h
  /\ ~module.misled

\* What it wrote and the session has not read: a hello first, then requests, one
\* terminal message last; a frame cut off ends a module that wrote no such message.
SdkSays ==
  session.error = "none" =>
    /\ \A i \in DOMAIN fromModule :
         /\ fromModule[i] \in {Plain("hello"), Cut} \cup Requests \cup Terminals
         /\ fromModule[i] = Plain("hello") => i = 1 /\ session.at \in {"unborn", "hello"}
         /\ fromModule[i] \in Terminals => i = Len(fromModule) /\ module.at = "exit"
         /\ fromModule[i] = Cut => i = Len(fromModule) /\ ~Running /\ module.at # "exit"
    /\ session.at \in {"unborn", "hello"} =>
         /\ fromModule # <<>> => fromModule[1] \in {Plain("hello"), Cut}
         /\ module.at # "hello" => fromModule # <<>> /\ fromModule[1] = Plain("hello")
    /\ session.at \in {"tail", "ended"} => module.at = "exit" /\ fromModule = <<>>

Awaits(n) == \E g \in Askers : asker[g].at = "awaiting" /\ asker[g].number = n
AnswersTo(n) == {Answer(n, v) : v \in {Plain("granted")} \cup Denials}

\* What is on its way to it is what it will wait for next.
SdkHears ==
  Running =>
    \/ toModule.frames = <<>>
    \/ /\ module.at = "welcome"
       /\ \/ toModule.frames = <<Plain("welcome")>>
          \/ toModule.frames = <<Plain("welcome"), Plain("invoke")>>
    \/ module.at = "invoke" /\ toModule.frames = <<Plain("invoke")>>
    \/ \E n \in Numbers : /\ Awaits(n)
                          /\ \E a \in AnswersTo(n) : toModule.frames = <<a>>

(***************************************************************************)
(* Whose turn it is, as long as the shell has not closed the module's input *)
(* and the module has not failed.                                           *)
(***************************************************************************)
Passing(said, heard) == fromModule = said /\ toModule.frames = heard
Quiet == Passing(<<>>, <<>>)
NobodyAwaits == \A g \in Askers : asker[g].at # "awaiting"

Opening ==
  \/ module.at = "hello" /\ SessionAt("hello") /\ Quiet
  \/ /\ module.at = "welcome"
     /\ \/ SessionAt("hello") /\ Passing(<<Plain("hello")>>, <<>>)
        \/ SessionAt("welcome") /\ Quiet
        \/ SessionAt("invoke") /\ Passing(<<>>, <<Plain("welcome")>>)
        \/ SessionAt("reading") /\ Passing(<<>>, <<Plain("welcome"), Plain("invoke")>>)
  \/ /\ module.at = "invoke"
     /\ \/ SessionAt("invoke") /\ Quiet
        \/ SessionAt("reading") /\ Passing(<<>>, <<Plain("invoke")>>)

Exchanging ==
  /\ module.at = "handler"
  /\ \E n \in Numbers :
       /\ Awaits(n)
       /\ \/ SessionAt("reading") /\ Passing(<<Access(n)>>, <<>>)
          \/ SessionAt("broker") /\ session.pending = Access(n) /\ Quiet
          \/ SessionAt("answer") /\ session.pending \in AnswersTo(n) /\ Quiet
          \/ SessionAt("reading") /\ \E a \in AnswersTo(n) : Passing(<<>>, <<a>>)
          \/ SessionAt("ended") /\ session.error # "none" /\ Quiet

Closing ==
  /\ NobodyAwaits
  /\ \/ module.at \in {"handler", "terminal"} /\ SessionAt("reading") /\ Quiet
     \/ /\ module.at = "exit"
        /\ \/ SessionAt("reading") /\ \E t \in Terminals : Passing(<<t>>, <<>>)
           \/ SessionAt("tail") /\ Quiet
           \/ SessionAt("ended") /\ session.error = "none" /\ ~Running

SdkTurns ==
  ~toModule.closed /\ (Running \/ module.status = "ok") => Opening \/ Exchanging \/ Closing

SdkErrors ==
  /\ session.error \in {"none", "too_many_access_requests", "no_terminal_message",
                        "truncated_message", "stream_failed"}
  /\ session.error \in {"no_terminal_message", "truncated_message", "stream_failed"} =>
         module.status \in {"failed", "killed"} \/ toModule.closed

Converses == SdkPlaces /\ SdkSays /\ SdkHears /\ SdkTurns /\ SdkErrors
Conversing == BuiltOnSdk => Converses

LEMMA InitConversing == Init => Conversing
<1> SUFFICES ASSUME Init, BuiltOnSdk PROVE Converses
  BY DEF Conversing
<1>1. /\ session.at = "unborn" /\ session.error = "none"
      /\ module.at = "hello" /\ module.status = "unborn"
      /\ ~module.shut /\ ~module.deaf /\ ~module.misled
      /\ \A g \in Askers : asker[g].at = "idle"
      /\ fromModule = <<>> /\ toModule.frames = <<>>
  BY DEF Init, BuiltOnSdk
<1>2. ~Running /\ module.status # "ok"
  BY <1>1 DEF Running
<1>3. SdkPlaces
  BY <1>1, <1>2 DEF SdkPlaces
<1>4. SdkSays
  BY <1>1 DEF SdkSays
<1> QED
  BY <1>1, <1>2, <1>3, <1>4 DEF Converses, SdkHears, SdkTurns, SdkErrors

\* Frames of different kinds are different frames.
LEMMA Apart ==
  /\ \A k, l : Plain(k) = Plain(l) => k = l
  /\ \A k : Plain(k) \notin Requests
  /\ \A k : k \notin {"result", "own", "problem"} => Plain(k) \notin Terminals
  /\ Requests \cap Terminals = {}
  /\ Terminals = {Plain("result"), OwnProblem} \cup Denials
<1>1. \A f \in Requests : f \notin Terminals
  BY Kinds
<1>2. \A k : Plain(k) \notin Requests
  <2> SUFFICES ASSUME NEW k, Plain(k) \in Requests PROVE FALSE
    OBVIOUS
  <2>1. PICK n \in Numbers : Plain(k) = Access(n)
    BY DEF Requests
  <2>2. [kind |-> k] = [kind |-> "access", correlation |-> n]
    BY <2>1 DEF Plain, Access
  <2> QED
    BY <2>2
<1>3. \A k, l : Plain(k) = Plain(l) => k = l
  BY Kinds
<1> QED
  BY <1>1, <1>2, <1>3, Kinds DEF Terminals

\* A step that moves neither the conversation nor the module.
LEMMA IdleConverses ==
  ASSUME Typed, Conversing,
         UNCHANGED <<module, session, asker, fromModule>>,
         toModule'.frames = toModule.frames,
         toModule.closed => toModule'.closed
  PROVE  Conversing'
<1> SUFFICES ASSUME BuiltOnSdk, Converses PROVE Converses'
  BY DEF Conversing, BuiltOnSdk
<1>1. SdkPlaces' /\ SdkSays' /\ SdkHears'
  BY DEF Converses, SdkPlaces, SdkSays, SdkHears, Running, Awaits
<1>2. SdkTurns'
  BY DEF Converses, SdkTurns, Running, Opening, Exchanging, Closing, Passing, Quiet,
         Awaits, NobodyAwaits, SessionAt
<1>3. SdkErrors'
  BY DEF Converses, SdkErrors
<1> QED
  BY <1>1, <1>2, <1>3 DEF Converses

LEMMA LaunchConverses ==
  ASSUME Typed, Life, Conversing, Launch
  PROVE  Conversing'
<1> USE DEF Typed
<1> module \in Modules /\ session \in Sessions
  BY DEF ModuleType, SessionType
<1>1. CASE UNCHANGED <<module, session>>
  BY <1>1, IdleConverses DEF Launch
<1>2. CASE /\ module' = [module EXCEPT !.status = "running"]
           /\ session' = [session EXCEPT !.at = "hello"]
  <2>1. UNCHANGED <<asker, toModule, fromModule>> /\ module.status = "unborn"
    BY DEF Launch, LauncherAt, Life
  <2>2. /\ module'.status = "running" /\ module'.at = module.at
        /\ module'.shut = module.shut /\ module'.deaf = module.deaf
        /\ module'.misled = module.misled
        /\ session'.at = "hello" /\ session'.error = session.error
    BY <1>2 DEF Modules, Sessions
  <2> SUFFICES ASSUME BuiltOnSdk, Converses PROVE Converses'
    BY <2>2 DEF Conversing, BuiltOnSdk
  <2>3. /\ module.at = "hello" /\ fromModule = <<>> /\ toModule.frames = <<>>
        /\ session.error = "none"
    BY <2>1 DEF Converses, SdkPlaces, SessionType
  <2>4. SdkPlaces' /\ SdkSays'
    BY <2>1, <2>2, <2>3 DEF Converses, SdkPlaces, SdkSays
  <2>5. SdkHears' /\ SdkTurns'
    BY <2>1, <2>2, <2>3 DEF SdkHears, SdkTurns, Opening, SessionAt, Quiet, Passing
  <2>6. SdkErrors'
    BY <2>2, <2>3 DEF SdkErrors
  <2> QED
    BY <2>4, <2>5, <2>6 DEF Converses
<1> QED
  BY <1>1, <1>2 DEF Launch

\* The process is killed or dies of itself.
LEMMA DyingConverses ==
  ASSUME Typed, Places, Conversing, Running, NEW status \in {"failed", "killed"}, Dies(status),
         UNCHANGED <<session, asker, toModule>>
  PROVE  Conversing'
<1> USE DEF Typed
<1> module \in Modules /\ fromModule \in Seq(FromModule)
  BY DEF ModuleType, PipesType
<1>1. /\ module'.status = status /\ module'.at = module.at
      /\ module'.shut = module.shut /\ module'.deaf = module.deaf
      /\ module'.misled = module.misled
  BY DEF Dies, Modules
<1> SUFFICES ASSUME BuiltOnSdk, Converses PROVE Converses'
  BY <1>1 DEF Conversing, BuiltOnSdk
<1>2. ~Running' /\ module'.status # "ok" /\ module'.status # "unborn" /\ module.status = "running"
  BY <1>1 DEF Running
<1>3. SdkPlaces' /\ SdkHears' /\ SdkTurns' /\ SdkErrors'
  BY <1>1, <1>2 DEF Converses, SdkPlaces, SdkHears, SdkTurns, SdkErrors
<1>4. SdkSays'
  <2>1. CASE UNCHANGED fromModule
    BY <1>1, <1>2, <2>1 DEF Converses, SdkSays
  <2>2. CASE Writing /\ fromModule' = Append(fromModule, Cut)
    <3>1. module.at # "exit"
      BY <2>2 DEF Writing, Places
    <3>2. /\ Len(fromModule') = Len(fromModule) + 1 /\ fromModule'[Len(fromModule) + 1] = Cut
          /\ \A i \in DOMAIN fromModule : fromModule'[i] = fromModule[i]
          /\ DOMAIN fromModule' = DOMAIN fromModule \cup {Len(fromModule) + 1}
          /\ Len(fromModule) \in Nat /\ DOMAIN fromModule = 1..Len(fromModule)
      <4>1. Cut \in FromModule
        BY DEF FromModule
      <4> QED
        BY <2>2, <4>1
    <3>3. Cut # Plain("hello") /\ Cut \notin Terminals
      BY Apart DEF Cut
    <3>4. SUFFICES ASSUME session.error = "none" PROVE SdkSays'
      BY DEF SdkSays
    <3>5. \A i \in DOMAIN fromModule : fromModule[i] \notin Terminals /\ fromModule[i] # Cut
      BY <1>2, <3>1, <3>4 DEF Converses, SdkSays
    <3>6. ASSUME NEW i \in DOMAIN fromModule'
          PROVE  /\ fromModule'[i] \in {Plain("hello"), Cut} \cup Requests \cup Terminals
                 /\ fromModule'[i] = Plain("hello") => i = 1 /\ session'.at \in {"unborn", "hello"}
                 /\ fromModule'[i] \in Terminals => i = Len(fromModule') /\ module'.at = "exit"
                 /\ fromModule'[i] = Cut => i = Len(fromModule') /\ ~Running' /\ module'.at # "exit"
      <4>1. CASE i \in DOMAIN fromModule
        BY <3>2, <3>4, <3>5, <4>1 DEF Converses, SdkSays
      <4>2. CASE i = Len(fromModule) + 1
        BY <1>1, <1>2, <3>1, <3>2, <3>3, <4>2
      <4> QED
        BY <3>2, <4>1, <4>2
    <3>7. session.at \in {"unborn", "hello"} =>
            /\ fromModule' # <<>> => fromModule'[1] \in {Plain("hello"), Cut}
            /\ module'.at # "hello" => fromModule' # <<>> /\ fromModule'[1] = Plain("hello")
      <4>1. CASE fromModule = <<>>
        BY <1>1, <3>2, <3>4, <4>1 DEF Converses, SdkSays
      <4>2. CASE fromModule # <<>>
        <5>1. 1 \in DOMAIN fromModule /\ fromModule'[1] = fromModule[1] /\ fromModule' # <<>>
          BY <3>2, <4>2
        <5> QED
          BY <1>1, <3>4, <4>2, <5>1 DEF Converses, SdkSays
      <4> QED
        BY <4>1, <4>2
    <3>8. session.at \notin {"tail", "ended"}
      BY <3>1, <3>4 DEF Converses, SdkSays
    <3> QED
      BY <3>6, <3>7, <3>8 DEF SdkSays
  <2> QED
    BY <2>1, <2>2 DEF Dies
<1> QED
  BY <1>3, <1>4 DEF Converses

\* What a module built on the SDK adds to its output.
LEMMA WritingSays ==
  ASSUME Typed, Converses, NEW f \in FromModule, fromModule' = Append(fromModule, f),
         UNCHANGED session, Running, module.at # "exit",
         \/ /\ f = Plain("hello") /\ module.at = "hello" /\ module'.at # "hello"
         \/ f \in Requests /\ module.at = "handler" /\ module'.at # "hello"
         \/ f \in Terminals /\ module.at = "terminal" /\ module'.at = "exit"
  PROVE  SdkSays'
<1> USE DEF Typed
<1> fromModule \in Seq(FromModule)
  BY DEF PipesType
<1>1. /\ Len(fromModule') = Len(fromModule) + 1 /\ fromModule'[Len(fromModule) + 1] = f
      /\ \A i \in DOMAIN fromModule : fromModule'[i] = fromModule[i]
      /\ DOMAIN fromModule' = DOMAIN fromModule \cup {Len(fromModule) + 1}
      /\ Len(fromModule) \in Nat /\ DOMAIN fromModule = 1..Len(fromModule)
  OBVIOUS
<1>2. SUFFICES ASSUME session.error = "none" PROVE SdkSays'
  BY DEF SdkSays
<1>3. /\ f # Cut
      /\ f \in Requests => f # Plain("hello") /\ f \notin Terminals
      /\ f \in Terminals => f # Plain("hello")
      /\ Plain("hello") \notin Terminals
  BY Apart DEF Cut
<1>4. f = Plain("hello") => fromModule = <<>> /\ session.at = "hello"
  BY <1>3, Apart DEF Converses, SdkPlaces
<1>5. \A i \in DOMAIN fromModule : fromModule[i] \notin Terminals /\ fromModule[i] # Cut
  BY <1>2 DEF Converses, SdkSays
<1>6. ASSUME NEW i \in DOMAIN fromModule'
      PROVE  /\ fromModule'[i] \in {Plain("hello"), Cut} \cup Requests \cup Terminals
             /\ fromModule'[i] = Plain("hello") => i = 1 /\ session'.at \in {"unborn", "hello"}
             /\ fromModule'[i] \in Terminals => i = Len(fromModule') /\ module'.at = "exit"
             /\ fromModule'[i] = Cut => i = Len(fromModule') /\ ~Running' /\ module'.at # "exit"
  <2>1. CASE i \in DOMAIN fromModule
    BY <1>1, <1>2, <1>5, <2>1 DEF Converses, SdkSays
  <2>2. CASE i = Len(fromModule) + 1
    <3>1. fromModule'[i] = f /\ i = Len(fromModule') /\ (f = Plain("hello") => i = 1)
      BY <1>1, <1>4, <2>2
    <3> QED
      BY <1>3, <1>4, <3>1
  <2> QED
    BY <1>1, <2>1, <2>2
<1>7. session.at \in {"unborn", "hello"} =>
        /\ fromModule' # <<>> => fromModule'[1] \in {Plain("hello"), Cut}
        /\ module'.at # "hello" => fromModule' # <<>> /\ fromModule'[1] = Plain("hello")
  <2>1. CASE f = Plain("hello")
    BY <1>1, <1>4, <2>1
  <2>2. CASE f # Plain("hello")
    <3> SUFFICES ASSUME session.at \in {"unborn", "hello"}
                 PROVE  fromModule' # <<>> /\ fromModule'[1] = Plain("hello")
      OBVIOUS
    <3>1. fromModule # <<>> /\ fromModule[1] = Plain("hello")
      BY <1>2, <2>2 DEF Converses, SdkSays
    <3>2. 1 \in DOMAIN fromModule
      BY <3>1
    <3> QED
      BY <1>1, <3>1, <3>2
  <2> QED
    BY <2>1, <2>2
<1>8. session.at \notin {"tail", "ended"}
  BY <1>2 DEF Converses, SdkSays
<1> QED
  BY <1>6, <1>7, <1>8 DEF SdkSays

\* A step that leaves the output as it is, of a module that has not ended it.
LEMMA SilenceSays ==
  ASSUME Converses, UNCHANGED <<session, fromModule>>, Running,
         module.at \notin {"hello", "exit"}, module'.at \notin {"hello", "exit"}
  PROVE  SdkSays'
  BY DEF Converses, SdkSays

LEMMA SendHelloConverses ==
  ASSUME Typed, Places, Conversing, SendHello
  PROVE  Conversing'
<1> USE DEF Typed
<1> module \in Modules /\ fromModule \in Seq(FromModule)
  BY DEF ModuleType, PipesType
<1> SUFFICES ASSUME Converses PROVE Converses'
  BY DEF Conversing, BuiltOnSdk, SendHello, ModuleAt
<1>1. /\ Running /\ module.at = "hello" /\ module'.at = "welcome"
      /\ module'.status = module.status /\ module'.shut = module.shut
      /\ module'.deaf = module.deaf /\ module'.misled = module.misled
      /\ UNCHANGED <<session, asker, toModule>>
      /\ fromModule' = Append(fromModule, Plain("hello"))
      /\ module.status = "running"
  BY DEF SendHello, ModuleAt, ModuleWrites, Modules, Running
<1>2. Plain("hello") \in FromModule
  BY DEF FromModule, Plains
<1>3. SdkSays'
  BY <1>1, <1>2, WritingSays
<1>4. fromModule = <<>> /\ session.at = "hello" /\ session.error = "none"
  BY <1>1 DEF Converses, SdkPlaces
<1>5. fromModule' = <<Plain("hello")>>
  BY <1>1, <1>4
<1>6. SdkPlaces'
  BY <1>1 DEF Converses, SdkPlaces
<1>7. toModule.frames = <<>>
  BY <1>1 DEF Converses, SdkHears, Awaits, Places
<1>8. SdkHears'
  BY <1>1, <1>7 DEF SdkHears
<1>9. SdkTurns'
  BY <1>1, <1>4, <1>5, <1>7 DEF SdkTurns, Opening, SessionAt, Passing
<1>10. SdkErrors'
  BY <1>1, <1>4 DEF SdkErrors
<1> QED
  BY <1>3, <1>6, <1>8, <1>9, <1>10 DEF Converses

\* A step of a module that fails, and says nothing.
LEMMA FailingConverses ==
  ASSUME Typed, Conversing, Running, module' = [module EXCEPT !.status = "failed"],
         UNCHANGED <<session, asker, fromModule, toModule>>
  PROVE  Conversing'
<1> module \in Modules
  BY DEF Typed, ModuleType
<1>1. /\ module'.status = "failed" /\ module'.at = module.at
      /\ module'.shut = module.shut /\ module'.deaf = module.deaf
      /\ module'.misled = module.misled
  BY DEF Modules
<1> SUFFICES ASSUME BuiltOnSdk, Converses PROVE Converses'
  BY <1>1 DEF Conversing, BuiltOnSdk
<1> QED
  BY <1>1 DEF Converses, SdkPlaces, SdkSays, SdkHears, SdkTurns, SdkErrors, Running

LEMMA ReadWelcomeConverses ==
  ASSUME Typed, Places, Conversing, ReadWelcome
  PROVE  Conversing'
<1> USE DEF Typed
<1> module \in Modules /\ toModule.frames \in Seq(ToModule)
  BY DEF ModuleType, PipesType
<1>1. Running /\ module.at = "welcome" /\ UNCHANGED <<session, asker, fromModule>>
  BY DEF ReadWelcome, Expects, ModuleAt
<1>2. CASE module' = [module EXCEPT !.status = "failed"] /\ UNCHANGED toModule
  BY <1>1, <1>2, FailingConverses
<1>3. ASSUME NEW f \in ToModule, Takes(f),
             module' = IF f = Plain("welcome") THEN [module EXCEPT !.at = "invoke"]
                       ELSE [module EXCEPT !.status = "failed", !.misled = TRUE]
      PROVE  Conversing'
  <2> SUFFICES ASSUME Converses PROVE Converses'
    BY <1>1 DEF Conversing, BuiltOnSdk
  <2>1. /\ toModule.frames # <<>> /\ f = Head(toModule.frames)
        /\ toModule' = [toModule EXCEPT !.frames = Tail(toModule.frames)]
    BY <1>3 DEF Takes, Input, PipesType
  <2>2. toModule'.frames = Tail(toModule.frames) /\ toModule'.closed = toModule.closed
    BY <2>1 DEF PipesType
  <2>3. \/ toModule.frames = <<Plain("welcome")>>
        \/ toModule.frames = <<Plain("welcome"), Plain("invoke")>>
    BY <1>1, <2>1 DEF Converses, SdkHears, Awaits, Places
  <2>4. /\ f = Plain("welcome")
        /\ toModule.frames = <<Plain("welcome")>> => toModule'.frames = <<>>
        /\ toModule.frames = <<Plain("welcome"), Plain("invoke")>> =>
             toModule'.frames = <<Plain("invoke")>>
    <3>1. \A a : Head(<<a>>) = a /\ Tail(<<a>>) = <<>>
      OBVIOUS
    <3>2. \A a, b : Head(<<a, b>>) = a /\ Tail(<<a, b>>) = <<b>>
      OBVIOUS
    <3> QED
      BY <2>1, <2>2, <2>3, <3>1, <3>2
  <2>5. /\ module'.at = "invoke" /\ module'.status = module.status
        /\ module'.shut = module.shut /\ module'.deaf = module.deaf
        /\ module'.misled = module.misled
    BY <1>3, <2>4 DEF Modules
  <2>6. SdkPlaces'
    BY <1>1, <2>5 DEF Converses, SdkPlaces, Running
  <2>7. SdkSays'
    BY <1>1, <2>5, SilenceSays
  <2>8. SdkHears'
    BY <2>3, <2>4, <2>5 DEF SdkHears
  <2>9. SdkErrors'
    BY <1>1, <2>2, <2>5 DEF Converses, SdkErrors
  <2>10. SdkTurns'
    <3> SUFFICES ASSUME ~toModule.closed PROVE Opening'
      BY <2>2 DEF SdkTurns
    <3>1. Opening
      BY <1>1 DEF Converses, SdkTurns, Exchanging, Closing
    <3>2. \/ SessionAt("invoke") /\ Passing(<<>>, <<Plain("welcome")>>)
          \/ SessionAt("reading") /\ Passing(<<>>, <<Plain("welcome"), Plain("invoke")>>)
      BY <1>1, <2>3, <3>1 DEF Opening, Passing, Quiet
    <3> QED
      BY <1>1, <2>4, <2>5, <3>2 DEF Opening, Passing, Quiet, SessionAt
  <2> QED
    BY <2>6, <2>7, <2>8, <2>9, <2>10 DEF Converses
<1> QED
  BY <1>2, <1>3 DEF ReadWelcome, Expects

LEMMA ReadInvokeConverses ==
  ASSUME Typed, Places, Conversing, ReadInvoke
  PROVE  Conversing'
<1> USE DEF Typed
<1> module \in Modules /\ toModule.frames \in Seq(ToModule)
  BY DEF ModuleType, PipesType
<1>1. Running /\ module.at = "invoke" /\ UNCHANGED <<session, asker, fromModule>>
  BY DEF ReadInvoke, Expects, ModuleAt
<1>2. CASE module' = [module EXCEPT !.status = "failed"] /\ UNCHANGED toModule
  BY <1>1, <1>2, FailingConverses
<1>3. ASSUME NEW f \in ToModule, Takes(f),
             module' = IF f = Plain("invoke") THEN [module EXCEPT !.at = "handler"]
                       ELSE [module EXCEPT !.status = "failed", !.misled = TRUE]
      PROVE  Conversing'
  <2> SUFFICES ASSUME Converses PROVE Converses'
    BY <1>1 DEF Conversing, BuiltOnSdk
  <2>1. /\ toModule.frames # <<>> /\ f = Head(toModule.frames)
        /\ toModule' = [toModule EXCEPT !.frames = Tail(toModule.frames)]
    BY <1>3 DEF Takes, Input, PipesType
  <2>2. toModule'.frames = Tail(toModule.frames) /\ toModule'.closed = toModule.closed
    BY <2>1 DEF PipesType
  <2>3. toModule.frames = <<Plain("invoke")>>
    BY <1>1, <2>1 DEF Converses, SdkHears, Awaits, Places
  <2>4. f = Plain("invoke") /\ toModule'.frames = <<>>
    BY <2>1, <2>2, <2>3
  <2>5. /\ module'.at = "handler" /\ module'.status = module.status
        /\ module'.shut = module.shut /\ module'.deaf = module.deaf
        /\ module'.misled = module.misled
    BY <1>3, <2>4 DEF Modules
  <2>6. SdkPlaces'
    BY <1>1, <2>5 DEF Converses, SdkPlaces, Running
  <2>7. SdkSays'
    BY <1>1, <2>5, SilenceSays
  <2>8. SdkHears'
    BY <2>4 DEF SdkHears
  <2>9. SdkErrors'
    BY <1>1, <2>2, <2>5 DEF Converses, SdkErrors
  <2>10. SdkTurns'
    <3> SUFFICES ASSUME ~toModule.closed PROVE Closing'
      BY <2>2 DEF SdkTurns
    <3>1. Opening
      BY <1>1 DEF Converses, SdkTurns, Exchanging, Closing
    <3>2. SessionAt("reading") /\ Passing(<<>>, <<Plain("invoke")>>)
      BY <1>1, <2>3, <3>1 DEF Opening, Passing, Quiet
    <3>3. NobodyAwaits'
      BY <1>1 DEF NobodyAwaits, Places
    <3> QED
      BY <1>1, <2>4, <2>5, <3>2, <3>3 DEF Closing, Passing, Quiet, SessionAt
  <2> QED
    BY <2>6, <2>7, <2>8, <2>9, <2>10 DEF Converses
<1> QED
  BY <1>2, <1>3 DEF ReadInvoke, Expects

LEMMA AcquireConverses ==
  ASSUME Typed, Places, Conversing, NEW g \in Askers, Acquire(g)
  PROVE  Conversing'
<1> USE DEF Typed
<1> module \in Modules
  BY DEF ModuleType
<1>1. /\ Running /\ module.at = "handler" /\ module'.at = "handler"
      /\ module'.status = module.status /\ module'.shut = module.shut
      /\ module'.deaf = module.deaf /\ module'.misled = module.misled
      /\ UNCHANGED <<session, fromModule, toModule>>
      /\ \A h \in Askers : asker[h].at = "idle"
  BY DEF Acquire, ModuleAt, Modules
<1> SUFFICES ASSUME Converses PROVE Converses'
  BY <1>1 DEF Conversing, BuiltOnSdk
<1>2. \A h \in Askers : asker'[h].at # "awaiting" /\ (h # g => asker'[h].at = "idle")
  BY <1>1 DEF Acquire, ModuleType
<1>3. SdkPlaces'
  BY <1>1, <1>2 DEF Converses, SdkPlaces, Running
<1>4. SdkSays'
  BY <1>1, SilenceSays
<1>5. SdkHears'
  BY <1>1 DEF Converses, SdkHears, Awaits
<1>6. SdkErrors'
  BY <1>1 DEF Converses, SdkErrors
<1>7. SdkTurns'
  <2> SUFFICES ASSUME ~toModule.closed PROVE Closing'
    BY <1>1 DEF SdkTurns
  <2>1. Closing
    BY <1>1 DEF Converses, SdkTurns, Opening, Exchanging, Awaits
  <2> QED
    BY <1>1, <1>2, <2>1 DEF Closing, NobodyAwaits, Quiet, Passing, SessionAt
<1> QED
  BY <1>3, <1>4, <1>5, <1>6, <1>7 DEF Converses

LEMMA WriteRequestConverses ==
  ASSUME Typed, Places, Conversing, NEW g \in Askers, WriteRequest(g)
  PROVE  Conversing'
<1> USE DEF Typed
<1> module \in Modules /\ fromModule \in Seq(FromModule)
  BY DEF ModuleType, PipesType
<1> DEFINE n == asker[g].number
<1>1. /\ Running /\ module.at = "handler" /\ asker[g].at = "asking"
      /\ UNCHANGED <<session, module, toModule>>
      /\ fromModule' = Append(fromModule, Access(n))
  BY DEF WriteRequest, ModuleAt, ModuleWrites
<1> SUFFICES ASSUME Converses PROVE Converses'
  BY <1>1 DEF Conversing, BuiltOnSdk
<1>2. n \in Numbers /\ Access(n) \in Requests /\ Access(n) \in FromModule
  BY <1>1 DEF ModuleType, Requests, FromModule
<1>3. \A h \in Askers : /\ asker[h].at = "awaiting" => FALSE
                        /\ asker'[h].at # "idle" => asker[h].at # "idle"
  BY <1>1 DEF WriteRequest, Converses, SdkPlaces, ModuleType
<1>4. asker'[g].at = "awaiting" /\ asker'[g].number = n
  BY DEF WriteRequest, ModuleType
<1>5. Awaits(n)'
  BY <1>4 DEF Awaits
<1>6. SdkPlaces'
  BY <1>1, <1>3 DEF Converses, SdkPlaces, Running
<1>7. SdkSays'
  BY <1>1, <1>2, WritingSays
<1>8. toModule.frames = <<>>
  BY <1>1, <1>3 DEF Converses, SdkHears, Awaits
<1>9. SdkHears'
  BY <1>1, <1>8 DEF SdkHears
<1>10. SdkErrors'
  BY <1>1 DEF Converses, SdkErrors
<1>11. SdkTurns'
  <2> SUFFICES ASSUME ~toModule.closed PROVE Exchanging'
    BY <1>1 DEF SdkTurns
  <2>1. Closing
    BY <1>1, <1>3 DEF Converses, SdkTurns, Opening, Exchanging, Awaits
  <2>2. SessionAt("reading") /\ fromModule = <<>> /\ toModule.frames = <<>>
    BY <1>1, <2>1 DEF Closing, Quiet, Passing
  <2>3. \A a : Append(<<>>, a) = <<a>>
    OBVIOUS
  <2>4. fromModule' = <<Access(n)>>
    BY <1>1, <2>2, <2>3
  <2>5. toModule'.frames = <<>> /\ SessionAt("reading")'
    BY <1>1, <2>2 DEF SessionAt
  <2>6. PICK m \in Numbers : m = n
    BY <1>2
  <2>7. module'.at = "handler" /\ Awaits(m)' /\ Passing(<<Access(m)>>, <<>>)'
    BY <1>1, <1>4, <2>4, <2>5, <2>6 DEF Passing, Awaits
  <2> QED
    BY <2>5, <2>7 DEF Exchanging
<1> QED
  BY <1>6, <1>7, <1>9, <1>10, <1>11 DEF Converses

LEMMA ReadAnswerConverses ==
  ASSUME Typed, Places, Conversing, NEW g \in Askers, ReadAnswer(g)
  PROVE  Conversing'
<1> USE DEF Typed
<1> module \in Modules /\ toModule.frames \in Seq(ToModule)
  BY DEF ModuleType, PipesType
<1> DEFINE n == asker[g].number
<1>1. /\ Running /\ module.at = "handler" /\ asker[g].at = "awaiting"
      /\ UNCHANGED <<session, fromModule>>
  BY DEF ReadAnswer, ModuleAt
<1>2. /\ module'.at = "handler" /\ module'.status = module.status
      /\ module'.shut = module.shut /\ module'.deaf = module.deaf
  BY <1>1 DEF ReadAnswer, Modules
<1> SUFFICES ASSUME Converses PROVE Converses'
  BY <1>1 DEF Conversing, BuiltOnSdk
<1>3. \A h \in Askers : asker'[h].at = "idle"
  BY <1>1 DEF ReadAnswer, Converses, SdkPlaces, ModuleType
<1>4. \A m \in Numbers : Awaits(m) => m = n
  BY <1>1 DEF Awaits, Converses, SdkPlaces
<1>5. \/ toModule.frames = <<>>
      \/ n \in Numbers /\ \E a \in AnswersTo(n) : toModule.frames = <<a>>
  BY <1>1, <1>4 DEF Converses, SdkHears
<1>6. toModule'.closed = toModule.closed
  BY DEF ReadAnswer, Takes, PipesType
<1>7. toModule'.frames = <<>> /\ module'.misled = module.misled
  <2>1. CASE UNCHANGED <<module, toModule>> /\ toModule.frames = <<>>
    BY <2>1
  <2>2. ASSUME NEW f \in ToModule, Takes(f),
               module' = IF f \in Answers /\ f.correlation = asker[g].number
                         THEN [module EXCEPT !.told = @ \cup ({f.verdict} \cap Denials)]
                         ELSE [module EXCEPT !.misled = TRUE]
        PROVE  toModule'.frames = <<>> /\ module'.misled = module.misled
    <3>1. /\ toModule.frames # <<>> /\ f = Head(toModule.frames)
          /\ toModule'.frames = Tail(toModule.frames)
      BY <2>2 DEF Takes, Input, PipesType
    <3>2. PICK a \in AnswersTo(n) : n \in Numbers /\ toModule.frames = <<a>>
      BY <1>5, <3>1
    <3>3. f = a /\ toModule'.frames = <<>>
      BY <3>1, <3>2
    <3>4. f \in Answers /\ f.correlation = n
      BY <3>2, <3>3 DEF AnswersTo, Answers, Answer
    <3> QED
      BY <2>2, <3>3, <3>4 DEF Modules
  <2> QED
    BY <2>1, <2>2 DEF ReadAnswer, InputEnded, Input
<1>8. SdkPlaces'
  BY <1>1, <1>2, <1>3, <1>7 DEF Converses, SdkPlaces, Running
<1>9. SdkSays'
  BY <1>1, <1>2, SilenceSays
<1>10. SdkHears'
  BY <1>7 DEF SdkHears
<1>11. SdkErrors'
  BY <1>1, <1>2, <1>6 DEF Converses, SdkErrors
<1>12. SdkTurns'
  <2> SUFFICES ASSUME ~toModule.closed PROVE Closing'
    BY <1>6 DEF SdkTurns
  <2>1. Exchanging
    BY <1>1 DEF Converses, SdkTurns, Opening, Closing, NobodyAwaits
  <2>2. toModule.frames # <<>>
    BY DEF ReadAnswer, Takes, InputEnded, Input
  <2>3. SessionAt("reading") /\ fromModule = <<>>
    BY <2>1, <2>2 DEF Exchanging, Quiet, Passing
  <2> QED
    BY <1>1, <1>2, <1>3, <1>7, <2>3 DEF Closing, NobodyAwaits, Quiet, Passing, SessionAt
<1> QED
  BY <1>8, <1>9, <1>10, <1>11, <1>12 DEF Converses

LEMMA RunCommandConverses ==
  ASSUME Typed, Places, Conversing, RunCommand
  PROVE  Conversing'
<1> USE DEF Typed
<1> module \in Modules
  BY DEF ModuleType
<1>1. /\ Running /\ module.at = "handler" /\ module'.at = "terminal"
      /\ module'.status = module.status /\ module'.shut = module.shut
      /\ module'.deaf = module.deaf /\ module'.misled = module.misled
      /\ UNCHANGED <<session, fromModule, toModule, asker>>
      /\ \A h \in Askers : asker[h].at = "idle"
  BY DEF RunCommand, ModuleAt, Modules
<1> SUFFICES ASSUME Converses PROVE Converses'
  BY <1>1 DEF Conversing, BuiltOnSdk
<1>2. SdkPlaces'
  BY <1>1 DEF Converses, SdkPlaces, Running
<1>3. SdkSays'
  BY <1>1, SilenceSays
<1>4. toModule.frames = <<>>
  BY <1>1 DEF Converses, SdkHears, Awaits
<1>5. SdkHears'
  BY <1>1, <1>4 DEF SdkHears
<1>6. SdkErrors'
  BY <1>1 DEF Converses, SdkErrors
<1>7. SdkTurns'
  <2> SUFFICES ASSUME ~toModule.closed PROVE Closing'
    BY <1>1 DEF SdkTurns
  <2>1. Closing
    BY <1>1 DEF Converses, SdkTurns, Opening, Exchanging, Awaits
  <2> QED
    BY <1>1, <2>1 DEF Closing, NobodyAwaits, Quiet, Passing, SessionAt
<1> QED
  BY <1>2, <1>3, <1>5, <1>6, <1>7 DEF Converses

LEMMA SendTerminalConverses ==
  ASSUME Typed, Places, Conversing, SendTerminal
  PROVE  Conversing'
<1> USE DEF Typed
<1> module \in Modules /\ fromModule \in Seq(FromModule)
  BY DEF ModuleType, PipesType
<1>1. Running /\ module.at = "terminal" /\ UNCHANGED <<session, asker, toModule>>
  BY DEF SendTerminal, ModuleAt
<1>2. CASE module.reply = Plain("tooLarge")
  BY <1>1, <1>2, FailingConverses DEF SendTerminal
<1>3. CASE module.reply # Plain("tooLarge")
  <2> SUFFICES ASSUME Converses PROVE Converses'
    BY <1>1 DEF Conversing, BuiltOnSdk
  <2> DEFINE t == module.reply
  <2>1. /\ module'.at = "exit" /\ module'.status = module.status
        /\ module'.shut = module.shut /\ module'.deaf = module.deaf
        /\ module'.misled = module.misled
        /\ fromModule' = Append(fromModule, t)
        /\ t \in Terminals /\ t \in FromModule
    BY <1>1, <1>3 DEF SendTerminal, ModuleWrites, Modules, ModuleType, FromModule
  <2>2. \A h \in Askers : asker[h].at = "idle"
    BY <1>1 DEF Places
  <2>3. SdkPlaces'
    BY <1>1, <2>1 DEF Converses, SdkPlaces, Running
  <2>4. SdkSays'
    BY <1>1, <2>1, WritingSays
  <2>5. toModule.frames = <<>>
    BY <1>1, <2>2 DEF Converses, SdkHears, Awaits
  <2>6. SdkHears'
    BY <1>1, <2>5 DEF SdkHears
  <2>7. SdkErrors'
    BY <1>1, <2>1 DEF Converses, SdkErrors
  <2>8. SdkTurns'
    <3> SUFFICES ASSUME ~toModule.closed PROVE Closing'
      BY <1>1 DEF SdkTurns
    <3>1. Closing
      BY <1>1 DEF Converses, SdkTurns, Opening, Exchanging
    <3>2. SessionAt("reading") /\ fromModule = <<>>
      BY <1>1, <3>1 DEF Closing, Quiet, Passing
    <3>3. fromModule' = <<t>> /\ toModule'.frames = <<>> /\ SessionAt("reading")'
      BY <1>1, <2>1, <2>5, <3>2 DEF SessionAt
    <3>4. NobodyAwaits'
      BY <1>1, <2>2 DEF NobodyAwaits
    <3> QED
      BY <2>1, <3>3, <3>4 DEF Closing, Passing
  <2> QED
    BY <2>3, <2>4, <2>6, <2>7, <2>8 DEF Converses
<1> QED
  BY <1>2, <1>3

LEMMA ExitConverses ==
  ASSUME Typed, Places, Conversing, Exit
  PROVE  Conversing'
<1> USE DEF Typed
<1> module \in Modules
  BY DEF ModuleType
<1>1. /\ Running /\ module.at = "exit" /\ module'.at = "exit"
      /\ module'.status = "ok" /\ module'.shut = module.shut
      /\ module'.deaf = module.deaf /\ module'.misled = module.misled
      /\ UNCHANGED <<session, fromModule, toModule, asker>>
  BY DEF Exit, ModuleAt, Modules
<1> SUFFICES ASSUME Converses PROVE Converses'
  BY <1>1 DEF Conversing, BuiltOnSdk
<1>2. ~Running'
  BY <1>1 DEF Running
<1>3. SdkPlaces' /\ SdkSays' /\ SdkHears'
  BY <1>1, <1>2 DEF Converses, SdkPlaces, SdkSays, SdkHears
<1>4. SdkErrors'
  <2> SUFFICES ASSUME session.error \in {"no_terminal_message", "truncated_message", "stream_failed"}
               PROVE  toModule.closed
    BY <1>1 DEF Converses, SdkErrors
  <2> QED
    BY <1>1 DEF Converses, SdkErrors, Running
<1>5. SdkTurns'
  <2> SUFFICES ASSUME ~toModule.closed PROVE Closing'
    BY <1>1 DEF SdkTurns
  <2>1. Closing
    BY <1>1 DEF Converses, SdkTurns, Opening, Exchanging
  <2> QED
    BY <1>1, <1>2, <2>1 DEF Closing, NobodyAwaits, Quiet, Passing, SessionAt
<1> QED
  BY <1>3, <1>4, <1>5 DEF Converses

LEMMA ModuleConverses ==
  ASSUME Typed, Places, Conversing, ModuleStep
  PROVE  Conversing'
<1> module \in Modules
  BY DEF Typed, ModuleType
<1>1. CASE AnyStep
  <2>1. module'.at = "any"
    BY <1>1 DEF AnyStep, AnyWrites, AnyReads, AnyCloses, AnyExits, ModuleAt, Modules
  <2> QED
    BY <2>1 DEF Conversing, BuiltOnSdk
<1>2. CASE Crash
  BY <1>2, DyingConverses DEF Crash
<1>3. CASE StartChildren
  <2>1. /\ UNCHANGED <<session, asker, fromModule, toModule>>
        /\ module'.at = module.at /\ module'.status = module.status
        /\ module'.shut = module.shut /\ module'.deaf = module.deaf
        /\ module'.misled = module.misled
    BY <1>3 DEF StartChildren, Modules
  <2> SUFFICES ASSUME BuiltOnSdk, Converses PROVE Converses'
    BY <2>1 DEF Conversing, BuiltOnSdk
  <2>2. SdkPlaces' /\ SdkSays' /\ SdkHears' /\ SdkErrors'
    BY <2>1 DEF Converses, SdkPlaces, SdkSays, SdkHears, SdkErrors, Running, Awaits
  <2>3. SdkTurns'
    BY <2>1 DEF Converses, SdkTurns, Running, Opening, Exchanging, Closing, Passing, Quiet,
         Awaits, NobodyAwaits, SessionAt
  <2> QED
    BY <2>2, <2>3 DEF Converses
<1> QED
  BY <1>1, <1>2, <1>3, SendHelloConverses, ReadWelcomeConverses, ReadInvokeConverses,
     RunCommandConverses, SendTerminalConverses, ExitConverses, AcquireConverses,
     WriteRequestConverses, ReadAnswerConverses
  DEF ModuleStep, SdkStep

-----------------------------------------------------------------------------
(* The session's side of the conversation. *)
\* It takes no step before the module has said hello.
LEMMA SessionFollows ==
  ASSUME Typed, Converses, SessionStep \/ BrokerAnswers
  PROVE  /\ session.error = "none" /\ session.at \notin {"unborn", "ended"}
         /\ module.status # "unborn"
         /\ ~(Running /\ module.at = "hello")
<1> USE DEF Typed
<1>1. session.at \notin {"unborn", "ended"}
  BY DEF SessionStep, BrokerAnswers, Handshake, Welcome, SendInvoke, ReadTerminal, AnswerAccess,
         ExpectNoFurtherMessages, SessionAt
<1>2. module.status # "unborn"
  BY <1>1 DEF Converses, SdkPlaces
<1>3. ASSUME Running, module.at = "hello" PROVE FALSE
  <2>1. session.at = "hello" /\ fromModule = <<>> /\ WriterLives
    BY <1>3 DEF Converses, SdkPlaces, WriterLives
  <2>2. Handshake
    BY <2>1 DEF SessionStep, BrokerAnswers, Welcome, SendInvoke, ReadTerminal, AnswerAccess,
                ExpectNoFurtherMessages, SessionAt
  <2> QED
    BY <2>1, <2>2 DEF Handshake, ReadProblem, Reads, Arrived, StreamEnded
<1> QED
  BY <1>1, <1>2, <1>3 DEF SessionType

\* So the module's place stays what it was.
LEMMA SessionPlaces ==
  ASSUME Typed, Converses, SessionStep \/ BrokerAnswers
  PROVE  SdkPlaces' /\ UNCHANGED <<module, asker>>
<1>1. UNCHANGED <<module, asker>>
  BY SessionFrame
<1> QED
  BY <1>1, SessionFollows DEF Converses, SdkPlaces, Running

\* The stream of a module that wrote and exited well ends behind what it wrote.
LEMMA StreamBroken ==
  ASSUME Typed, Converses, session.at \notin {"unborn", "ended"}, module.status # "unborn",
         \/ StreamEnded /\ ~(session.at = "tail" /\ ~Truncated)
         \/ ~ReaderLives /\ session.at \notin {"reading", "tail"}
  PROVE  module.status \in {"failed", "killed"} \/ toModule.closed
<1> USE DEF Typed
<1>1. ~Running
  BY DEF Converses, SdkPlaces, StreamEnded, WriterLives, ReaderLives
<1> SUFFICES ASSUME module.status = "ok", ~toModule.closed PROVE FALSE
  BY <1>1 DEF Running, ModuleType, Modules
<1>2. module.at = "exit"
  BY DEF Converses, SdkPlaces
<1>3. Closing
  BY <1>2 DEF Converses, SdkTurns, Opening, Exchanging
<1>4. CASE SessionAt("reading") /\ \E t \in Terminals : Passing(<<t>>, <<>>)
  <2>1. PICK t \in Terminals : fromModule = <<t>>
    BY <1>4 DEF Passing
  <2>2. t # Cut /\ Head(<<t>>) = t /\ <<t>> # <<>>
    BY Apart DEF Cut
  <2> QED
    BY <1>4, <2>1, <2>2 DEF StreamEnded, Arrived, SessionAt
<1>5. CASE SessionAt("tail") /\ Quiet
  BY <1>5 DEF SessionAt, Quiet, Passing, Truncated
<1> QED
  BY <1>2, <1>3, <1>4, <1>5 DEF Closing, SessionAt

\* The session ends because of the module's end, or of the shell's.
LEMMA BrokenConverses ==
  ASSUME Typed, Converses, SessionStep \/ BrokerAnswers, UNCHANGED toModule,
         NEW e \in {"no_terminal_message", "truncated_message", "stream_failed"},
         session' = Failed(e),
         module.status \in {"failed", "killed"} \/ toModule.closed
  PROVE  Converses'
<1> USE DEF Typed
<1>1. session'.at = "ended" /\ session'.error = e
  BY DEF Failed, SessionType, Sessions
<1>2. SdkPlaces' /\ UNCHANGED <<module, asker>>
  BY SessionPlaces
<1>3. SdkSays' /\ SdkErrors'
  BY <1>1, <1>2 DEF SdkSays, SdkErrors
<1>4. SdkHears'
  BY <1>2 DEF Converses, SdkHears, Running, Awaits
<1>5. SdkTurns'
  BY <1>2 DEF SdkTurns, Running
<1> QED
  BY <1>2, <1>3, <1>4, <1>5 DEF Converses

\* A read finds the stream at its end; it never finds a damaged message.
LEMMA ReadProblemConverses ==
  ASSUME Typed, Converses, SessionStep \/ BrokerAnswers, ReadProblem,
         session.at = "tail" /\ StreamEnded => Truncated
  PROVE  Converses'
<1> USE DEF Typed
<1> fromModule \in Seq(FromModule)
  BY DEF PipesType
<1>1. session.error = "none" /\ session.at \notin {"unborn", "ended"} /\ module.status # "unborn"
  BY SessionFollows
<1>2. ~(Arrived /\ Head(fromModule) = Plain("damaged"))
  <2> SUFFICES ASSUME fromModule # <<>>, Head(fromModule) = Plain("damaged") PROVE FALSE
    BY DEF Arrived
  <2>1. 1 \in DOMAIN fromModule /\ fromModule[1] = Plain("damaged")
    OBVIOUS
  <2>2. Plain("damaged") \in {Plain("hello"), Cut} \cup Requests \cup Terminals
    BY <1>1, <2>1 DEF Converses, SdkSays
  <2> QED
    BY <2>2, Apart DEF Cut
<1>3. StreamEnded /\ UNCHANGED toModule
  BY <1>2 DEF ReadProblem
<1>4. module.status \in {"failed", "killed"} \/ toModule.closed
  BY <1>1, <1>3, StreamBroken
<1>5. \E e \in {"no_terminal_message", "truncated_message"} : session' = Failed(e)
  BY <1>2 DEF ReadProblem
<1> QED
  BY <1>3, <1>4, <1>5, BrokenConverses

\* Frames added to a pipe that holds none, or one.
LEMMA ShortSequences ==
  /\ \A a : Append(<<>>, a) = <<a>>
  /\ \A a, b : Append(<<a>>, b) = <<a, b>>
<1>1. \A a : Append(<<>>, a) = <<a>>
  OBVIOUS
<1>2. ASSUME NEW a, NEW b PROVE Append(<<a>>, b) = <<a, b>>
  <2>1. <<a>> \in Seq({a, b}) /\ <<a, b>> \in Seq({a, b}) /\ b \in {a, b}
    OBVIOUS
  <2>2. Append(<<a>>, b) \in Seq({a, b})
    BY <2>1
  <2>3. /\ Len(Append(<<a>>, b)) = 2
        /\ Append(<<a>>, b)[1] = a /\ Append(<<a>>, b)[2] = b
    BY <2>1
  <2> DEFINE s == Append(<<a>>, b)
             t == <<a, b>>
  <2>4. s \in [1..2 -> {a, b}] /\ t \in [1..2 -> {a, b}]
    <3>1. \A q \in Seq({a, b}) : q \in [1..Len(q) -> {a, b}]
      OBVIOUS
    <3>2. Len(t) = 2 /\ Len(s) = 2
      BY <2>3
    <3> QED
      BY <2>1, <2>2, <3>1, <3>2
  <2>5. \A i \in 1..2 : s[i] = t[i]
    BY <2>3
  <2> HIDE DEF s, t
  <2>6. s = t
    BY <2>4, <2>5
  <2> QED
    BY <2>6 DEF s, t
<1> QED
  BY <1>1, <1>2

\* What the session sends is what the module waits for next.
LEMMA SendingConverses ==
  ASSUME Typed, Converses, SessionStep \/ BrokerAnswers, UNCHANGED fromModule, NEW f, NEW next,
         ~toModule.closed, toModule' = [toModule EXCEPT !.frames = Append(@, f)],
         session' = [session EXCEPT !.at = next, !.pending = None],
         \/ session.at = "welcome" /\ f = Plain("welcome") /\ next = "invoke"
         \/ session.at = "invoke" /\ f = Plain("invoke") /\ next = "reading"
         \/ session.at = "answer" /\ f = session.pending /\ next = "reading"
  PROVE  Converses'
<1> USE DEF Typed
<1>1. session'.at = next /\ session'.error = session.error /\ session.error = "none"
  BY SessionFollows DEF SessionType, Sessions
<1>2. SdkPlaces' /\ UNCHANGED <<module, asker>>
  BY SessionPlaces
<1>3. /\ \A a : Append(<<>>, a) = <<a>>
      /\ \A a, b : Append(<<a>>, b) = <<a, b>>
  BY ShortSequences
<1>4. toModule'.frames = Append(toModule.frames, f) /\ toModule'.closed = toModule.closed
  BY DEF PipesType
<1>5. SdkSays'
  BY <1>1, <1>2 DEF Converses, SdkSays, Running
<1>6. SdkErrors'
  BY <1>1 DEF SdkErrors
<1>7. SdkTurns' /\ SdkHears'
  <2> SUFFICES ASSUME Running \/ module.status = "ok"
               PROVE  SdkTurns' /\ SdkHears'
    BY <1>2 DEF SdkTurns, SdkHears, Running
  <2>1. Opening \/ Exchanging
    BY DEF Converses, SdkTurns, Closing, SessionAt
  <2>2. CASE session.at = "welcome"
    <3>1. module.at = "welcome" /\ Quiet
      BY <2>1, <2>2 DEF Opening, Exchanging, SessionAt
    <3>2. next = "invoke" /\ Passing(<<>>, <<Plain("welcome")>>)'
      BY <1>3, <1>4, <2>2, <3>1 DEF Quiet, Passing
    <3> QED
      BY <1>1, <1>2, <3>1, <3>2 DEF SdkTurns, SdkHears, Opening, SessionAt, Passing
  <2>3. CASE session.at = "invoke"
    <3>1. \/ module.at = "welcome" /\ Passing(<<>>, <<Plain("welcome")>>)
          \/ module.at = "invoke" /\ Quiet
      BY <2>1, <2>3 DEF Opening, Exchanging, SessionAt
    <3>2. /\ next = "reading"
          /\ \/ module.at = "welcome" /\ Passing(<<>>, <<Plain("welcome"), Plain("invoke")>>)'
             \/ module.at = "invoke" /\ Passing(<<>>, <<Plain("invoke")>>)'
      BY <1>3, <1>4, <2>3, <3>1 DEF Quiet, Passing
    <3> QED
      BY <1>1, <1>2, <3>2 DEF SdkTurns, SdkHears, Opening, SessionAt, Passing
  <2>4. CASE session.at = "answer"
    <3>1. PICK n \in Numbers : Awaits(n) /\ session.pending \in AnswersTo(n) /\ Quiet
      BY <2>1, <2>4 DEF Opening, Exchanging, SessionAt
    <3>2. next = "reading" /\ Awaits(n)' /\ Passing(<<>>, <<f>>)' /\ f \in AnswersTo(n)
      BY <1>2, <1>3, <1>4, <2>4, <3>1 DEF Quiet, Passing, Awaits
    <3>3. module.at = "handler"
      BY <2>1, <2>4 DEF Opening, Exchanging, SessionAt
    <3>4. AnswersTo(n)' = AnswersTo(n)
      BY DEF AnswersTo
    <3>5. Exchanging'
      BY <1>1, <1>2, <3>2, <3>3, <3>4 DEF Exchanging, SessionAt
    <3>6. SdkHears'
      BY <3>2, <3>4 DEF SdkHears, Passing
    <3> QED
      BY <3>5, <3>6 DEF SdkTurns
  <2> QED
    BY <2>2, <2>3, <2>4
<1> QED
  BY <1>2, <1>5, <1>6, <1>7 DEF Converses

LEMMA WriteConverses ==
  ASSUME Typed, Converses, Welcome \/ SendInvoke \/ AnswerAccess
  PROVE  Converses'
<1>1. UNCHANGED fromModule /\ (SessionStep \/ BrokerAnswers)
  BY DEF Welcome, SendInvoke, AnswerAccess, Write, SessionStep
<1>2. PICK f, next :
        /\ Write(f, next)
        /\ \/ session.at = "welcome" /\ f = Plain("welcome") /\ next = "invoke"
           \/ session.at = "invoke" /\ f = Plain("invoke") /\ next = "reading"
           \/ session.at = "answer" /\ f = session.pending /\ next = "reading"
  <2>1. CASE Welcome
    BY <2>1 DEF Welcome, SessionAt
  <2>2. CASE SendInvoke
    BY <2>2 DEF SendInvoke, SessionAt
  <2>3. CASE AnswerAccess
    BY <2>3 DEF AnswerAccess, SessionAt
  <2> QED
    BY <2>1, <2>2, <2>3
<1>3. CASE /\ ~toModule.closed
           /\ toModule' = [toModule EXCEPT !.frames = Append(@, f)]
           /\ session' = [session EXCEPT !.at = next, !.pending = None]
  BY <1>1, <1>2, <1>3, SendingConverses
<1>4. CASE /\ toModule.closed \/ ~ReaderLives
           /\ session' = Failed("stream_failed")
           /\ UNCHANGED toModule
  <2>1. module.status # "unborn" /\ session.at \notin {"unborn", "ended", "reading", "tail"}
    BY <1>1, <1>2, SessionFollows
  <2>2. module.status \in {"failed", "killed"} \/ toModule.closed
    BY <1>4, <2>1, StreamBroken
  <2> QED
    BY <1>1, <1>4, <2>2, BrokenConverses
<1> QED
  BY <1>2, <1>3, <1>4 DEF Write

LEMMA BrokerConverses ==
  ASSUME Typed, Converses, BrokerAnswers
  PROVE  Converses'
<1> USE DEF Typed
<1> DEFINE n == session.pending.correlation
<1>1. SdkPlaces' /\ UNCHANGED <<module, asker, fromModule, toModule>>
  BY SessionPlaces DEF BrokerAnswers
<1>2. session.at = "broker" /\ session.error = "none"
  BY SessionFollows DEF BrokerAnswers, SessionAt
<1>3. PICK verdict \in {Plain("granted")} \cup {Denial(code, n) : code \in Codes} :
        session' = [session EXCEPT !.at = "answer", !.pending = Answer(n, verdict),
                !.issued = IF verdict \in Denials THEN Append(@, verdict) ELSE @]
  BY DEF BrokerAnswers
<1>4. session'.at = "answer" /\ session'.error = "none" /\ session'.pending = Answer(n, verdict)
  BY <1>2, <1>3 DEF SessionType, Sessions
<1>5. SdkSays' /\ SdkErrors' /\ SdkHears'
  BY <1>1, <1>2, <1>4 DEF Converses, SdkSays, SdkErrors, SdkHears, Running, Awaits
<1>6. SdkTurns'
  <2> SUFFICES ASSUME ~toModule.closed, Running \/ module.status = "ok"
               PROVE  Exchanging'
    BY <1>1 DEF SdkTurns, Running
  <2>1. Exchanging
    BY <1>2 DEF Converses, SdkTurns, Opening, Closing, SessionAt
  <2>2. PICK m \in Numbers : Awaits(m) /\ session.pending = Access(m) /\ Quiet
    BY <1>2, <2>1 DEF Exchanging, SessionAt
  <2>3. n = m
    BY <2>2 DEF Access
  <2>4. session'.pending \in AnswersTo(m)
    BY <1>3, <1>4, <2>2, <2>3 DEF AnswersTo, Denials
  <2>5. Awaits(m)' /\ Quiet' /\ module'.at = "handler"
    BY <1>1, <2>1, <2>2 DEF Awaits, Quiet, Passing, Exchanging
  <2>6. AnswersTo(m)' = AnswersTo(m)
    BY DEF AnswersTo
  <2> QED
    BY <1>4, <2>4, <2>5, <2>6 DEF Exchanging, SessionAt
<1> QED
  BY <1>1, <1>5, <1>6 DEF Converses

\* What is left once the session has read the first of what the module wrote.
LEMMA ReadingSays ==
  ASSUME Typed, Converses, session.error = "none", NEW f \in FromModule, Reads(f),
         session'.at \notin {"unborn", "hello", "ended"}, UNCHANGED module,
         session'.at = "tail" => f \in Terminals
  PROVE  SdkSays'
<1> USE DEF Typed
<1> fromModule \in Seq(FromModule)
  BY DEF PipesType
<1>1. fromModule # <<>> /\ f = fromModule[1] /\ fromModule' = Tail(fromModule)
  BY DEF Reads, Arrived
<1>2. /\ Len(fromModule') = Len(fromModule) - 1 /\ DOMAIN fromModule' = 1..Len(fromModule')
      /\ \A i \in DOMAIN fromModule' : /\ i + 1 \in DOMAIN fromModule /\ i \in Nat \ {0}
                                       /\ fromModule'[i] = fromModule[i + 1]
      /\ Len(fromModule) \in Nat /\ 1 \in DOMAIN fromModule
  BY <1>1
<1>3. ASSUME NEW i \in DOMAIN fromModule'
      PROVE  /\ fromModule'[i] \in {Plain("hello"), Cut} \cup Requests \cup Terminals
             /\ fromModule'[i] = Plain("hello") => i = 1 /\ session'.at \in {"unborn", "hello"}
             /\ fromModule'[i] \in Terminals => i = Len(fromModule') /\ module'.at = "exit"
             /\ fromModule'[i] = Cut => i = Len(fromModule') /\ ~Running' /\ module'.at # "exit"
  <2>1. /\ fromModule'[i] \in {Plain("hello"), Cut} \cup Requests \cup Terminals
        /\ fromModule'[i] = Plain("hello") => i + 1 = 1
        /\ fromModule'[i] \in Terminals => i + 1 = Len(fromModule) /\ module.at = "exit"
        /\ fromModule'[i] = Cut => i + 1 = Len(fromModule) /\ ~Running /\ module.at # "exit"
    BY <1>2 DEF Converses, SdkSays
  <2> QED
    BY <1>2, <2>1 DEF Running
<1>4. ASSUME f \in Terminals PROVE module.at = "exit" /\ fromModule' = <<>>
  <2>1. 1 = Len(fromModule) /\ module.at = "exit"
    BY <1>1, <1>2, <1>4 DEF Converses, SdkSays
  <2> QED
    BY <1>1, <2>1
<1> QED
  BY <1>3, <1>4 DEF SdkSays

\* The first of what it wrote is what the session is ready for.
LEMMA ReadingFinds ==
  ASSUME Typed, Converses, session.error = "none", NEW f \in FromModule, Reads(f)
  PROVE  /\ fromModule # <<>> /\ fromModule' = Tail(fromModule)
         /\ \A g : fromModule = <<g>> => f = g /\ fromModule' = <<>>
         /\ session.at = "hello" => f = Plain("hello")
         /\ session.at = "reading" => f \in Requests \cup Terminals
         /\ session.at # "tail"
<1> USE DEF Typed
<1> fromModule \in Seq(FromModule)
  BY DEF PipesType
<1>1. fromModule # <<>> /\ f = Head(fromModule) /\ f # Cut /\ fromModule' = Tail(fromModule)
  BY DEF Reads, Arrived
<1>2. f = fromModule[1] /\ 1 \in DOMAIN fromModule
  BY <1>1
<1>3. \A g : Head(<<g>>) = g /\ Tail(<<g>>) = <<>>
  OBVIOUS
<1> QED
  BY <1>1, <1>2, <1>3 DEF Converses, SdkSays

\* Reading on, as the turns have it.
LEMMA ReadingConverses ==
  ASSUME Typed, Converses, SessionStep \/ BrokerAnswers, NEW f \in FromModule, Reads(f),
         session'.error = "none",
         \/ session.at = "hello" /\ session'.at = "welcome"
         \/ /\ session.at = "reading" /\ f \in Requests
            /\ session'.at = "broker" /\ session'.pending = f
         \/ session.at = "reading" /\ f \in Terminals /\ session'.at = "tail"
  PROVE  Converses'
<1>1. SdkPlaces' /\ UNCHANGED <<module, asker, toModule>> /\ session.error = "none"
  BY SessionPlaces, SessionFollows DEF Reads
<1>2. SdkSays'
  BY <1>1, ReadingSays
<1>3. SdkHears' /\ SdkErrors'
  BY <1>1 DEF Converses, SdkHears, SdkErrors, Running, Awaits
<1>4. SdkTurns'
  <2> SUFFICES ASSUME ~toModule.closed, Running \/ module.status = "ok"
               PROVE  (Opening \/ Exchanging \/ Closing)'
    BY <1>1 DEF SdkTurns, Running
  <2>1. /\ fromModule # <<>>
        /\ \A g : fromModule = <<g>> => f = g /\ fromModule' = <<>>
    BY <1>1, ReadingFinds
  <2>2. Opening \/ Exchanging \/ Closing
    BY DEF Converses, SdkTurns
  <2>3. CASE session.at = "hello" /\ session'.at = "welcome"
    <3>1. module.at = "welcome" /\ Passing(<<Plain("hello")>>, <<>>)
      BY <2>1, <2>2, <2>3 DEF Opening, Exchanging, Closing, SessionAt, Quiet, Passing
    <3>2. Opening'
      BY <1>1, <2>1, <2>3, <3>1 DEF Opening, SessionAt, Quiet, Passing
    <3> QED
      BY <3>2
  <2>4. CASE /\ session.at = "reading" /\ f \in Requests
             /\ session'.at = "broker" /\ session'.pending = f
    <3>1. f \notin Terminals
      BY <2>4, Apart
    <3>2. Exchanging
      BY <2>1, <2>2, <2>4, <3>1 DEF Opening, Closing, SessionAt, Quiet, Passing
    <3>3. PICK n \in Numbers : Awaits(n) /\ Passing(<<Access(n)>>, <<>>)
      BY <2>1, <2>4, <3>2 DEF Exchanging, SessionAt, Quiet, Passing
    <3>4. f = Access(n) /\ Quiet' /\ Awaits(n)'
      BY <1>1, <2>1, <3>3 DEF Quiet, Passing, Awaits
    <3>5. Exchanging'
      BY <1>1, <2>4, <3>2, <3>4 DEF Exchanging, SessionAt
    <3> QED
      BY <3>5
  <2>5. CASE session.at = "reading" /\ f \in Terminals /\ session'.at = "tail"
    <3>1. f \notin Requests /\ \A n \in Numbers : Access(n) \in Requests
      BY <2>5, Apart DEF Requests
    <3>2. Closing
      BY <2>1, <2>2, <2>5, <3>1 DEF Opening, Exchanging, SessionAt, Quiet, Passing
    <3>3. module.at = "exit" /\ \E t \in Terminals : Passing(<<t>>, <<>>)
      BY <2>1, <2>5, <3>2 DEF Closing, SessionAt, Quiet, Passing
    <3>4. Closing'
      BY <1>1, <2>1, <2>5, <3>2, <3>3 DEF Closing, NobodyAwaits, SessionAt, Quiet, Passing
    <3> QED
      BY <3>4
  <2> QED
    BY <2>3, <2>4, <2>5
<1> QED
  BY <1>1, <1>2, <1>3, <1>4 DEF Converses

\* The module asks once too often.
LEMMA TooManyConverses ==
  ASSUME Typed, Converses, SessionStep \/ BrokerAnswers, NEW f \in Requests, Reads(f),
         session.at = "reading", session'.at = "ended", session'.error = "too_many_access_requests"
  PROVE  Converses'
<1>1. SdkPlaces' /\ UNCHANGED <<module, asker, toModule>> /\ session.error = "none"
  BY SessionPlaces, SessionFollows DEF Reads
<1>2. SdkHears' /\ SdkErrors' /\ SdkSays'
  BY <1>1 DEF Converses, SdkHears, SdkErrors, SdkSays, Running, Awaits
<1>3. SdkTurns'
  <2> SUFFICES ASSUME ~toModule.closed, Running \/ module.status = "ok"
               PROVE  Exchanging'
    BY <1>1 DEF SdkTurns, Running
  <2>1. /\ fromModule # <<>> /\ f \notin Terminals
        /\ \A g : fromModule = <<g>> => f = g /\ fromModule' = <<>>
    BY <1>1, ReadingFinds, Apart DEF FromModule
  <2>2. Exchanging
    BY <2>1 DEF Converses, SdkTurns, Opening, Closing, SessionAt, Quiet, Passing
  <2>3. PICK n \in Numbers : Awaits(n) /\ Passing(<<Access(n)>>, <<>>)
    BY <2>1, <2>2 DEF Exchanging, SessionAt, Quiet, Passing
  <2>4. Quiet' /\ Awaits(n)'
    BY <1>1, <2>1, <2>3 DEF Quiet, Passing, Awaits
  <2> QED
    BY <1>1, <2>2, <2>4 DEF Exchanging, SessionAt
<1> QED
  BY <1>1, <1>2, <1>3 DEF Converses

LEMMA SessionConverses ==
  ASSUME Typed, Converses, SessionStep \/ BrokerAnswers
  PROVE  Converses'
<1> USE DEF Typed
<1> session \in Sessions
  BY DEF SessionType
<1>1. session.error = "none"
  BY SessionFollows
<1>2. CASE Handshake
  <2>1. ASSUME NEW f \in FromModule, Reads(f),
               session' = CASE f = Plain("hello") -> [session EXCEPT !.at = "welcome"]
                            [] f = Plain("wrongHello") -> Failed("trust")
                            [] OTHER -> Failed("unexpected_message")
        PROVE  Converses'
    <3>1. session.at = "hello" /\ f = Plain("hello")
      BY <1>1, <1>2, <2>1, ReadingFinds DEF Handshake, SessionAt
    <3>2. session' = [session EXCEPT !.at = "welcome"]
      <4>1. f # Plain("wrongHello")
        BY <3>1, Apart
      <4> QED
        BY <2>1, <3>1, <4>1
    <3>3. session'.at = "welcome" /\ session'.error = "none"
      BY <1>1, <3>2 DEF Sessions
    <3> QED
      BY <2>1, <3>1, <3>3, ReadingConverses
  <2>2. session.at # "tail"
    BY <1>2 DEF Handshake, SessionAt
  <2> QED
    BY <1>2, <2>1, <2>2, ReadProblemConverses DEF Handshake
<1>3. CASE ReadTerminal
  <2>1. session.at = "reading"
    BY <1>3 DEF ReadTerminal, SessionAt
  <2>2. ASSUME NEW f \in FromModule, Reads(f),
               session' = CASE f = Plain("foreign") -> Failed("invocation_mismatch")
                            [] f \in Requests \cup {Plain("uncorrelated")} -> Asked(f)
                            [] f \in {Plain("result"), OwnProblem} -> Answered(f)
                            [] f \in Denials -> Answered(Restored(f))
                            [] f = Plain("unrenderable") -> Failed("invalid_terminal")
                            [] OTHER -> Failed("unexpected_message")
        PROVE  Converses'
    <3>1. f \in Requests \cup Terminals
      BY <1>1, <2>1, <2>2, ReadingFinds
    <3>2. CASE f \in Requests
      <4>1. f # Plain("foreign") /\ f # Plain("uncorrelated")
        BY <3>2, Apart
      <4>2. /\ f \in Requests \cup {Plain("uncorrelated")} /\ f # Plain("foreign")
            /\ f \notin {Plain("result"), OwnProblem} /\ f \notin Denials
            /\ f # Plain("unrenderable")
        BY <3>2, <4>1, Apart
      <4>4. session' = Asked(f)
        BY <2>2, <4>2
      <4>3. \/ session'.at = "broker" /\ session'.pending = f /\ session'.error = "none"
            \/ session'.at = "ended" /\ session'.error = "too_many_access_requests"
        BY <1>1, <4>1, <4>4 DEF Asked, Failed, Sessions
      <4> QED
        BY <2>1, <2>2, <3>2, <4>3, ReadingConverses, TooManyConverses
    <3>3. CASE f \in Terminals
      <4>1. /\ f # Plain("foreign") /\ f \notin Requests \cup {Plain("uncorrelated")}
            /\ f # Plain("unrenderable")
            /\ f \in {Plain("result"), OwnProblem} \cup Denials
        BY <3>3, Apart
      <4>2. session' = Answered(f) \/ session' = Answered(Restored(f))
        BY <2>2, <4>1
      <4>3. session'.at = "tail" /\ session'.error = "none"
        BY <1>1, <4>2 DEF Answered, Sessions
      <4> QED
        BY <2>1, <2>2, <3>3, <4>3, ReadingConverses
    <3> QED
      BY <3>1, <3>2, <3>3
  <2> QED
    BY <1>3, <2>1, <2>2, ReadProblemConverses DEF ReadTerminal
<1>4. CASE ExpectNoFurtherMessages
  <2>1. session.at = "tail" /\ fromModule = <<>> /\ module.at = "exit"
    BY <1>1, <1>4 DEF ExpectNoFurtherMessages, SessionAt, Converses, SdkSays
  <2>2. \A f \in FromModule : ~Reads(f)
    BY <2>1 DEF Reads, Arrived
  <2>3. ~((StreamEnded => Truncated) /\ ReadProblem)
    BY <2>1 DEF ReadProblem, Arrived, Truncated
  <2>4. /\ StreamEnded /\ session' = [session EXCEPT !.at = "ended"]
        /\ UNCHANGED <<toModule, fromModule>>
    BY <1>4, <2>2, <2>3 DEF ExpectNoFurtherMessages
  <2>5. session'.at = "ended" /\ session'.error = "none"
    BY <1>1, <2>4 DEF Sessions
  <2>6. SdkPlaces' /\ UNCHANGED <<module, asker>>
    BY SessionPlaces
  <2>7. SdkSays' /\ SdkErrors'
    BY <2>1, <2>4, <2>5, <2>6 DEF SdkSays, SdkErrors
  <2>8. SdkHears'
    BY <2>4, <2>6 DEF Converses, SdkHears, Running, Awaits
  <2>9. SdkTurns'
    <3> SUFFICES ASSUME ~toModule.closed, Running \/ module.status = "ok"
                 PROVE  Closing'
      BY <2>4, <2>6 DEF SdkTurns, Running
    <3>1. Closing
      BY <2>1 DEF Converses, SdkTurns, Opening, Exchanging, SessionAt
    <3>2. ~Running
      BY <2>4 DEF StreamEnded, WriterLives, Converses, SdkPlaces
    <3> QED
      BY <2>1, <2>5, <2>6, <3>1, <3>2 DEF Closing, NobodyAwaits, SessionAt, Running
  <2> QED
    BY <2>6, <2>7, <2>8, <2>9 DEF Converses
<1> QED
  BY <1>2, <1>3, <1>4, WriteConverses, BrokerConverses DEF SessionStep

LEMMA NextConversing ==
  ASSUME Typed, Life, Places, Conversing, [Next]_vars
  PROVE  Conversing'
<1>1. CASE LauncherStep \/ Cancelled
  <2>1. CASE Launch
    BY <2>1, LaunchConverses
  <2>2. CASE ~Launch
    <3>1. UNCHANGED <<session, asker>>
      BY <1>1, <2>2, LauncherFrame
    <3>2. \/ UNCHANGED <<module, fromModule>>
          \/ Running /\ Dies("killed") /\ UNCHANGED toModule
      BY <1>1, <2>2 DEF LauncherStep, Cancelled, Select, CloseInput, AwaitSession, AwaitExit, Kill
    <3>3. toModule'.frames = toModule.frames /\ (toModule.closed => toModule'.closed)
      <4>1. CASE CloseInput
        BY <4>1 DEF CloseInput, Typed, PipesType
      <4> QED
        BY <1>1, <4>1, LauncherFrame
    <3> QED
      BY <3>1, <3>2, <3>3, IdleConverses, DyingConverses
  <2> QED
    BY <2>1, <2>2
<1>2. CASE SessionStep \/ BrokerAnswers
  <2>1. UNCHANGED module
    BY <1>2, SessionFrame
  <2> QED
    BY <1>2, <2>1, SessionConverses DEF Conversing, BuiltOnSdk
<1>3. CASE ModuleStep
  BY <1>3, ModuleConverses
<1>4. CASE Tick \/ UNCHANGED vars
  <2>1. UNCHANGED <<module, session, asker, fromModule, toModule>>
    BY <1>4 DEF Tick, vars
  <2> QED
    BY <2>1, IdleConverses
<1> QED
  BY <1>1, <1>2, <1>3, <1>4, Steps

(* A module built on the SDK is never refused for what it says, and never told
   what it did not ask for: whichever side's turn it is, what is on its way is
   what the other side waits for (serve.go:113-153, broker.go:103-107, 160-167). *)
THEOREM SdkIsUnderstood == Spec => []SdkUnderstood
<1>1. Conversing => SdkUnderstood
  BY DEF Conversing, Converses, SdkPlaces, SdkErrors, SdkUnderstood
<1>2. Init => Conversing
  BY InitConversing
<1>3. IInv /\ Conversing /\ [Next]_vars => Conversing'
  BY NextConversing DEF IInv
<1> QED
  BY <1>1, <1>2, <1>3, Invariance, PTL DEF Spec

=============================================================================
