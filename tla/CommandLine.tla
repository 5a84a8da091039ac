----------------------------- MODULE CommandLine -----------------------------
(***************************************************************************)
(* From a typed line to the command that runs: the shell's own commands,   *)
(* help, the answers to commands that were removed, and the products,      *)
(* whose lines are read against the tree that the receipt Updates installed*)
(* carries and forwarded to the module.                                    *)
(*                                                                         *)
(* A line is [early, name, args]: the flags before the first word, that    *)
(* word, and what follows it.                                              *)
(***************************************************************************)
EXTENDS Updates, ProductLine

CONSTANTS
  Modules,       \* per namespace: the Cobra tree its module is built with
  LoginProviders,\* the namespaces whose descriptor logs contexts in
  Lines          \* what is typed

VARIABLE typed   \* the line somebody typed

commandVars == <<updateVars, typed>>

NoLine == [early |-> <<>>, name |-> "", args |-> <<>>]

Declarations == [ns \in DOMAIN Modules |-> Declare(Modules[ns])]

(* FromReceipt: the tree of the receipt, and of nothing else. *)
FromReceipt(ns) == IF store[ns].receipt.tree = "declared" THEN Declarations[ns] ELSE {}

Refuses(code) == [does |-> "refuses", code |-> code]
Helps(ns, path) == [does |-> "helps", ns |-> ns, path |-> path]

-----------------------------------------------------------------------------
(* The root command and the shell's own: which shell flags each declares. *)
BoolFlag(name, shorthand) ==
  [name |-> name, shorthand |-> shorthand, type |-> "bool", noOptDefault |-> "true"]
TextFlag(name, shorthand) ==
  [name |-> name, shorthand |-> shorthand, type |-> "string", noOptDefault |-> ""]

persistentFlags == {BoolFlag("help", "h"), BoolFlag("verbose", "")}
declareContextFlag == TextFlag("context", "")
declareOutputFlag == TextFlag("output", "o")

rootFlags == persistentFlags \cup {declareContextFlag, declareOutputFlag}

loginFlags == {declareContextFlag, BoolFlag("no-input", "")}
logoutFlags == {declareContextFlag, declareOutputFlag}

ShellCommands == {"login", "logout", "version"}

ownFlags(name) ==
  CASE name = "login" -> loginFlags
    [] name = "logout" -> logoutFlags
    [] name = "version" -> {}

Declares(name, flag) == \E f \in ownFlags(name) : f.name = flag

Given(parsed, flag) == {s.value : s \in {t \in parsed.set : t.flag = flag}}

(* flagProblem: a flag the root knows and the command does not is a shell flag
   written where it does not belong. *)
flagProblem(parsed) ==
  IF parsed.refused = "needs a value" THEN "shell.flag_needs_value"
  ELSE IF \E f \in rootFlags : f.name = parsed.flag \/ f.shorthand = parsed.flag
  THEN "shell.unsupported_flag" ELSE "shell.unknown_flag"

(* refuseShellFlagsWrittenEarly. *)
WrittenEarly(name, early) ==
  \E flag \in {"context", "output"} : Given(early, flag) # {} /\ ~Declares(name, flag)

(* shellFlag: what was written after the command, or else before it. *)
shellFlag(name, early, late, flag, otherwise) ==
  CASE ~Declares(name, flag) -> otherwise
    [] Declares(name, flag) /\ Given(late, flag) # {} -> CHOOSE v \in Given(late, flag) : TRUE
    [] Declares(name, flag) /\ Given(late, flag) = {} /\ Given(early, flag) # {} ->
         CHOOSE v \in Given(early, flag) : TRUE
    [] OTHER -> otherwise

RunParsed(line, early, late) ==
  LET mode == shellFlag(line.name, early, late, "output", "table")
  IN  IF "refused" \in DOMAIN early THEN Refuses(flagProblem(early))
      ELSE IF "refused" \in DOMAIN late THEN Refuses(flagProblem(late))
      ELSE IF "true" \in Given(early, "help") \cup Given(late, "help") THEN Helps("", <<line.name>>)
      ELSE IF late.words # <<>> THEN Refuses("shell.unexpected_argument")
      ELSE IF WrittenEarly(line.name, early) THEN Refuses("shell.unsupported_flag")
      ELSE IF mode \notin Modes THEN Refuses("shell.unknown_output_mode")
      ELSE [does |-> "runs", command |-> line.name, mode |-> mode,
            context |-> shellFlag(line.name, early, late, "context", "")]

RunShellCommand(line) ==
  RunParsed(line, ParseFlags(rootFlags, line.early),
            ParseFlags(ownFlags(line.name) \cup persistentFlags, line.args))

-----------------------------------------------------------------------------
(* What the shell used to own.  splitOldLine takes a removed line apart: a
   flag claims the next word unless it stands alone. *)
OldBooleans == {"gateway", "replace", "no-input", "verbose"}

IsLong(word) == word.form \in {"long", "attached"}

splitOldLine(args) ==
  LET Claims(i) == /\ args[i].form = "long" /\ args[i].name \notin OldBooleans
                   /\ i < Len(args) /\ ~IsLong(args[i + 1]) /\ args[i + 1] # EndOfFlags
      split[i \in 0 .. Len(args)] ==
        IF i = 0 THEN [positional |-> <<>>, flags |-> {}, skip |-> FALSE]
        ELSE LET s == split[i - 1]
             IN  IF s.skip THEN [s EXCEPT !.skip = FALSE]
                 ELSE IF IsLong(args[i])
                 THEN [s EXCEPT !.flags = @ \cup {args[i].name}, !.skip = Claims(i)]
                 ELSE [s EXCEPT !.positional = Append(@, args[i])]
  IN  split[Len(args)]

(* Each answer is a removed line's replacement, [command, flags]. *)
Replacement(instead, flags) == [command |-> instead, flags |-> flags]
renamed(flags, from, to) == IF from \in flags THEN {to} ELSE {}

movedAccountCommand(args) ==
  LET verb == IF args = <<>> THEN Word("") ELSE args[1]
      flags == IF args = <<>> THEN {} ELSE splitOldLine(Tail(args)).flags
  IN  CASE verb \in {Word(""), Word("help"), Long("help"), Run(<<"h">>)} ->
             {Replacement("context", {"help"})}
        [] verb = Word("list") -> {Replacement("context show", {})}
        [] verb = Word("create") ->
             {Replacement("context create",
                (IF "product" \in flags THEN {"login-product", "url"} ELSE {"issuer", "client-id"})
                \cup (flags \cap {"provider", "audience", "client-secret-variable"})
                \cup renamed(flags, "scope", "scopes"))}
        [] verb = Word("add-product") ->
             {Replacement("context product add",
                {"url", "context"} \cup (flags \cap {"audience", "scopes", "replace"}))}
        [] verb = Word("remove-product") -> {Replacement("context product remove", {"context"})}
        [] verb = Word("rename") -> {Replacement("context rename", {})}
        [] OTHER -> {}

movedIdentityVerb(args) ==
  IF args # <<>> /\ args[1] \in {Word("create"), Word("add-product"), Word("list")}
  THEN movedAccountCommand(args) ELSE {}

movedConnect(ns, args, loginProvider) ==
  LET flags == splitOldLine(args).flags
      context == IF flags \cap {"account", "context"} # {} THEN {"context"} ELSE {}
  IN  CASE "gateway" \in flags ->
             {Replacement("context product add",
                {"url", "gateway", "replace"} \cup context
                \cup renamed(flags, "audience", "gateway-audience")
                \cup renamed(flags, "scopes", "gateway-scopes"))}
        [] "gateway" \notin flags /\ loginProvider ->
             {Replacement("context create",
                {"login-product", "url", "use"}
                \cup (flags \cap {"client-id", "client-secret-variable", "audience", "scopes"}))}
        [] "gateway" \notin flags /\ ~loginProvider ->
             {Replacement("context product add",
                {"url"} \cup context
                \cup (flags \cap {"audience", "scopes", "client-id", "client-id-variable",
                                  "client-secret-variable", "replace"}))}

(* The line that replaces a removed one, or none. *)
movedCommand(ns, args, loginProvider) ==
  CASE ns = "account" -> movedAccountCommand(args)
    [] ns # "account" /\ args # <<>> /\ args[1] = Word("connect") ->
         movedConnect(ns, Tail(args), loginProvider)
    [] ns = "identity" /\ (args = <<>> \/ args[1] # Word("connect")) -> movedIdentityVerb(args)
    [] OTHER -> {}

Moved(replacements) ==
  [does |-> "refuses", code |-> "shell.command_moved", instead |-> replacements]

(* declaresCommand: the first word is a command of the installed module. *)
declaresCommand(tree, word) ==
  /\ Declared(tree)
  /\ Route(tree, <<word>>).unrouted = ""
  /\ Route(tree, <<word>>).command.path # <<>>

-----------------------------------------------------------------------------
(* invokeModule, up to the launch: help and a command that only groups others
   are answered from the declaration, and a module without one is asked
   nothing. *)
LineOutcome(ns, declared, line) ==
  CASE "refused" \in DOMAIN line -> Refuses(line.refused)
    [] "refused" \notin DOMAIN line /\ declared /\ (line.help \/ ~line.runnable) ->
         Helps(ns, line.command)
    [] "refused" \notin DOMAIN line /\ ~declared /\ line.help ->
         Refuses("shell.module_help_undeclared")
    [] OTHER -> [does |-> "forwards", ns |-> ns, path |-> line.command,
                 arguments |-> line.arguments, mode |-> line.mode, context |-> line.context]

invokeModule(ns, args) ==
  LET tree == FromReceipt(ns)
  IN  LineOutcome(ns, Declared(tree),
        IF Declared(tree) THEN parseProductArgs(tree, args) ELSE parseUndeclaredProductArgs(args))

(* What is left of the line once the shell's own words are taken out of it. *)
TakeNoInput(unspoken) ==
  IF "refused" \in DOMAIN unspoken THEN unspoken ELSE takeBoolFlag(unspoken.remaining, "no-input")

DispatchPlain(ns, plain) ==
  LET rest == plain.remaining
      moved == movedCommand(ns, rest, IF ns \in Installed THEN ns \in LoginProviders
                                      ELSE ns = "identity")
  IN  IF "refused" \in DOMAIN plain THEN Refuses(plain.refused)
      ELSE IF ns \notin Installed
      THEN IF moved # {} THEN Moved(moved) ELSE Refuses("shell.unknown_command")
      ELSE IF LaunchRefusal(store[ns].receipt, Identity) # "none"
      THEN Refuses(LaunchRefusal(store[ns].receipt, Identity))
      ELSE IF rest # <<>> /\ ~declaresCommand(FromReceipt(ns), rest[1]) /\ moved # {}
      THEN Moved(moved)
      ELSE invokeModule(ns, rest)

dispatchNamespace(ns, args) == DispatchPlain(ns, TakeNoInput(takeBoolFlag(args, "verbose")))

(* forwardToNamespace: the shell flags written before the product are put in
   front of its own words.
   Mutant: forwardToNamespace, the output mode stays behind. *)
Forwarded(early, flag) ==
  IF Given(early, flag) = {} THEN <<>>
  ELSE <<Long(flag), Word(CHOOSE v \in Given(early, flag) : TRUE)>>

forwardToNamespace_ContextOnly(early, args) == Forwarded(early, "context") \o args

forwardToNamespace(early, args) ==
  Forwarded(early, "context") \o Forwarded(early, "output") \o args

RunNamespace(line, early) ==
  IF "refused" \in DOMAIN early THEN Refuses(flagProblem(early))
  ELSE IF "true" \in Given(early, "help") THEN Helps("", <<>>)
  ELSE IF ~(Given(early, "output") \subseteq Modes) THEN Refuses("shell.unknown_output_mode")
  ELSE dispatchNamespace(line.name, forwardToNamespace(early, line.args))

RunProduct(line) == RunNamespace(line, ParseFlags(rootFlags, line.early))

(* wso2 help <words>. *)
helpTopic(words) ==
  IF words = <<>> THEN Helps("", <<>>)
  ELSE LET ns == words[1].text
       IN  IF ns \in ShellCommands
           THEN IF Len(words) = 1 THEN Helps("", <<ns>>) ELSE Refuses("shell.unknown_command")
           ELSE IF ns \notin Installed THEN Refuses("shell.unknown_command")
           ELSE IF LaunchRefusal(store[ns].receipt, Identity) # "none"
           THEN Refuses(LaunchRefusal(store[ns].receipt, Identity))
           ELSE IF ~Declared(FromReceipt(ns)) THEN Refuses("shell.module_help_undeclared")
           ELSE LET routed == Route(FromReceipt(ns), Tail(words))
                IN  IF /\ routed.unrouted # "" /\ routed.command.path = <<>>
                       /\ RootHasChildren(FromReceipt(ns))
                    THEN Refuses("shell.unknown_product_command")
                    ELSE Helps(ns, routed.command.path)

dispatch(line) ==
  CASE line.name \in ShellCommands -> RunShellCommand(line)
    [] line.name = "help" -> helpTopic(line.args)
    [] OTHER -> RunProduct(line)

-----------------------------------------------------------------------------
(* Reading a line changes nothing: what it comes to is a function of the line
   and of what is installed when it is typed. *)
Type ==
  /\ typed = NoLine
  /\ scene.lines /\ command = Waiting /\ commandsRun = scene.commands
  /\ typed' \in Lines
  /\ UNCHANGED updateVars

Outcome == dispatch(typed)

(* The launched module serves the one command it was sent. *)
Reply(outcome) == Serve(Modules[outcome.ns], outcome.path, outcome.arguments)

CommandInit == Init /\ typed = NoLine

CommandNext ==
  \/ typed = NoLine /\ Next /\ UNCHANGED typed
  \/ Type

CommandSpec == CommandInit /\ [][CommandNext]_commandVars

-----------------------------------------------------------------------------
(* Flags in the way of routing: every command of the tree takes this one, or it
   takes a value on the command the line names. *)
EveryCommandTakes(ns, word) ==
  \A c \in Declarations[ns] :
    CASE word.form = "long" -> LookupFlag(c, word.name) # NoFlag
      [] word.form = "run" -> \A i \in DOMAIN word.letters :
                                LookupShorthand(c, word.letters[i]) # NoFlag
      [] OTHER -> TRUE

TakesValueBelow(ns, path, word) ==
  LET c == CommandAt(Declarations[ns], path)
      flag == IF word.form = "long" THEN LookupFlag(c, word.name) ELSE LookupShorthand(c, word.letters[1])
  IN  CASE word.form = "long" -> flag # NoFlag /\ TakesValue(flag)
        [] word.form = "run" -> Len(word.letters) = 1 /\ flag # NoFlag /\ TakesValue(flag)
        [] OTHER -> TRUE

HelpWord(word) == word \in {Long("help"), Run(<<"h">>)}

Ordinary(ns, args) ==
  LET routed == Route(Declarations[ns], args)
  IN  /\ \A i \in DOMAIN args : args[i].form = "attached" => args[i].name # "help"
      /\ \A i, j \in DOMAIN args : (i < j /\ HelpWord(args[i])) => IsFlag(args[j])
      /\ \A i \in DOMAIN args : \A j \in routed.path :
           (i < j /\ IsFlag(args[i])) =>
              \/ EveryCommandTakes(ns, args[i])
              \/ TakesValueBelow(ns, routed.command.path, args[i])

Answer(outcome) ==
  CASE outcome.does = "refuses" -> [does |-> "refuses"]
    [] outcome.does = "helps" -> [does |-> "helps", path |-> outcome.path]
    [] outcome.does = "forwards" -> Reply(outcome)

(* A line without the shell's flags means what it would mean to the module's
   own program: the same command runs with the same words and flags, help is
   shown for the same command, or both refuse it.  Two readers share the work,
   the shell, which finds the command and checks its flags, and the module's
   flag set, which reads what was forwarded again.
     Left out are lines that write a flag that stands alone, or several letters
   at once, before the command that declares it, a help flag before a word, and
   a help flag with a value: there the two do not agree. *)
ModuleUnderstands ==
  (/\ typed.name \in Installed /\ typed.early = <<>>
   /\ store[typed.name].receipt.tree = "declared"
   /\ LaunchRefusal(store[typed.name].receipt, Identity) = "none"
   /\ Ordinary(typed.name, typed.args))
  => Answer(Outcome) = Execute(Modules[typed.name], typed.args)

(* The shell flags, as they may be written, and whether a word is one. *)
ShellFlags == {<<Long("output"), Word("json")>>, <<Run(<<"o", "json">>)>>,
               <<Long("context"), Word("c1")>>, <<LongIs("context", "c1")>>}

Says(word, flag) ==
  IF flag = Long("context") \/ (flag.form = "attached" /\ flag.name = "context")
  THEN word.form \in {"long", "attached"} /\ word.name = "context"
  ELSE WantsOutput(word) \/ AttachedOutput(word)

InsertAt(args, i, words) == SubSeq(args, 1, i) \o words \o SubSeq(args, i + 1, Len(args))

(* Where one may be written: between any two words that are not a flag and its
   value, in the line of a module that declared nothing up to its first flag. *)
Undeclared(ns) == ns \in Installed /\ FromReceipt(ns) = {}

PlaceFor(name, args) ==
  {i \in 0 .. EndAt(args) - 1 :
     IF Undeclared(name) THEN \A j \in 1 .. i : ~IsFlag(args[j])
     ELSE i = 0 \/ ~IsFlag(args[i])}

Same(one, other) == one = other \/ (one.does = "refuses" /\ other.does = "refuses")

IsMoved(outcome) == outcome.does = "refuses" /\ outcome.code = "shell.command_moved"

(* One command line has one meaning, however it is spelled.  A shell flag that
   is written once says the same before the command and behind any word of it,
   and wso2 help names the page that --help behind the same words shows.
     The answer to a removed line is left out, which is given only when nothing
   stands before its first word, and so is the help of a shell command, which
   refuses a flag it does not declare before it looks for --help. *)
OneMeaning ==
  (typed # NoLine /\ typed.early = <<>> /\ typed.name # "help" /\ ~IsMoved(Outcome)) =>
    LET name == typed.name
        args == typed.args
        Said(early, words) == dispatch([early |-> early, name |-> name, args |-> words])
    IN  /\ ~(name \in ShellCommands /\ Outcome.does = "helps") =>
             \A flag \in {f \in ShellFlags : \A i \in DOMAIN args : ~Says(args[i], f[1])} :
               \A early \in {Said(flag, args)} : \A i \in PlaceFor(name, args) :
                 Same(Said(<<>>, InsertAt(args, i, flag)), early)
        /\ (name \notin ShellCommands /\ \A i \in DOMAIN args : ~IsFlag(args[i])) =>
             Same(helpTopic(<<Word(name)>> \o args), Said(<<>>, Append(args, Long("help"))))
=============================================================================
