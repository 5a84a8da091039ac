----------------------------- MODULE ProductLine -----------------------------
(***************************************************************************)
(* How one product command line is read, by three readers: the shell,      *)
(* against the command tree the module declared when it was installed;     *)
(* the module's own flag set, from what the shell forwards to it; and      *)
(* Cobra, whose reading of the whole line is what the other two are        *)
(* written to agree with.                                                  *)
(*                                                                         *)
(* A word is a record of what a parser looks at:                           *)
(*   Word(t)        anything that begins with no dash                      *)
(*   Long(n)        --n,  and LongIs(n, v) for --n=v                       *)
(*   Run(letters)   -abc; "=" and an attached value are letters of their   *)
(*                  own, so -r=eu is <<"r", "=", "eu">>                    *)
(*   EndOfFlags     --                                                     *)
(* A reader is a recursive function over the words: its value at i is what *)
(* it knows after i of them.                                               *)
(***************************************************************************)
EXTENDS Integers, Sequences, FiniteSets

Word(text) == [form |-> "word", text |-> text]
Long(name) == [form |-> "long", name |-> name]
LongIs(name, value) == [form |-> "attached", name |-> name, value |-> value]
Run(letters) == [form |-> "run", letters |-> letters]
EndOfFlags == [form |-> "end"]

Modes == {"json", "table"}
IsFlag(word) == word.form # "word"

(* A module's Cobra tree: commands [path, handled, hidden, aliases, own,
   persistent], flags [name, shorthand, type, noOptDefault]. *)
NoShorthand == ""
NoFlag == [undeclared |-> TRUE]
HelpFlag(shorthand) ==
  [name |-> "help", shorthand |-> shorthand, type |-> "bool", noOptDefault |-> "true"]

Prefixes(path) == {SubSeq(path, 1, i) : i \in 0 .. Len(path)}

CommandAt(commands, path) == CHOOSE c \in commands : c.path = path

(* The flags a command accepts: its own, then those of every ancestor that are
   persistent and not hidden by a flag of that name below. *)
AcceptedFlags(commands, path) ==
  LET command == CommandAt(commands, path)
      local == command.own \cup command.persistent
      above == UNION {c.persistent : c \in {d \in commands : d.path \in Prefixes(path) \ {path}}}
  IN  local \cup {f \in above : \A g \in local : g.name # f.name}

(* declareFlags adds the help flag Cobra gives a command as it executes; its
   shorthand is left out when another flag has it. *)
declareFlags(commands, path) ==
  LET flags == AcceptedFlags(commands, path)
  IN  IF \E f \in flags : f.name = "help" THEN flags
      ELSE flags \cup {HelpFlag(IF \E f \in flags : f.shorthand = "h" THEN NoShorthand ELSE "h")}

(* canonical: a boolean declared by hand is given the default pflag gives it. *)
canonical(flag) ==
  IF flag.type = "bool" /\ flag.noOptDefault = "" THEN [flag EXCEPT !.noOptDefault = "true"] ELSE flag

(* What the module says of itself when it is installed. *)
Declare(commands) ==
  {[path |-> c.path, runnable |-> c.handled, hidden |-> c.hidden, aliases |-> c.aliases,
    flags |-> {canonical(f) : f \in declareFlags(commands, c.path)}] : c \in commands}

-----------------------------------------------------------------------------
(* What the shell asks of a declared tree. *)
Declared(tree) == tree # {}
Root(tree) == CHOOSE c \in tree : c.path = <<>>
RootHasChildren(tree) == \E c \in tree : c.path # <<>>

Children(tree, parent, name) ==
  {c \in tree : /\ Len(c.path) = Len(parent) + 1
                /\ SubSeq(c.path, 1, Len(parent)) = parent
                /\ c.path[Len(parent) + 1] = name \/ name \in c.aliases}

LookupFlag(command, name) ==
  IF \E f \in command.flags : f.name = name
  THEN CHOOSE f \in command.flags : f.name = name ELSE NoFlag

LookupShorthand(command, letter) ==
  IF \E f \in command.flags : f.shorthand = letter /\ letter # NoShorthand
  THEN CHOOSE f \in command.flags : f.shorthand = letter ELSE NoFlag

TakesValue(flag) == flag.noOptDefault = ""

(* The letter that ends a run: the first one that nobody declares, that is
   followed by an equals sign, or that takes a value; 0 when none does. *)
EndsRun(command, letters) ==
  LET ends == {i \in 1 .. Len(letters) :
                 \/ LookupShorthand(command, letters[i]) = NoFlag
                 \/ i < Len(letters) /\ letters[i + 1] = "="
                 \/ TakesValue(LookupShorthand(command, letters[i]))}
  IN  IF ends = {} THEN 0 ELSE CHOOSE i \in ends : \A j \in ends : i <= j

(* In routing, a letter or a name that the command does not declare is taken
   to claim a value. *)
shorthandRunEndsInAValue(command, letters) ==
  LET claims == {i \in 1 .. Len(letters) :
                   \/ LookupShorthand(command, letters[i]) = NoFlag
                   \/ TakesValue(LookupShorthand(command, letters[i]))}
  IN  claims # {} /\ \A i \in claims : i = Len(letters)

(* Mutant: StepsOver, a flag nobody has declared yet stands alone. *)
StepsOver_DeclaredOnly(command, word) ==
  CASE word.form = "long" -> LookupFlag(command, word.name) # NoFlag
                             /\ TakesValue(LookupFlag(command, word.name))
    [] word.form = "run" -> shorthandRunEndsInAValue(command, word.letters)
    [] OTHER -> FALSE

StepsOver(command, word) ==
  CASE word.form = "long" -> \/ LookupFlag(command, word.name) = NoFlag
                             \/ TakesValue(LookupFlag(command, word.name))
    [] word.form = "run" -> shorthandRunEndsInAValue(command, word.letters)
    [] OTHER -> FALSE

(* Route: which command the line names, and which words named it. *)
Route(tree, args) ==
  LET start == [command |-> Root(tree), path |-> {}, unrouted |-> "", skip |-> FALSE, stopped |-> FALSE]
      walk[i \in 0 .. Len(args)] ==
        IF i = 0 THEN start
        ELSE LET r == walk[i - 1]
                 child == Children(tree, r.command.path, args[i].text)
             IN  CASE r.stopped -> r
                   [] ~r.stopped /\ r.skip -> [r EXCEPT !.skip = FALSE]
                   [] ~r.stopped /\ ~r.skip /\ args[i] = EndOfFlags -> [r EXCEPT !.stopped = TRUE]
                   [] ~r.stopped /\ ~r.skip /\ args[i].form \in {"long", "attached", "run"} ->
                        [r EXCEPT !.skip = StepsOver(r.command, args[i])]
                   [] ~r.stopped /\ ~r.skip /\ args[i].form = "word" ->
                        IF child = {} THEN [r EXCEPT !.unrouted = args[i].text, !.stopped = TRUE]
                        ELSE [r EXCEPT !.command = CHOOSE c \in child : TRUE, !.path = @ \cup {i}]
  IN  walk[Len(args)]

-----------------------------------------------------------------------------
(* The shell's own flags, wherever they are written: --output, -o and
   --context, with their values attached or in the next word. *)
AttachedOutput(word) ==
  \/ word.form = "attached" /\ word.name = "output"
  \/ /\ word.form = "run" /\ word.letters[1] = "o"
     /\ \/ Len(word.letters) = 3 /\ word.letters[2] = "="
        \/ Len(word.letters) = 2 /\ word.letters[2] \in Modes

AttachedOutputValue(word) ==
  IF word.form = "attached" THEN word.value ELSE word.letters[Len(word.letters)]

WantsOutput(word) == word = Long("output") \/ word = Run(<<"o">>)

TextOf(word) == IF word.form = "word" THEN word.text ELSE "a flag"

(* read: how many words a shell flag takes, 0 for anything else, and what it
   sets; [refused] when it has no value, or none it knows. *)
ReadShellFlag(args, i) ==
  LET word == args[i]
      next == IF i < Len(args) THEN args[i + 1] ELSE EndOfFlags
      nothing == [words |-> 0, mode |-> "", context |-> ""]
      mode(text, words) ==
        IF text \in Modes THEN [nothing EXCEPT !.words = words, !.mode = text]
        ELSE [refused |-> "shell.unknown_output_mode"]
      context(name, words) ==
        IF name = "" THEN [refused |-> "shell.missing_flag_value"]
        ELSE [nothing EXCEPT !.words = words, !.context = name]
  IN  CASE WantsOutput(word) /\ i = Len(args) -> [refused |-> "shell.missing_flag_value"]
        [] WantsOutput(word) /\ i < Len(args) -> mode(TextOf(next), 2)
        [] AttachedOutput(word) -> mode(AttachedOutputValue(word), 1)
        [] word = Long("context") -> context(IF IsFlag(next) THEN "" ELSE next.text, 2)
        [] word.form = "attached" /\ word.name = "context" -> context(word.value, 1)
        [] OTHER -> nothing

(* takeBoolFlag: a flag of the shell that stands alone is taken out of the
   line up to the end of flags, whatever precedes it. *)
EndAt(args) ==
  IF \E i \in DOMAIN args : args[i] = EndOfFlags
  THEN CHOOSE i \in DOMAIN args : args[i] = EndOfFlags /\ \A j \in 1 .. i - 1 : args[j] # EndOfFlags
  ELSE Len(args) + 1

takeBoolFlag(args, name) ==
  LET end == EndAt(args)
      Is(word) == word = Long(name) \/ (word.form = "attached" /\ word.name = name)
      IsNot(word) == ~Is(word)
      head == SubSeq(args, 1, end - 1)
  IN  IF \E i \in DOMAIN head : Is(head[i]) /\ head[i].form = "attached" /\ head[i].value \notin {"true", "false"}
      THEN [refused |-> "shell.flag_invalid"]
      ELSE [remaining |-> SelectSeq(head, IsNot) \o SubSeq(args, end, Len(args))]

asksForHelp(value) == value = "true"

(* readLongFlag and readShorthandFlags: one flag of the module, against the
   command the line names. *)
ReadLongFlag(command, args, i) ==
  LET word == args[i]
      flag == LookupFlag(command, word.name)
  IN  CASE flag = NoFlag -> [refused |-> "shell.unknown_product_flag"]
        [] flag # NoFlag /\ word.form = "long" /\ TakesValue(flag) /\ i = Len(args) ->
             [refused |-> "shell.missing_flag_value"]
        [] OTHER -> [words |-> IF word.form = "long" /\ TakesValue(flag) THEN 2 ELSE 1,
                     help |-> /\ word.name = "help" /\ ~TakesValue(flag)
                              /\ (word.form = "long" \/ asksForHelp(word.value))]

ReadShorthandFlags(command, args, i) ==
  LET letters == args[i].letters
      end == EndsRun(command, letters)
      flag == LookupShorthand(command, letters[end])
      Helps(j) == LookupShorthand(command, letters[j]).name = "help"
  IN  CASE end = 0 -> [words |-> 1, help |-> \E j \in DOMAIN letters : Helps(j)]
        [] end # 0 /\ flag = NoFlag ->
             [refused |-> IF letters[end] = "o" THEN "shell.shell_flag_in_a_product_run"
                          ELSE "shell.unknown_product_flag"]
        [] end # 0 /\ flag # NoFlag /\ end < Len(letters) /\ letters[end + 1] = "=" ->
             [words |-> 1, help |-> flag.name = "help" /\ asksForHelp(letters[Len(letters)])]
        [] end # 0 /\ flag # NoFlag /\ end < Len(letters) /\ letters[end + 1] # "=" ->
             [words |-> 1, help |-> \E j \in 1 .. end - 1 : Helps(j)]
        [] end # 0 /\ flag # NoFlag /\ end = Len(letters) ->
             IF i = Len(args) THEN [refused |-> "shell.missing_flag_value"]
             ELSE [words |-> 2, help |-> \E j \in 1 .. end - 1 : Helps(j)]

Unread == [skip |-> 0, arguments |-> <<>>, mode |-> "table", context |-> "", help |-> FALSE,
           command |-> <<>>, rest |-> FALSE]

Take(state, args, i, words) ==
  [state EXCEPT !.skip = words - 1, !.arguments = @ \o SubSeq(args, i, i + words - 1)]

(* What a shell flag leaves of the line. *)
TakeShellFlag(state, shellFlag) ==
  [state EXCEPT !.skip = shellFlag.words - 1,
                !.mode = IF shellFlag.mode = "" THEN @ ELSE shellFlag.mode,
                !.context = IF shellFlag.context = "" THEN @ ELSE shellFlag.context]

(* The next word of a declared command: the shell's flags first, then the
   flags of the command. *)
TakeWord(s, args, i, shellFlag, flag) ==
  IF "refused" \in DOMAIN shellFlag THEN shellFlag
  ELSE IF shellFlag.words > 0 THEN TakeShellFlag(s, shellFlag)
  ELSE IF args[i] = EndOfFlags THEN Take(s, args, i, Len(args) - i + 1)
  ELSE IF args[i].form = "word" THEN Take(s, args, i, 1)
  ELSE IF "refused" \in DOMAIN flag THEN flag
  ELSE [Take(s, args, i, flag.words) EXCEPT !.help = @ \/ flag.help]

ReadWords(routed, args) ==
  LET read[i \in 0 .. Len(args)] ==
        IF i = 0 THEN Unread
        ELSE LET s == read[i - 1]
             IN  CASE "refused" \in DOMAIN s -> s
                   [] "refused" \notin DOMAIN s /\ s.skip > 0 -> [s EXCEPT !.skip = @ - 1]
                   [] "refused" \notin DOMAIN s /\ s.skip = 0 /\ i \in routed.path -> s
                   [] OTHER -> TakeWord(s, args, i, ReadShellFlag(args, i),
                                 IF args[i].form = "run"
                                 THEN ReadShorthandFlags(routed.command, args, i)
                                 ELSE ReadLongFlag(routed.command, args, i))
  IN  read[Len(args)]

LineRead(path, runnable, last) ==
  IF "refused" \in DOMAIN last THEN last
  ELSE [command |-> path, runnable |-> runnable, arguments |-> last.arguments,
        mode |-> last.mode, context |-> last.context, help |-> last.help]

(* parseProductArgs: the line against the command Route found. *)
ReadRouted(tree, args, routed) ==
  IF routed.unrouted # "" /\ routed.command.path = <<>> /\ RootHasChildren(tree)
  THEN [refused |-> "shell.unknown_product_command"]
  ELSE LineRead(routed.command.path, routed.command.runnable, ReadWords(routed, args))

parseProductArgs(tree, args) == ReadRouted(tree, args, Route(tree, args))

(* parseUndeclaredProductArgs: the leading words are the command, and from the
   first flag that is not the shell's the line is the module's. *)
TakeUndeclared(s, word, shellFlag) ==
  IF "refused" \in DOMAIN shellFlag THEN shellFlag
  ELSE IF shellFlag.words > 0 THEN TakeShellFlag(s, shellFlag)
  ELSE IF IsFlag(word)
  THEN [s EXCEPT !.rest = TRUE, !.arguments = <<word>>,
                 !.help = word = Long("help") \/ word = Run(<<"h">>)]
  ELSE [s EXCEPT !.command = Append(@, word.text)]

ReadUndeclared(args) ==
  LET read[i \in 0 .. Len(args)] ==
        IF i = 0 THEN Unread
        ELSE LET s == read[i - 1]
             IN  CASE "refused" \in DOMAIN s -> s
                   [] "refused" \notin DOMAIN s /\ s.rest -> [s EXCEPT !.arguments = Append(@, args[i])]
                   [] "refused" \notin DOMAIN s /\ ~s.rest /\ s.skip > 0 -> [s EXCEPT !.skip = @ - 1]
                   [] OTHER -> TakeUndeclared(s, args[i], ReadShellFlag(args, i))
  IN  read[Len(args)]

UndeclaredLine(last) ==
  LineRead(IF "refused" \in DOMAIN last THEN <<>> ELSE last.command, TRUE, last)

parseUndeclaredProductArgs(args) == UndeclaredLine(ReadUndeclared(args))

-----------------------------------------------------------------------------
(* Cobra and pflag, with which a module is built. *)
CobraFlag(flags, name) ==
  IF \E f \in flags : f.name = name THEN CHOOSE f \in flags : f.name = name ELSE NoFlag

(* FlagSet.Parse: flags and words may be mixed, after "--" all is words, and a
   flag written twice has the value it was given last. *)
GivenLast(s, more) == [s EXCEPT !.set = {o \in @ : \A n \in more : n.flag # o.flag} \cup more]

(* The letters of a run, up to the one that ends it. *)
ParseRun(s, args, i, command, end) ==
  LET letters == args[i].letters
      Before(n) == {[flag |-> LookupShorthand(command, letters[j]).name, value |-> "true"] : j \in 1 .. n}
      flag == LookupShorthand(command, letters[end])
      Ended(value) == GivenLast(s, Before(end - 1) \cup {[flag |-> flag.name, value |-> value]})
  IN  IF end = 0 THEN GivenLast(s, Before(Len(letters)))
      ELSE IF flag = NoFlag THEN [refused |-> "unknown", flag |-> letters[end]]
      ELSE IF end < Len(letters) THEN Ended(letters[Len(letters)])
      ELSE IF i = Len(args) THEN [refused |-> "needs a value", flag |-> flag.name]
      ELSE [Ended(TextOf(args[i + 1])) EXCEPT !.skip = 1]

ParseLong(s, args, i, flag) ==
  LET long(value) == GivenLast(s, {[flag |-> args[i].name, value |-> value]})
  IN  IF flag = NoFlag THEN [refused |-> "unknown", flag |-> args[i].name]
      ELSE IF args[i].form = "attached" THEN long(args[i].value)
      ELSE IF ~TakesValue(flag) THEN long("true")
      ELSE IF i = Len(args) THEN [refused |-> "needs a value", flag |-> args[i].name]
      ELSE [long(TextOf(args[i + 1])) EXCEPT !.skip = 1]

ParseFlags(flags, args) ==
  LET command == [flags |-> flags]
      parse[i \in 0 .. Len(args)] ==
        IF i = 0 THEN [skip |-> 0, rest |-> FALSE, words |-> <<>>, set |-> {}]
        ELSE LET s == parse[i - 1]
                 word == args[i]
             IN  CASE "refused" \in DOMAIN s -> s
                   [] "refused" \notin DOMAIN s /\ s.skip > 0 -> [s EXCEPT !.skip = @ - 1]
                   [] OTHER ->
                        IF s.rest \/ word.form = "word" THEN [s EXCEPT !.words = Append(@, word)]
                        ELSE IF word = EndOfFlags THEN [s EXCEPT !.rest = TRUE]
                        ELSE IF word.form = "run"
                        THEN ParseRun(s, args, i, command, EndsRun(command, word.letters))
                        ELSE ParseLong(s, args, i, CobraFlag(flags, word.name))
  IN  parse[Len(args)]

(* Command.Find: the first word that is no flag or flag's value names a child,
   is taken out, and the rest is looked through again with the child's flags. *)
StripFlags(flags, args) ==
  LET Skips(word) ==
        \/ word.form = "long" /\ (CobraFlag(flags, word.name) = NoFlag \/ TakesValue(CobraFlag(flags, word.name)))
        \/ /\ word.form = "run" /\ Len(word.letters) = 1
           /\ LET flag == LookupShorthand([flags |-> flags], word.letters[1])
              IN  flag = NoFlag \/ TakesValue(flag)
      strip[i \in 0 .. Len(args)] ==
        IF i = 0 THEN [places |-> <<>>, skip |-> FALSE, stopped |-> FALSE]
        ELSE LET s == strip[i - 1]
             IN  IF s.stopped THEN s
                 ELSE IF s.skip THEN [s EXCEPT !.skip = FALSE]
                 ELSE IF args[i] = EndOfFlags THEN [s EXCEPT !.stopped = TRUE]
                 ELSE IF Skips(args[i]) THEN [s EXCEPT !.skip = TRUE]
                 ELSE IF args[i].form = "word" THEN [s EXCEPT !.places = Append(@, i)]
                 ELSE s
  IN  strip[Len(args)].places

Below(commands, path, name) ==
  {c \in commands : /\ Len(c.path) = Len(path) + 1 /\ SubSeq(c.path, 1, Len(path)) = path
                    /\ c.path[Len(c.path)] = name \/ name \in c.aliases}

Depth(commands) ==
  CHOOSE n \in {Len(c.path) : c \in commands} : \A c \in commands : Len(c.path) <= n

(* One command further, when the first word left names a child. *)
Descend(commands, f, places) ==
  IF places = <<>> \/ Below(commands, f.path, f.args[places[1]].text) = {} THEN f
  ELSE [path |-> (CHOOSE c \in Below(commands, f.path, f.args[places[1]].text) : TRUE).path,
        args |-> SubSeq(f.args, 1, places[1] - 1) \o SubSeq(f.args, places[1] + 1, Len(f.args))]

Find(commands, args) ==
  LET find[n \in 0 .. Depth(commands)] ==
        IF n = 0 THEN [path |-> <<>>, args |-> args]
        ELSE LET f == find[n - 1]
             IN  Descend(commands, f, StripFlags(AcceptedFlags(commands, f.path), f.args))
  IN  find[Depth(commands)]

(* What a program built from these commands does with the line by itself. *)
NotACommand(commands, found) ==
  /\ found.path = <<>> /\ Depth(commands) > 0
  /\ StripFlags(AcceptedFlags(commands, <<>>), found.args) # <<>>

Executed(command, parsed) ==
  LET helps == \E s \in parsed.set : s.flag = "help" /\ s.value = "true"
  IN  IF "refused" \in DOMAIN parsed THEN [does |-> "refuses"]
      ELSE IF helps \/ ~command.handled THEN [does |-> "helps", path |-> command.path]
      ELSE [does |-> "runs", path |-> command.path, words |-> parsed.words,
            set |-> {s \in parsed.set : s.flag # "help"}]

ExecuteFound(commands, found) ==
  IF NotACommand(commands, found) THEN [does |-> "refuses"]
  ELSE Executed(CommandAt(commands, found.path),
                ParseFlags(declareFlags(commands, found.path), found.args))

Execute(commands, args) == ExecuteFound(commands, Find(commands, args))

(* Serving what the shell forwards: the command is found by its exact path,
   and its own flag set, to which nobody has added a help flag, reads the
   arguments before the handler does. *)
Handled(path, parsed) ==
  IF "refused" \in DOMAIN parsed THEN [does |-> "module.flag_invalid"]
  ELSE [does |-> "runs", path |-> path, words |-> parsed.words, set |-> parsed.set]

Serve(commands, path, arguments) ==
  IF ~\E c \in commands : c.path = path /\ c.handled THEN [does |-> "unknown_command"]
  ELSE Handled(path, ParseFlags(AcceptedFlags(commands, path), arguments))
=============================================================================
