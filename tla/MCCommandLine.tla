---------------------------- MODULE MCCommandLine ----------------------------
(***************************************************************************)
(* Five scenes of the catalog: four releases at once from nothing; a       *)
(* release among failures, reruns and runs of the Pages workflow; installs *)
(* and updates while two more versions of a product are published and one  *)
(* request fails; updates of products that follow the prerelease channel,  *)
(* beside another terminal; and command lines for what is installed.       *)
(***************************************************************************)
EXTENDS CommandLine, TLC

Core(major, minor, patch) ==
  [core |-> <<major, minor, patch>>, dash |-> FALSE, pre |-> <<>>, build |-> FALSE]
Candidate(version) == [version EXCEPT !.dash = TRUE, !.pre = <<[numeric |-> FALSE, rank |-> 1]>>]
From(version) == << [operator |-> ">=", text |-> version] >>

MCNamespaces == {"alpha", "beta"}
MCTags == {"a1", "a2", "a3", "b1", "b2"}
Written(ns, text) == [ns |-> ns, slash |-> TRUE, v |-> TRUE, text |-> text]
MCTagText == ("a1" :> Written("alpha", Core(1, 0, 0))) @@ ("a2" :> Written("alpha", Candidate(Core(1, 1, 0))))
             @@ ("a3" :> Written("alpha", Candidate(Core(1, 2, 0))))
             @@ ("b1" :> Written("beta", Candidate(Core(1, 0, 0)))) @@ ("b2" :> Written("beta", Core(1, 0, 0)))
MCCommitOf == ("a1" :> 1) @@ ("a2" :> 2) @@ ("a3" :> 3) @@ ("b1" :> 2) @@ ("b2" :> 3)

Declaration(ns, protocols, directory, range) ==
  [schema |-> 1, ns |-> ns, title |-> TRUE, shell |-> range, protocols |-> protocols,
   descriptor |-> TRUE, directory |-> directory]
FirstAlpha == Declaration("alpha", <<1>>, "a", From(Core(0, 1, 0)))
LastAlpha == Declaration("alpha", <<2>>, "a", From(Core(1, 1, 0)))
SomeBeta == Declaration("beta", <<1, 2>>, "b", From(Core(0, 1, 0)))
MCTrees == << "a" :> FirstAlpha, ("a" :> FirstAlpha) @@ ("b" :> SomeBeta),
              ("a" :> LastAlpha) @@ ("b" :> SomeBeta) >>

Plain(major, minor, patch) == [major |-> major, minor |-> minor, patch |-> patch, pre |-> <<>>]
MCShells == << [version |-> Plain(1, 0, 0), window |-> {1}, platform |-> "p"],
               [version |-> Plain(1, 1, 0), window |-> {1, 2}, platform |-> "p"] >>

Stable == Policy(NoChannel, NoVersion)
Prerelease == Policy("prerelease", NoVersion)
MCChoices == {Stable, Prerelease, Policy(NoChannel, Plain(1, 0, 0))}

Publishing == [served |-> {}, tags |-> {"a1", "a2", "a3", "b1"}, together |-> 4,
               outages |-> 0, reruns |-> 0, siteRuns |-> 0,
               installed |-> <<>>, trees |-> [ns \in MCNamespaces |-> "declared"],
               commands |-> 0, others |-> 0, unreachable |-> 0, lines |-> FALSE]
Failing == [Publishing EXCEPT !.served = {"a1"}, !.tags = {"a2", "b2"}, !.together = 2,
                              !.outages = 1, !.reruns = 1, !.siteRuns = 1]
Fresh == [Publishing EXCEPT !.served = {"a1", "b1"}, !.tags = {"a2", "a3"}, !.together = 1,
                            !.commands = 2, !.unreachable = 1]
Kept == [Fresh EXCEPT !.served = {"a1", "a2", "b1"}, !.tags = {"a3"},
                      !.installed = ("alpha" :> Prerelease) @@ ("beta" :> Prerelease),
                      !.commands = 1, !.others = 1]
Typing == [Publishing EXCEPT !.served = {"a1", "b2"}, !.tags = {}, !.lines = TRUE,
                             !.installed = [ns \in MCNamespaces |-> Stable],
                             !.trees["beta"] = "empty"]
MCScenes == {Publishing, Failing, Fresh, Kept, Typing}

(* alpha declares its commands, beta does not. *)
Flag(name, shorthand, type, noOptDefault) ==
  [name |-> name, shorthand |-> shorthand, type |-> type, noOptDefault |-> noOptDefault]
Cmd(path, handled, aliases, own, persistent) ==
  [path |-> path, handled |-> handled, hidden |-> FALSE, aliases |-> aliases, own |-> own,
   persistent |-> persistent]
Region == Flag("region", "r", "string", "")
Alpha == {Cmd(<<>>, FALSE, {}, {}, {Flag("loud", "L", "count", "+1")}),
          Cmd(<<"status">>, TRUE, {}, {Flag("all", "a", "bool", "true"), Region}, {}),
          Cmd(<<"connect">>, TRUE, {}, {Flag("url", "", "string", "")}, {}),
          Cmd(<<"apps">>, FALSE, {"a"}, {}, {}),
          Cmd(<<"apps", "list">>, TRUE, {"ls"}, {Flag("limit", "", "int", "")}, {})}
Beta == {Cmd(<<>>, FALSE, {}, {}, {}), Cmd(<<"status">>, TRUE, {}, {Region}, {})}
MCModules == ("alpha" :> Alpha) @@ ("beta" :> Beta)

Line(early, name, args) == [early |-> early, name |-> name, args |-> args]
UpTo(n, tokens) == UNION {[1 .. k -> tokens] : k \in 0 .. n}

AlphaThree == {Word("status"), Word("apps"), Word("ls"), Word("connect"), Long("all"),
               Long("region"), Long("url"), Long("limit"), Run(<<"a", "r">>),
               Run(<<"r", "eu">>), EndOfFlags}
AlphaTwo == AlphaThree \cup {Word("x"), Run(<<"a">>), Run(<<"L">>), Long("help"),
                             LongIs("all", "false")}
BetaTokens == {Word("status"), Word("connect"), Long("region"), Long("gateway"), Run(<<"h">>),
               Long("verbose"), LongIs("verbose", "no"), Run(<<"o">>)}
RemovedTokens == {Word("create"), Word("list"), Word("add-product"), Word("remove-product"),
                  Word("rename"), Word("connect"), Long("product"), Long("scope"), Word("x")}
ShellTokens == {Long("output"), Word("json"), Run(<<"o", "json">>), Long("context"),
                Long("verbose"), Long("help"), LongIs("no-input", "true"), Word("x")}
HelpTokens == {Word("alpha"), Word("beta"), Word("login"), Word("status"), Word("apps"), Word("x")}
EarlyWords == {<<Long("output"), Word("json")>>, <<Long("output"), Word("xml")>>,
               <<Long("context"), Word("c1")>>, <<Long("help")>>, <<Long("loud")>>,
               <<Long("output")>>}

MCLines ==
  {Line(<<>>, "alpha", args) : args \in UpTo(2, AlphaTwo) \cup [1 .. 3 -> AlphaThree]}
  \cup {Line(<<>>, "beta", args) : args \in UpTo(2, BetaTokens)}
  \cup {Line(<<>>, ns, args) : ns \in {"account", "identity", "gamma"}, args \in UpTo(2, RemovedTokens)}
  \cup {Line(<<>>, name, args) : name \in ShellCommands, args \in UpTo(2, ShellTokens)}
  \cup {Line(<<>>, "help", args) : args \in UpTo(3, HelpTokens)}
  \cup {Line(early, name, args) : early \in EarlyWords, name \in ShellCommands \cup MCNamespaces,
                                  args \in UpTo(1, {Word("status"), Long("context")})}

\* What the theorems about the catalog ask of the history of main.
ASSUME ModulesStay /\ ModulesKept
==============================================================================
