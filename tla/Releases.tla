------------------------------ MODULE Releases ------------------------------
(***************************************************************************)
(* How a module version reaches the catalog: a tag is pushed, the release  *)
(* gate decides, the archives are uploaded as a draft and made public, and *)
(* the site is assembled again from every tag and deployed.  One pipeline  *)
(* runs per tag, concurrently with the others; the jobs that deploy take   *)
(* turns.  The Pages workflow deploys the same site from main.             *)
(*                                                                         *)
(* A release is built once per upload, and its build number stands for the *)
(* digests of its archives.                                                *)
(***************************************************************************)
EXTENDS Catalog

CONSTANTS
  Tags,          \* the module tags that may be pushed
  CommitOf,      \* the commit each tag points at
  Trees,         \* what each commit of main holds: directory -> declaration
  Shells,        \* the released shells, in order: [version, window, platform]
  Scenes         \* where the model may start, and how much happens then:
                 \*   served    the tags released beforehand
                 \*   tags      the tags that may follow
                 \*   together  how many pipelines overlap
                 \*   outages   how many runs lose the network or a runner
                 \*   reruns    how many failed runs somebody repeats
                 \*   siteRuns  how many times the Pages workflow runs
                 \* and, for the modules built on this one, trees, installed,
                 \* commands, others, unreachable and lines

VARIABLES
  scene,         \* the one of Scenes this is
  main,          \* the commit main is at
  released,      \* how many of Shells are released
  release,       \* per tag: its GitHub release, [state, build]
  pipeline,      \* per tag and for the Pages workflow: [phase, tags, site]
  turn,          \* the job inside the "pages" concurrency group
  deployed,      \* the sites served so far, the last one now
  commits,       \* the commits Pages has deployed
  outages, reruns,
  siteRuns       \* the commits the Pages workflow was triggered at, in order

releaseVars == <<scene, main, released, release, pipeline, turn, deployed, commits, outages, reruns, siteRuns>>

PagesRun == "pages"     \* the Pages workflow, beside the tags
Jobs == Tags \cup {PagesRun}
Nobody == "nobody"

Idle == [phase |-> "none", tags |-> {}, site |-> EmptySite]
At(phase) == [Idle EXCEPT !.phase = phase]
Phases == {"none", "gate", "refused", "publish", "unpublished", "verify", "wait", "cancelled",
           "assemble", "unassembled", "incomplete", "deploy", "unserved", "done"}

Running == {"gate", "publish", "verify", "wait", "assemble", "deploy"}

\* A run checks out the commit it was triggered at, however long it waits.
CheckoutOf(job) == IF job = PagesRun THEN siteRuns[Len(siteRuns)] ELSE CommitOf[job]
TreeAt == [tag \in Tags |-> Trees[CommitOf[tag]]]
Pushed == {tag \in Tags : pipeline[tag].phase # "none"}

(* PublishedAt: a draft cannot be read with the permissions the catalog job
   has, so a tag has published something once its release is public. *)
PublishedAt(tag) ==
  IF release[tag].state = "public"
  THEN [assets |-> [p \in Platforms |-> [url |-> TRUE, size |-> 1, sha256 |-> <<tag, release[tag].build>>]],
        digests |-> Platforms]
  ELSE Unpublished

Site(checkout, tags) ==
  AssembleSite(Trees[checkout], tags, TreeAt, [tag \in Tags |-> PublishedAt(tag)])

Listed(site, tag) ==
  /\ TagText[tag].ns \in DOMAIN site.files
  /\ \E entry \in site.files[TagText[tag].ns] : entry.version = ParseTag(tag).version

Served == deployed[Len(deployed)]

-----------------------------------------------------------------------------
\* What was released before a scene begins, from which commit, and the site
\* that was deployed then.
Newest(served) ==
  IF served = {} THEN 1
  ELSE CHOOSE c \in {CommitOf[t] : t \in served} : \A t \in served : CommitOf[t] <= c

PublishedBefore(served) ==
  [tag \in Tags |->
     IF tag \in served
     THEN [assets |-> [p \in Platforms |-> [url |-> TRUE, size |-> 1, sha256 |-> <<tag, 1>>]],
           digests |-> Platforms]
     ELSE Unpublished]

SiteBefore(served) ==
  IF served = {} THEN EmptySite
  ELSE AssembleSite(Trees[Newest(served)], served, TreeAt, PublishedBefore(served))

\* The declaration at a tag says enough for its release to be generated.
Deliverable(tag) ==
  /\ ParseTag(tag) # Malformed
  /\ \E directory \in DOMAIN TreeAt[tag] :
       LET declared == TreeAt[tag][directory]
       IN  /\ declared # NoDeclaration
           /\ declared.ns = TagText[tag].ns
           /\ declared.protocols # <<>>
           /\ ParseRange(declared.shell) # Malformed

\* Tags are finitely many, a tag is written in numbers and identifiers and
\* points at a commit there is, and a scene begins with a site that was
\* assembled and lists what was released.
ASSUME ReleaseAssumption ==
  /\ IsFiniteSet(Tags)
  /\ \A tag \in Tags : /\ TagText[tag].text.core \in Seq(Int)
                       /\ TagText[tag].text.pre \in Seq([numeric : BOOLEAN, rank : Int])
  /\ CommitOf \in [Tags -> DOMAIN Trees]
  /\ DOMAIN Trees \subseteq Nat /\ 1 \in DOMAIN Trees
  /\ PagesRun \notin Tags /\ Nobody \notin Jobs
  /\ Platforms # {}
  /\ \A from \in Scenes :
       /\ from.served \subseteq Tags
       /\ Newest(from.served) \in DOMAIN Trees
       /\ SiteBefore(from.served) # Refused
       /\ \A tag \in from.served :
            /\ CommitOf[tag] <= Newest(from.served)
            /\ Deliverable(tag)
            /\ Product(tag) => Listed(SiteBefore(from.served), tag)

ReleaseInit ==
  \E from \in Scenes :
    LET served == from.served
    IN /\ scene = from
       /\ main = Newest(served)
       /\ released = 1
       /\ release = [tag \in Tags |-> IF tag \in served THEN [state |-> "public", build |-> 1]
                                      ELSE [state |-> "none", build |-> 0]]
       /\ pipeline = [job \in Jobs |-> At(IF job \in served THEN "done" ELSE "none")]
       /\ turn = Nobody
       /\ deployed = <<SiteBefore(served)>>
       /\ commits = {CommitOf[t] : t \in served}
       /\ outages = 0 /\ reruns = 0 /\ siteRuns = << >>

Become(job, phase) == pipeline' = [pipeline EXCEPT ![job] = At(phase)]

(* A job that deploys queues for the group "pages".  GitHub keeps one job
   waiting behind the one that runs, and cancels it when another one comes. *)
Queue(job) ==
  pipeline' = [other \in Jobs |->
    IF other = job THEN At("wait")
    ELSE IF pipeline[other].phase = "wait" /\ turn # Nobody THEN At("cancelled")
    ELSE pipeline[other]]

AdvanceMain ==
  /\ main + 1 \in DOMAIN Trees
  /\ main' = main + 1
  /\ UNCHANGED <<scene, released, release, pipeline, turn, deployed, commits, outages, reruns, siteRuns>>

ReleaseShell ==
  /\ released < Len(Shells)
  /\ released' = released + 1
  /\ UNCHANGED <<scene, main, release, pipeline, turn, deployed, commits, outages, reruns, siteRuns>>

(* A tag's workflow runs unless the tag is the SDK's or a demonstration's. *)
PushTag(tag) ==
  /\ tag \in scene.tags
  /\ pipeline[tag].phase = "none"
  /\ CommitOf[tag] <= main
  /\ Cardinality({t \in Tags : pipeline[t].phase \in Running}) < scene.together
  /\ Become(tag, IF ~Product(tag) THEN "done" ELSE "gate")
  /\ UNCHANGED <<scene, main, released, release, turn, deployed, commits, outages, reruns, siteRuns>>

(* wso2-module-release -gate-only, over the checkout at the tag. *)
GateAllows(tag) ==
  /\ ParseTag(tag) # Malformed
  /\ \E directory \in DOMAIN Trees[CommitOf[tag]] :
       LET declared == Trees[CommitOf[tag]][directory]
       IN  /\ declared # NoDeclaration
           /\ declared.ns = TagText[tag].ns
           /\ Gate(declared, Shells[released].window)

DecideGate(tag) ==
  /\ pipeline[tag].phase = "gate"
  /\ Become(tag, IF GateAllows(tag) THEN "publish" ELSE "refused")
  /\ UNCHANGED <<scene, main, released, release, turn, deployed, commits, outages, reruns, siteRuns>>

(* The publish job builds for every platform, deciding the gate again, and
   uploads a draft; a release that is already public is left alone. *)
UploadDraft(tag) ==
  /\ pipeline[tag].phase = "publish"
  /\ IF GateAllows(tag) /\ release[tag].state # "public"
     THEN /\ release' = [release EXCEPT ![tag] = [state |-> "draft", build |-> @.build + 1]]
          /\ Become(tag, "verify")
     ELSE Become(tag, "refused") /\ UNCHANGED release
  /\ UNCHANGED <<scene, main, released, turn, deployed, commits, outages, reruns, siteRuns>>

MakePublic(tag) ==
  /\ pipeline[tag].phase = "verify"
  /\ release' = [release EXCEPT ![tag].state = "public"]
  /\ Queue(tag)
  /\ UNCHANGED <<scene, main, released, turn, deployed, commits, outages, reruns, siteRuns>>

RunPages ==
  /\ pipeline[PagesRun].phase \in {"none", "cancelled", "incomplete", "unassembled", "unserved", "done"}
  /\ Len(siteRuns) < scene.siteRuns
  /\ siteRuns' = Append(siteRuns, main)
  /\ Queue(PagesRun)
  /\ UNCHANGED <<scene, main, released, release, turn, deployed, commits, outages, reruns>>

(* The jobs of the concurrency group "pages" run one at a time.
   Mutant: EnterPages, without the group. *)
EnterPages_Anyone(job) ==
  /\ pipeline[job].phase = "wait"
  /\ turn' = job
  /\ pipeline' = [pipeline EXCEPT ![job] = [At("assemble") EXCEPT !.tags = Pushed]]
  /\ UNCHANGED <<scene, main, released, release, deployed, commits, outages, reruns, siteRuns>>

\* Mutant: EnterPages, which takes the tags whose own run is through.
EnterPages_Finished(job) ==
  /\ pipeline[job].phase = "wait"
  /\ turn = Nobody
  /\ turn' = job
  /\ pipeline' = [pipeline EXCEPT ![job] =
       [At("assemble") EXCEPT !.tags = {tag \in Pushed : tag = job \/ pipeline[tag].phase = "done"}]]
  /\ UNCHANGED <<scene, main, released, release, deployed, commits, outages, reruns, siteRuns>>

EnterPages(job) ==
  /\ pipeline[job].phase = "wait"
  /\ turn = Nobody
  /\ turn' = job
  /\ pipeline' = [pipeline EXCEPT ![job] = [At("assemble") EXCEPT !.tags = Pushed]]
  /\ UNCHANGED <<scene, main, released, release, deployed, commits, outages, reruns, siteRuns>>

(* assemble-site.sh over the tags of the checkout, and the check that the tag
   that triggered the run is in what is about to be served. *)
Assemble(job) ==
  /\ pipeline[job].phase = "assemble"
  /\ \E site \in {Site(CheckoutOf(job), pipeline[job].tags)} :
       LET complete == site # Refused /\ (job = PagesRun \/ Listed(site, job))
       IN  IF complete
           THEN /\ pipeline' = [pipeline EXCEPT ![job] = [At("deploy") EXCEPT !.site = site]]
                /\ UNCHANGED turn
           ELSE Become(job, "incomplete") /\ turn' = Nobody
  /\ UNCHANGED <<scene, main, released, release, deployed, commits, outages, reruns, siteRuns>>

(* Pages keys deployments by commit, and serves nothing new for one it has
   already deployed; the run then waits in vain for its version. *)
Deploy(job) ==
  /\ pipeline[job].phase = "deploy"
  /\ IF CheckoutOf(job) \in commits
     THEN Become(job, "unserved") /\ UNCHANGED <<deployed, commits>>
     ELSE /\ deployed' = Append(deployed, pipeline[job].site)
          /\ commits' = commits \cup {CheckoutOf(job)}
          /\ Become(job, "done")
  /\ turn' = Nobody
  /\ UNCHANGED <<scene, main, released, release, outages, reruns, siteRuns>>

(* A run loses its runner or the network. *)
Outage(job) ==
  /\ outages < scene.outages
  /\ outages' = outages + 1
  /\ pipeline[job].phase \in {"publish", "verify", "assemble", "deploy"}
  /\ Become(job, IF pipeline[job].phase \in {"publish", "verify"} THEN "unpublished"
                 ELSE "unassembled")
  /\ turn' = IF turn = job THEN Nobody ELSE turn
  /\ UNCHANGED <<scene, main, released, release, deployed, commits, reruns, siteRuns>>

(* Somebody runs the failed jobs of a run again. *)
Rerun(tag) ==
  /\ reruns < scene.reruns
  /\ reruns' = reruns + 1
  /\ \/ pipeline[tag].phase = "refused" /\ release[tag].state = "none" /\ Become(tag, "gate")
     \/ pipeline[tag].phase = "unpublished" /\ Become(tag, "publish")
     \/ /\ pipeline[tag].phase \in {"cancelled", "unassembled", "incomplete", "unserved"}
        /\ Queue(tag)
  /\ UNCHANGED <<scene, main, released, release, turn, deployed, commits, outages, siteRuns>>

ReleaseNext ==
  \/ AdvanceMain
  \/ ReleaseShell
  \/ RunPages
  \/ \E tag \in Tags : \/ PushTag(tag)
                       \/ DecideGate(tag)
                       \/ UploadDraft(tag)
                       \/ MakePublic(tag)
                       \/ Rerun(tag)
  \/ \E job \in Jobs : \/ EnterPages(job)
                       \/ Assemble(job)
                       \/ Deploy(job)
                       \/ Outage(job)

-----------------------------------------------------------------------------

(* Nothing is under way, and a checkout that can build whatever was pushed. *)
Settled ==
  /\ \A tag \in Pushed : Product(tag) => release[tag].state = "public"
  /\ \A job \in Jobs : pipeline[job].phase \in {"none", "cancelled", "incomplete", "done"}

KnowsAll(commit) ==
  \A tag \in Pushed : Product(tag) =>
    \E directory \in DOMAIN Trees[commit] :
      /\ Trees[commit][directory] # NoDeclaration
      /\ Trees[commit][directory].ns = TagText[tag].ns
      /\ directory \in DOMAIN TreeAt[tag]

(* Two releases at once do not leave each other out.  A pipeline that finds a
   sibling's tag without a public release assembles nothing, and one that waits
   may be cancelled for a later one, and both are right: when every pushed tag
   is public and no run is under way, everything pushed is listed, whichever
   order the runs took, and although a Pages run deploys the commit it was
   triggered at, which may be older than a module.  What this rests on is said
   in its premises: the checkout of every pushed tag can build every pushed
   tag's module, and no run was lost or deployed a commit deployed before. *)
CatalogCatchesUp ==
  (Settled /\ \A tag \in Pushed : KnowsAll(CommitOf[tag])) =>
    \A tag \in Pushed : Product(tag) => Listed(Served, tag)

\* A module stays in the directory it was first declared in.
ModulesStay ==
  \A c, d \in DOMAIN Trees : \A x \in DOMAIN Trees[c], y \in DOMAIN Trees[d] :
    Trees[c][x] # NoDeclaration /\ Trees[d][y] # NoDeclaration /\ Trees[c][x].ns = Trees[d][y].ns
      => Trees[c][x].directory = Trees[d][y].directory

\* Every declaration on main is one the catalog can be generated from, found
\* where it says it is, and no module is ever removed.
ModulesKept ==
  /\ \A c \in DOMAIN Trees : \A x \in DOMAIN Trees[c] :
       LET declared == Trees[c][x]
       IN  declared # NoDeclaration =>
             /\ declared.directory = x
             /\ declared.schema = SchemaVersion /\ declared.title
             /\ declared.ns \in Namespaces
  /\ \A c, d \in DOMAIN Trees : c <= d =>
       \A x \in DOMAIN Trees[c] : Trees[c][x] # NoDeclaration =>
         /\ x \in DOMAIN Trees[d] /\ Trees[d][x] # NoDeclaration
         /\ Trees[d][x].ns = Trees[c][x].ns

(* A deployment replaces the whole site, from tags that were read before it
   and from whichever commit it ran at: no version is ever withdrawn by it,
   as long as modules stay in the directory they were released from. *)
NeverUnpublishes ==
  [][\A tag \in Tags : Listed(Served, tag) => Listed(Served', tag)]_deployed
=============================================================================
