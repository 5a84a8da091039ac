------------------------------- MODULE Catalog -------------------------------
(***************************************************************************)
(* What the module catalog says and how it is generated: internal/catalog, *)
(* internal/release and the two commands that assemble the site from them. *)
(*                                                                         *)
(* A tag is written [ns, slash, v, text]: the name before its first slash  *)
(* and the version after it.  A module declaration is what module.json     *)
(* states, at the commit it was read from.  The index keeps one line per   *)
(* namespace and a history one entry per release; both are kept as         *)
(* functions and sets, and the order they are written in is NewestOf's.    *)
(***************************************************************************)
EXTENDS Versions

CONSTANTS
  TagText,      \* how each tag is written
  Namespaces,   \* the product namespaces that are valid names
  LocalOnly,    \* sdk, reference and example, whose tags are nobody's product
  Platforms     \* the platforms every module release is built for

Refused == [refused |-> TRUE]
NoDeclaration == [undeclared |-> TRUE]
Unpublished == [assets |-> <<>>, digests |-> {}, unreadable |-> TRUE]

SchemaVersion == 1

ParseTag(tag) ==
  LET t == TagText[tag]
  IN  IF t.slash /\ t.ns \in Namespaces /\ t.v /\ ~t.text.build /\ Parse(t.text) # Malformed
      THEN [ns |-> t.ns, version |-> Parse(t.text)]
      ELSE Malformed

Product(tag) == TagText[tag].ns \notin LocalOnly

ModuleTags(tags) == {tag \in tags : TagText[tag].slash /\ TagText[tag].v /\ Product(tag)}

(* DiscoverProducts: the declarations a checkout holds, by the directory each
   was found in, without the demonstration modules. *)
DiscoverProducts(checkout) ==
  {d \in {checkout[directory] : directory \in DOMAIN checkout} :
     d # NoDeclaration /\ d.ns \notin LocalOnly}

DeclarationAt(checkout, directory) ==
  IF directory \in DOMAIN checkout THEN checkout[directory] ELSE NoDeclaration

Intersects(module, shell) == \E i \in DOMAIN module : module[i] \in shell

(* The release gate.  An unreadable shell range refuses the release, a range
   the released shell is outside of does not. *)
Gate(declaration, window) ==
  /\ declaration.protocols # <<>>
  /\ window # {}
  /\ ParseRange(declaration.shell) # Malformed
  /\ Intersects(declaration.protocols, window)

ValidAsset(asset) == asset.url /\ asset.size > 0

(* artifactsFor: every supported platform has an archive at a URL, of some
   size, that the checksum file covers. *)
ArtifactsComplete(published) ==
  \A p \in Platforms :
    /\ p \in DOMAIN published.assets
    /\ ValidAsset(published.assets[p])
    /\ p \in published.digests

ArtifactsFor(published) ==
  [p \in Platforms |-> [size |-> published.assets[p].size, sha256 |-> published.assets[p].sha256]]

-----------------------------------------------------------------------------
(* AssembleInput reads every module tag of the checkout: its declaration as it
   stood at the tag, in the directory the checkout has that namespace in, and
   what its release put up.  A tag without a declaration there is passed over;
   everything else that cannot be read fails the whole assembly. *)
Buildable(products, ns) == \E d \in products : d.ns = ns

DirectoryOf(products, ns) == (CHOOSE d \in products : d.ns = ns).directory

DeclaredAtTag(products, tag, treeAt) ==
  DeclarationAt(treeAt[tag], DirectoryOf(products, ParseTag(tag).ns))

Assemblable(products, tags, treeAt, published) ==
  \A tag \in tags :
    /\ ParseTag(tag) # Malformed
    /\ Buildable(products, ParseTag(tag).ns)
    /\ \/ DeclaredAtTag(products, tag, treeAt) = NoDeclaration
       \/ published[tag] # Unpublished /\ ArtifactsComplete(published[tag])

AssembleInput(products, tags, treeAt, published) ==
  LET kept == {tag \in tags : /\ DeclaredAtTag(products, tag, treeAt) # NoDeclaration
                              /\ published[tag] # Unpublished}
  IN  IF ~Assemblable(products, tags, treeAt, published) THEN Refused
      ELSE [modules |-> products,
            published |-> [tag \in kept |->
              LET declared == DeclaredAtTag(products, tag, treeAt)
              IN  [shell |-> declared.shell, protocols |-> declared.protocols,
                   descriptor |-> declared.descriptor, artifacts |-> ArtifactsFor(published[tag])]]]

-----------------------------------------------------------------------------
(* Generate turns that input into the catalog, or refuses it whole. *)
DeclarationsValid(products) ==
  /\ \A d \in products : d.schema = SchemaVersion /\ d.ns \in Namespaces /\ d.title
  /\ \A c, d \in products : c.ns = d.ns => c = d

ReleaseValid(release) ==
  /\ ParseRange(release.shell) # Malformed
  /\ release.protocols # <<>>
  /\ DOMAIN release.artifacts # {}
  /\ \A p \in DOMAIN release.artifacts : release.artifacts[p].size > 0

VersionEntry(tag, release) ==
  [version |-> ParseTag(tag).version, channel |-> Channel(ParseTag(tag).version),
   shell |-> release.shell, protocols |-> release.protocols,
   descriptor |-> release.descriptor, artifacts |-> release.artifacts]

Channels(history) == {entry.channel : entry \in history}

LatestPerChannel(history) ==
  [channel \in Channels(history) |->
     NewestOf({entry \in history : entry.channel = channel}).version]

Generate(input) ==
  LET tags == DOMAIN input.published
      tagged == {ParseTag(tag).ns : tag \in tags}
      histories == [ns \in tagged |->
        {VersionEntry(tag, input.published[tag]) : tag \in {t \in tags : ParseTag(t).ns = ns}}]
  IN  IF \/ ~DeclarationsValid(input.modules)
         \/ \E tag \in tags : \/ ~Buildable(input.modules, ParseTag(tag).ns)
                              \/ ~ReleaseValid(input.published[tag])
      THEN Refused
      ELSE [index |-> [ns \in tagged |-> LatestPerChannel(histories[ns])], files |-> histories]

(* Write leaves exactly the documents of the catalog it writes: a history of a
   namespace that is no longer in it is removed. *)
Write(directory, catalog) ==
  LET stale == DOMAIN directory.files \ DOMAIN catalog.files
  IN  [index |-> catalog.index,
       files |-> [ns \in (DOMAIN directory.files \cup DOMAIN catalog.files) \ stale |->
                    catalog.files[ns]]]

EmptySite == [index |-> <<>>, files |-> <<>>]

(* The two commands of assemble-site.sh over a checkout and the tags it sees. *)
AssembleSite(checkout, tags, treeAt, published) ==
  LET inputs == {AssembleInput(products, ModuleTags(tags), treeAt, public) :
                   products \in {DiscoverProducts(checkout)}, public \in {published}}
      catalogs == {IF input = Refused THEN Refused ELSE Generate(input) : input \in inputs}
  IN  CHOOSE site \in {IF catalog = Refused THEN Refused ELSE Write(EmptySite, catalog) :
                         catalog \in catalogs} : TRUE

-----------------------------------------------------------------------------

-----------------------------------------------------------------------------
(* Select: what an install takes from one namespace's history under a policy
   [channel, version], NoChannel and NoVersion when it was not asked for. *)
NoChannel == "none"
NoVersion == [none |-> TRUE]

Policy(channel, version) == [channel |-> channel, version |-> version]

(* A pinned version is the only one permitted; without one the channel's are,
   the stable ones when no channel was chosen. *)
PermittedVersions(history, policy) ==
  IF policy.version # NoVersion
  THEN {entry \in history : entry.version = policy.version}
  ELSE {entry \in history : entry.channel = IF policy.channel = NoChannel THEN "stable"
                                            ELSE policy.channel}

SelectionRefusal(history, policy, shell) ==
  LET permitted == PermittedVersions(history, policy)
  IN  CASE policy.version = Malformed -> "catalog.malformed_version"
        [] permitted = {} /\ policy.version \notin {NoVersion, Malformed} ->
             "catalog.version_not_published"
        [] permitted = {} /\ policy.version = NoVersion /\ history # {} /\
             policy.channel \notin {NoChannel, "stable", "prerelease"} -> "catalog.unknown_channel"
        [] permitted = {} /\ policy.version = NoVersion /\
             (history = {} \/ policy.channel \in {NoChannel, "stable", "prerelease"}) ->
             "catalog.empty_channel"
        [] permitted # {} /\ \A e \in permitted : ~Intersects(e.protocols, shell.window) ->
             "modules.incompatible_protocol"
        [] OTHER -> "modules.unsupported_platform"

Selectable(history, policy, shell) ==
  {e \in PermittedVersions(history, policy) :
     Intersects(e.protocols, shell.window) /\ shell.platform \in DOMAIN e.artifacts}

Select(history, policy, shell) ==
  IF Selectable(history, policy, shell) = {}
  THEN [refused |-> SelectionRefusal(history, policy, shell)]
  ELSE NewestOf(Selectable(history, policy, shell))

(* What decides whether an installed module may be launched, of the receipt an
   install wrote from the entry it selected. *)
Negotiates(receipt, shell) == \E i \in DOMAIN receipt.protocols : receipt.protocols[i] \in shell.window

CheckShellCompatibility(receipt, shell) == Contains(ParseRange(receipt.shell), shell.version)

CheckPlatform(receipt, shell) == receipt.platform = shell.platform

LaunchRefusal(receipt, shell) ==
  CASE ~Negotiates(receipt, shell) -> "modules.incompatible_protocol"
    [] Negotiates(receipt, shell) /\ ~CheckShellCompatibility(receipt, shell) ->
         "modules.incompatible_shell"
    [] Negotiates(receipt, shell) /\ CheckShellCompatibility(receipt, shell) /\
         ~CheckPlatform(receipt, shell) -> "modules.incompatible_platform"
    [] OTHER -> "none"

(* The receipt an install writes, and what it must say to be written. *)
Receipt(ns, entry, platform, tree) ==
  [ns |-> ns, version |-> entry.version, shell |-> entry.shell, protocols |-> entry.protocols,
   descriptor |-> entry.descriptor, platform |-> platform, tree |-> tree]

ValidReceipt(receipt) ==
  /\ receipt.ns \in Namespaces
  /\ ParseRange(receipt.shell) # Malformed
  /\ receipt.protocols # <<>>
  /\ \A i \in DOMAIN receipt.protocols : receipt.protocols[i] > 0
  /\ receipt.descriptor
=============================================================================
