----------------------------- MODULE LocalRepo -----------------------------
(***************************************************************************)
(* The cluster-local repository an operator fills and `sealos sync render` *)
(* reads: its layout, loading and digests (localrepo/localrepo.go,         *)
(* schema.go, policy_compatibility.go), the skeleton `local-repo init`     *)
(* writes file by file and `local-repo doctor`                             *)
(* (cmd/sealos/cmd/sync_localrepo.go), while the operator edits files and  *)
(* the selected release changes the contract of the inputs.                *)
(*                                                                         *)
(* Every input has files named after it, one for each extension in use;    *)
(* there is one local patch and one resource of a secret.                  *)
(***************************************************************************)
EXTENDS Naturals, Sequences, FiniteSets, SequencesExt, Functions

CONSTANTS
  Inputs,      \* the names of the inputs a package may declare
  SecretLike,  \* the inputs whose name looks like a secret's
  Stale,       \* the inputs of components that only some releases have
  Exts,        \* file extensions
  Releases,    \* the targets that may be selected
  Contract,    \* of a release: its inputs, each with [ext, required]
  ResourceName, PatchName,  \* names of the resource and the patch in their directories
  PatchTexts,  \* what a local patch may say
  MaxEdits     \* bound on the operator's edits and changes of the target

ContractAssumption ==
  /\ SecretLike \subseteq Inputs /\ Stale \subseteq Inputs
  /\ \A r \in Releases : /\ DOMAIN Contract[r] \subseteq Inputs
                         /\ \A i \in DOMAIN Contract[r] :
                              /\ Contract[r][i].ext \in Exts
                              /\ Contract[r][i].required \in BOOLEAN

VARIABLES
  release,  \* the selected target
  files,    \* the files of the repository
  init,     \* the init that is running, or the idle record
  last,     \* result of the last command, until a file or the target changes
  edits

repoVars == <<release, files, init, last, edits>>

-----------------------------------------------------------------------------
(***************************************************************************)
(* Layout.                                                                 *)
(***************************************************************************)
InputPath(i, e) == <<"inputs", i, e>>
InputPaths == {InputPath(i, e) : i \in Inputs, e \in Exts}
RepoFile == <<"repo.yaml">>
PolicyFile == <<"policy">>
CurrentFile == <<"revisions", "current.yaml">>
Resource == <<"resources", ResourceName>>
Patch == <<"patches", PatchName>>
Paths == InputPaths \cup {RepoFile, PolicyFile, CurrentFile, Resource, Patch}

Text(t) == [is |-> t]
Absent == [text |-> Text("absent"), mode |-> "none"]
Exists(fs, p) == fs[p] # Absent
\* Generated text of an input: it spells out the contract it was generated for.
Template(i, c) == [placeholder |-> TRUE, required |-> c[i].required, ext |-> c[i].ext]
Filled == [placeholder |-> FALSE]
PolicyTexts == {"default", "wide", "invalid"}
\* A patch is a sequence of documents; a resource may hold the same text as a patch.
PatchDocuments == [labels |-> <<"labels">>, image |-> <<"image">>,
                   both |-> <<"labels", "image">>, unmatched |-> <<"no such object">>]
ResourceTexts == {"Secret", "ConfigMap", "no kind"} \cup PatchTexts
\* A metadata document that does not validate is a warning, one that is not YAML an error.
Illustrative == [schema |-> "older"]
Malformed == [schema |-> "malformed"]

BoundExts(fs, i) == {e \in Exts : Exists(fs, InputPath(i, e))}
\* scanInputs takes the name without the extension: two files for one input do not load.
Loads(fs) ==
  /\ \A i \in Inputs : Cardinality(BoundExts(fs, i)) <= 1
  /\ fs[PolicyFile].text # Text("invalid")
  /\ \A p \in {RepoFile, CurrentFile} : fs[p].text # Malformed
BindingFor(fs, i) ==
  IF BoundExts(fs, i) = {} THEN <<>> ELSE InputPath(i, CHOOSE e \in BoundExts(fs, i) : TRUE)

\* A digest stands for the set of the names and contents it is computed from.  The names of
\* inputs, resources and patches are relative to their own directories.
HashedName(p) == IF p[1] = "policy" THEN p ELSE Tail(p)
HashParts(fs, ps) == {<<HashedName(p), fs[p].text>> : p \in {q \in ps : Exists(fs, q)}}
InputRevision(fs) == HashParts(fs, InputPaths)
\* The digest of a repository that also covered its own documents.
RevisionWithDocuments(fs) == HashParts(fs, Paths)
Revision(fs) == HashParts(fs, InputPaths \cup {Resource, Patch, PolicyFile})

-----------------------------------------------------------------------------
(***************************************************************************)
(* init: repo.yaml, the policy, every input of the contract, then, when    *)
(* the repository loads, revisions/current.yaml.  An existing file is kept *)
(* unless --overwrite is given; writing over a file keeps its mode.        *)
(***************************************************************************)
Idle == [running |-> FALSE]
InputsInOrder == SetToSeq(Inputs)
CollectAmong(r, is) ==
  LET declared == SelectSeq(InputsInOrder, LAMBDA i : i \in is)
  IN [k \in DOMAIN declared |-> InputPath(declared[k], Contract[r][declared[k]].ext)]
CollectRequired(r) == CollectAmong(r, {i \in DOMAIN Contract[r] : Contract[r][i].required})
CollectInputs(r) == CollectAmong(r, DOMAIN Contract[r])
InitFiles(r) == <<RepoFile, PolicyFile>> \o CollectInputs(r) \o <<CurrentFile>>

Metadata(r) == [schema |-> "valid", release |-> r]
CurrentRevision(r, fs) ==
  [schema |-> "valid", release |-> r, inputs |-> InputRevision(fs), digest |-> Revision(fs)]
InitText(p, r, fs) ==
  CASE p = RepoFile -> Metadata(r)
    [] p = PolicyFile -> Text("default")
    [] p = CurrentFile -> CurrentRevision(r, fs)
    [] OTHER -> Template(p[2], Contract[r])
FileMode(p) == IF p \in InputPaths /\ p[2] \in SecretLike THEN "private" ELSE "open"

WriteFileAlways(fs, p, text, overwrite) ==
  [fs EXCEPT ![p] = [text |-> text, mode |-> IF Exists(fs, p) THEN fs[p].mode ELSE FileMode(p)]]
WriteFile(fs, p, text, overwrite) ==
  IF Exists(fs, p) /\ ~overwrite THEN fs ELSE WriteFileAlways(fs, p, text, overwrite)

NoResult == [cmd |-> "none"]
InitResult(ok) == [cmd |-> "init", ok |-> ok, overwrite |-> init.overwrite,
                   recorded |-> ok /\ (init.overwrite \/ init.fresh), why |-> init.why]

\* Why the operator starts it: what the doctor last suggested, when it is that.
BeginInit(overwrite, why) ==
  /\ ~init.running
  /\ init' = [running |-> TRUE, overwrite |-> overwrite, todo |-> InitFiles(release),
              fresh |-> ~Exists(files, CurrentFile), why |-> why]
  /\ last' = NoResult
  /\ UNCHANGED <<release, files, edits>>
InitStep ==
  /\ init.running /\ init.todo # <<>>
  /\ LET p == Head(init.todo) IN
     IF p = CurrentFile /\ ~Loads(files)
     THEN /\ last' = InitResult(FALSE)
          /\ init' = Idle
          /\ UNCHANGED files
     ELSE /\ files' = WriteFile(files, p, InitText(p, release, files), init.overwrite)
          /\ init' = [init EXCEPT !.todo = Tail(@)]
          /\ UNCHANGED last
  /\ UNCHANGED <<release, edits>>
\* The final load; a document that was kept may still be unreadable.
InitDone ==
  /\ init.running /\ init.todo = <<>>
  /\ last' = InitResult(Loads(files))
  /\ init' = Idle
  /\ UNCHANGED <<release, files, edits>>
Interrupt ==
  /\ init.running
  /\ init' = Idle
  /\ UNCHANGED <<release, files, last, edits>>

-----------------------------------------------------------------------------
(***************************************************************************)
(* doctor.                                                                 *)
(***************************************************************************)
Issue(severity, code, subject) == [severity |-> severity, code |-> code, subject |-> subject]
Errors(issues) == {i \in issues : i.severity = "error"}

CheckInputBound(fs, i, c) ==
  LET p == BindingFor(fs, i) IN
  IF p = <<>> /\ c[i].required THEN {Issue("error", "requiredInputMissing", i)} ELSE {}
\* The placeholder is recognised by the text that init would generate today.
IsGeneratedPlaceholder(i, c, text) == text = Template(i, c)
CheckInput(fs, i, c) ==
  LET p == BindingFor(fs, i) IN
  IF p = <<>>
  THEN IF c[i].required THEN {Issue("error", "requiredInputMissing", i)} ELSE {}
  ELSE (IF IsGeneratedPlaceholder(i, c, fs[p].text)
        THEN {Issue(IF c[i].required THEN "error" ELSE "warning", "inputPlaceholder", i)} ELSE {})
       \cup (IF i \in SecretLike /\ fs[p].mode # "private"
             THEN {Issue("error", "secretInputModeTooOpen", i)} ELSE {})

\* The default policy allows everything here but a new image.
OverlayAllowed(policy, document) == policy = Text("wide") \/ document # "image"
\* The compatibility of a patch is that of its first document.
InvalidPatches(fs, policy) ==
  Exists(fs, Patch) /\ ~OverlayAllowed(policy, PatchDocuments[fs[Patch].text.is][1])
CheckPolicy(fs) ==
  IF ~Exists(fs, PolicyFile) THEN {Issue("warning", "localPatchPolicyMissing", PolicyFile)}
  ELSE IF InvalidPatches(fs, fs[PolicyFile].text)
       THEN {Issue("error", "localPatchPolicyViolation", Patch)} ELSE {}

CheckDocument(fs, p, missing, mismatch, r) ==
  IF ~Exists(fs, p) THEN {Issue("warning", missing, p)}
  ELSE IF fs[p].text = Illustrative
       THEN {Issue("warning", "localRepoSchemaInvalid", p), Issue("warning", missing, p)}
       ELSE IF fs[p].text.release # r THEN {Issue("warning", mismatch, p)} ELSE {}
CheckSchema(fs, r) ==
  CheckDocument(fs, RepoFile, "localRepoMetadataMissing", "localRepoDistributionLineMismatch", r)
  \cup CheckDocument(fs, CurrentFile, "localRepoRevisionMissing", "localRepoRevisionBOMMismatch", r)

LooksSecret(name) == name = "secret.yaml"
CheckResources(fs) ==
  LET kind == fs[Resource].text.is
      secretLike == LooksSecret(ResourceName) \/ kind = "Secret"
  IN IF ~Exists(fs, Resource) THEN {}
     ELSE (IF kind = "no kind" THEN {Issue("error", "resourceManifestInvalid", Resource)} ELSE {})
          \cup (IF LooksSecret(ResourceName) /\ kind \notin {"Secret", "no kind"}
                THEN {Issue("error", "secretResourceKindInvalid", Resource)} ELSE {})
          \cup (IF secretLike /\ fs[Resource].mode # "private"
                THEN {Issue("error", "secretResourceModeTooOpen", Resource)} ELSE {})
CheckStaleComponentDirs(fs, r) ==
  {Issue("warning", "staleComponentDirectory", i) :
     i \in {j \in Stale : BoundExts(fs, j) # {} /\ j \notin DOMAIN Contract[r]}}

DoctorIssues(fs, r) ==
  IF ~Loads(fs) THEN {Issue("error", "localRepoInvalid", "")}
  ELSE CheckSchema(fs, r) \cup CheckPolicy(fs) \cup CheckResources(fs)
       \cup CheckStaleComponentDirs(fs, r)
       \cup UNION {CheckInput(fs, i, Contract[r]) : i \in DOMAIN Contract[r]}
DoctorPasses(fs, r) == Errors(DoctorIssues(fs, r)) = {}

Doctor ==
  /\ ~init.running
  /\ last' = [cmd |-> "doctor", ok |-> DoctorPasses(files, release),
              issues |-> DoctorIssues(files, release)]
  /\ UNCHANGED <<release, files, init, edits>>

\* The fixes that name init: with --overwrite for the metadata documents, without for a
\* required input that is missing and for a repository that does not load.
RefreshCodes == {"localRepoMetadataMissing", "localRepoRevisionMissing", "localRepoSchemaInvalid"}
InitCodes == {"requiredInputMissing", "localRepoInvalid"}
SuggestsInit(codes) == last.cmd = "doctor" /\ \E i \in last.issues : i.code \in codes
FollowSuggestion ==
  \/ /\ SuggestsInit(RefreshCodes)
     /\ BeginInit(TRUE, IF last.ok THEN "refresh passing" ELSE "refresh")
  \/ /\ SuggestsInit(InitCodes)
     /\ BeginInit(FALSE, IF Loads(files) THEN "missing input" ELSE "invalid repo")
RunInit == \E overwrite \in BOOLEAN : BeginInit(overwrite, "operator")

-----------------------------------------------------------------------------
(***************************************************************************)
(* The operator.                                                           *)
(***************************************************************************)
Texts(p) ==
  CASE p \in InputPaths -> {Filled}
    [] p = PolicyFile -> {Text(t) : t \in PolicyTexts}
    [] p = Patch -> {Text(t) : t \in PatchTexts}
    [] p = Resource -> {Text(t) : t \in ResourceTexts}
    [] OTHER -> {Illustrative, Malformed}
EditFile(p) ==
  \E f \in {Absent} \cup [text : Texts(p), mode : {"private", "open"}] :
     /\ f # files[p]
     /\ p \notin InputPaths \cup {Resource} => f.mode \in {"none", "open"}
     /\ files' = [files EXCEPT ![p] = f]
OperatorEdit ==
  /\ ~init.running /\ edits < MaxEdits
  /\ edits' = edits + 1
  /\ last' = NoResult
  /\ \/ (\E p \in Paths : EditFile(p)) /\ UNCHANGED release
     \/ (\E r \in Releases \ {release} : release' = r) /\ UNCHANGED files
  /\ UNCHANGED init

LocalRepoInit ==
  /\ release \in Releases
  /\ files = [p \in Paths |-> Absent]
  /\ init = Idle /\ last = NoResult /\ edits = 0
Next == RunInit \/ FollowSuggestion \/ InitStep \/ InitDone \/ Interrupt \/ Doctor \/ OperatorEdit
Spec == LocalRepoInit /\ [][Next]_repoVars

-----------------------------------------------------------------------------
(* Every file holds what can be in it. *)
TypeOK ==
  /\ release \in Releases /\ edits \in 0..MaxEdits
  /\ \A p \in InputPaths : files[p] = Absent \/ files[p].text.placeholder \in BOOLEAN
  /\ files[PolicyFile].text.is \in PolicyTexts \cup {"absent"}
  /\ files[RepoFile] = Absent \/ files[RepoFile].text.schema \in {"valid", "older", "malformed"}
  /\ init.running => init.overwrite \in BOOLEAN

(* Without --overwrite, init never changes a file that is there: an operator who runs it again *)
(* after an interruption or for another release loses nothing (writeFile).                      *)
KeepsFilesStep ==
  init.running /\ ~init.overwrite =>
    \A p \in Paths : Exists(files, p) => files'[p] = files[p]

(* An init that reports success, however many were interrupted before it, leaves every input *)
(* of the release bound, and all but the placeholders acceptable to the doctor when the      *)
(* operator has put nothing there yet.                                                        *)
InitIsComplete ==
  last.cmd = "init" /\ last.ok =>
    /\ \A i \in DOMAIN Contract[release] : BindingFor(files, i) # <<>>
    /\ edits = 0 => \A x \in Errors(DoctorIssues(files, release)) : x.code = "inputPlaceholder"

(* The audit document that an init has written records the digest of the repository as it    *)
(* stands afterwards: writing the document does not change what it records.                  *)
RecordedDigestExact ==
  last.cmd = "init" /\ last.recorded =>
    /\ files[CurrentFile].text.digest = Revision(files)
    /\ files[CurrentFile].text.inputs = InputRevision(files)

(* A repository the doctor passes can be rendered: every required input of the release is    *)
(* bound to one file that is not today's placeholder, secrets are private, and the patch is  *)
(* one that the policy of the repository allows.                                             *)
PassedIsUsable ==
  last.cmd = "doctor" /\ last.ok =>
    /\ \A i \in DOMAIN Contract[release] :
         /\ Contract[release][i].required =>
              \E e \in Exts : /\ BoundExts(files, i) = {e}
                              /\ files[InputPath(i, e)].text # Template(i, Contract[release])
         /\ i \in SecretLike => \A e \in BoundExts(files, i) : files[InputPath(i, e)].mode = "private"
    /\ Exists(files, Resource) /\ LooksSecret(ResourceName) =>
         files[Resource] = [text |-> Text("Secret"), mode |-> "private"]
    /\ files[Patch].text.is = "image" => files[PolicyFile].text.is \in {"wide", "absent"}
=============================================================================
