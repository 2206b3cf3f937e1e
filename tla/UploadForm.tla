------------------------------ MODULE UploadForm ------------------------------
(***************************************************************************)
(* Choosing a binary in the WASM studio (app/deploy/wasm/page.tsx): the    *)
(* file, what the page reads from it, the size limit of the network, and   *)
(* the install button.  A file is read over two awaits, and nothing tells  *)
(* the readings of two files apart.                                        *)
(*                                                                         *)
(* What is shown of a binary (its size, hash, sections and functions) is   *)
(* set in one go and named by the file it was read from.  The install      *)
(* itself is a run of Deployments; here it ends one way or the other.      *)
(***************************************************************************)
EXTENDS Naturals

CONSTANTS
  Binary,          \* files that can be chosen
  NoBinary,
  Broken,          \* those without a WASM header
  WithConstructor, \* those that export a constructor or an init function
  WithInputs,      \* those with a constructor that takes arguments
  UploadNetwork,
  DefaultLimit,    \* DEFAULT_MAX_WASM_SIZE_BYTES, not a network
  Within,          \* Within[l]: the files whose size limit l allows
  Reading          \* calls of processFile under way

ASSUME UploadAssumption ==
  /\ Broken \subseteq Binary /\ NoBinary \notin Binary
  /\ WithConstructor \subseteq Binary /\ WithInputs \subseteq WithConstructor
  /\ DefaultLimit \notin UploadNetwork

VARIABLES
  picked,        \* file
  stats,         \* the file of wasmStats, parsedSpec and previewFunctions
  invalid,       \* fileValidationError is set
  initOf,        \* the file whose function initFunctionName names
  argsOf,        \* the file whose inputs constructorArgs were made for
  initEdited,    \* history: the user changed one of them since it was filled in
  readings,      \* readings[q]: the call q of processFile
  inCompany,     \* history: the last reading to end was not alone
  limit,         \* maxWasmSize: the network it was read from, or the default
  asked,         \* the network whose limit is being fetched, or DefaultLimit
  uploadNetwork,
  installing     \* isUploading

presetVars == <<initOf, argsOf, initEdited>>
uploadVars == <<picked, stats, invalid, presetVars, readings, inCompany, limit, asked,
                uploadNetwork, installing>>

Binaries == Binary \cup {NoBinary}
Limits == UploadNetwork \cup {DefaultLimit}
NoReading == [at |-> "none", of |-> NoBinary, alone |-> TRUE]

UploadInit ==
  /\ picked = NoBinary /\ stats = NoBinary /\ invalid = FALSE
  /\ initOf = NoBinary /\ argsOf = NoBinary /\ initEdited = FALSE
  /\ readings = [q \in Reading |-> NoReading] /\ inCompany = FALSE
  /\ uploadNetwork \in UploadNetwork
  /\ limit = DefaultLimit /\ asked = uploadNetwork
  /\ installing = FALSE

Reads(q) == readings[q].at # "none"
Mixed == inCompany \/ \E q \in Reading : Reads(q) /\ ~ readings[q].alone
Disturbed ==
  [q \in Reading |-> IF Reads(q) THEN [readings[q] EXCEPT !.alone = FALSE] ELSE readings[q]]
Parsing(f) == \E q \in Reading : readings[q].at = "spec" /\ readings[q].of = f

-----------------------------------------------------------------------------
(* A file is picked in the dialog or dropped on the zone, and processFile  *)
(* runs to its first await.                                                *)
PickFile(q, f) ==
  /\ ~ Reads(q)
  /\ LET alone == \A p \in Reading : ~ Reads(p) IN
     readings' = [Disturbed EXCEPT ![q] = [at |-> "bytes", of |-> f, alone |-> alone]]
  /\ invalid' = FALSE
  /\ UNCHANGED <<picked, stats, presetVars, inCompany, limit, asked, uploadNetwork, installing>>

(* Mutant: the message is shown, and what was there stays. *)
RejectedQuietly == invalid' = TRUE /\ picked' = NoBinary /\ UNCHANGED stats

(* A broken file, or one that could not be read, empties the form. *)
Rejected == invalid' = TRUE /\ picked' = NoBinary /\ stats' = NoBinary

ReadingEnds(q) ==
  /\ readings' = [readings EXCEPT ![q] = NoReading]
  /\ inCompany' = ~ readings[q].alone

RejectFile(q) ==
  /\ Reads(q) /\ Rejected /\ ReadingEnds(q)
  /\ UNCHANGED <<presetVars, limit, asked, uploadNetwork, installing>>

(* The bytes are there and begin like a WASM module. *)
AcceptFile(q) ==
  /\ readings[q].at = "bytes" /\ readings[q].of \notin Broken
  /\ picked' = readings[q].of
  /\ readings' = [readings EXCEPT ![q].at = "spec"]
  /\ UNCHANGED <<stats, invalid, presetVars, inCompany, limit, asked, uploadNetwork,
                 installing>>

(* Mutant: a name that is there is not replaced. *)
FillsInOnce(f) ==
  /\ initOf' = IF f \in WithConstructor /\ initOf = NoBinary THEN f ELSE initOf
  /\ argsOf' = IF f \in WithInputs THEN f ELSE argsOf
  /\ initEdited' = (initEdited /\ f \notin WithConstructor)

(* A constructor that is found fills in the init call, and the arguments   *)
(* if it takes any; what there is none for stays as it was.                *)
FillsIn(f) ==
  /\ initOf' = IF f \in WithConstructor THEN f ELSE initOf
  /\ argsOf' = IF f \in WithInputs THEN f ELSE argsOf
  /\ initEdited' = (initEdited /\ f \notin WithConstructor)

(* The spec is parsed. *)
ParseFile(q) ==
  LET f == readings[q].of IN
  /\ readings[q].at = "spec"
  /\ stats' = f
  /\ FillsIn(f)
  /\ ReadingEnds(q)
  /\ UNCHANGED <<picked, invalid, limit, asked, uploadNetwork, installing>>

(* Mutant: only the file is cleared. *)
ClearedLoosely == picked' = NoBinary /\ UNCHANGED stats

Cleared == picked' = NoBinary /\ stats' = NoBinary

ClearSelection ==
  /\ picked # NoBinary /\ stats # NoBinary
  /\ Cleared /\ invalid' = FALSE /\ readings' = Disturbed
  /\ UNCHANGED <<presetVars, inCompany, limit, asked, uploadNetwork, installing>>

(* The user writes a name for the init call, or other arguments.           *)
EditInitCall ==
  /\ initEdited' = TRUE
  /\ \/ initOf' = NoBinary /\ UNCHANGED argsOf
     \/ argsOf' = NoBinary /\ UNCHANGED initOf
  /\ UNCHANGED <<picked, stats, invalid, readings, inCompany, limit, asked, uploadNetwork,
                 installing>>

-----------------------------------------------------------------------------
(* Mutant: an answer for a network that was left still sets the limit. *)
AnyLimit(n) == limit' = n /\ asked' = (IF n = asked THEN DefaultLimit ELSE asked)

(* The effect on the network: the fetch of the one before is cancelled,    *)
(* and until the new limit arrives, or the default in its place, the old   *)
(* one stays.                                                              *)
FetchedLimit(n) == n = asked /\ limit' \in {n, DefaultLimit} /\ asked' = DefaultLimit

FetchLimit(n) ==
  /\ FetchedLimit(n)
  /\ UNCHANGED <<picked, stats, invalid, presetVars, readings, inCompany, uploadNetwork,
                 installing>>

ChangeUploadNetwork(n) ==
  /\ n # uploadNetwork /\ uploadNetwork' = n /\ asked' = n
  /\ UNCHANGED <<picked, stats, invalid, presetVars, readings, inCompany, limit, installing>>

(* Mutant: the button looks at the file alone. *)
OfferedForAny == picked # NoBinary /\ ~ installing

(* The install button: while the stats are missing no size is compared.    *)
InstallOffered ==
  /\ picked # NoBinary /\ ~ installing
  /\ stats # NoBinary => stats \in Within[limit]

(* handleInstall works on what it captured at the click. *)
BeginInstallFile ==
  /\ InstallOffered /\ installing' = TRUE
  /\ UNCHANGED <<picked, stats, invalid, presetVars, readings, inCompany, limit, asked,
                 uploadNetwork>>

(* It succeeds and empties the form, whatever has been chosen meanwhile.   *)
InstallFileSucceeds ==
  /\ installing /\ installing' = FALSE
  /\ Cleared /\ readings' = Disturbed
  /\ UNCHANGED <<invalid, presetVars, inCompany, limit, asked, uploadNetwork>>

InstallFileFails ==
  /\ installing /\ installing' = FALSE
  /\ UNCHANGED <<picked, stats, invalid, presetVars, readings, inCompany, limit, asked,
                 uploadNetwork>>

UploadNext ==
  \/ \E q \in Reading, f \in Binary : PickFile(q, f)
  \/ \E q \in Reading : RejectFile(q) \/ AcceptFile(q) \/ ParseFile(q)
  \/ \E n \in UploadNetwork : FetchLimit(n) \/ ChangeUploadNetwork(n)
  \/ ClearSelection \/ EditInitCall \/ BeginInstallFile \/ InstallFileSucceeds \/ InstallFileFails

UploadSpec == UploadInit /\ [][UploadNext]_uploadVars

-----------------------------------------------------------------------------
UploadTypeOK ==
  /\ picked \in Binaries \ Broken /\ stats \in Binaries \ Broken /\ invalid \in BOOLEAN
  /\ initOf \in WithConstructor \cup {NoBinary} /\ argsOf \in WithInputs \cup {NoBinary}
  /\ initEdited \in BOOLEAN /\ inCompany \in BOOLEAN
  /\ readings \in [Reading -> [at : {"none", "bytes", "spec"}, of : Binaries, alone : BOOLEAN]]
  /\ limit \in Limits /\ asked \in Limits /\ uploadNetwork \in UploadNetwork
  /\ installing \in BOOLEAN

(* What the preview says is of the file that would be installed, once it   *)
(* is read, and there is none without a file; an error stands beside no    *)
(* file: all of it unless another file was chosen, or the form emptied,    *)
(* while one was read.                                                     *)
PreviewIsOfTheBinary ==
  ~ Mixed =>
    /\ IF picked = NoBinary THEN stats = NoBinary ELSE stats = picked \/ Parsing(picked)
    /\ invalid => picked = NoBinary

(* The init call names the constructor of the file shown, with arguments   *)
(* for it where it takes any, unless the user has changed them since.      *)
PresetIsOfTheShown ==
  stats \in WithConstructor /\ ~ initEdited =>
    initOf = stats /\ (stats \in WithInputs => argsOf = stats)

(* What an install sends and records, its file and its functions, belong   *)
(* together and are within the limit shown, unless the button is clicked   *)
(* while a file is read.                                                   *)
InstallsAsShown ==
  InstallOffered /\ ~ Parsing(picked) /\ ~ Mixed => stats = picked /\ picked \in Within[limit]

(* The limit shown is that of the network, or the default, or its fetch    *)
(* is under way.                                                           *)
LimitIsOfTheNetwork == limit \in {uploadNetwork, DefaultLimit} \/ asked = uploadNetwork

(* Together: the form shows, checks and records one file at a time, except *)
(* where readings overlap or are overtaken by the install button.          *)
UploadInv ==
  /\ UploadTypeOK
  /\ PreviewIsOfTheBinary /\ PresetIsOfTheShown
  /\ InstallsAsShown /\ LimitIsOfTheNetwork
=============================================================================
