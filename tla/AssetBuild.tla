----------------------------- MODULE AssetBuild -----------------------------
(***************************************************************************)
(* The packaged xterm resources: build.mjs copies each asset out of         *)
(* node_modules into rawfile, takes its source map comment away and writes  *)
(* the manifest of hashes at the end; test-terminal-policy.mjs checks the   *)
(* packages, the manifest, the files and the notices against each other.    *)
(* A build may be cut off at any point, and the dependencies move on.       *)
(*                                                                         *)
(* A file is the version it came from and whether it still has its source   *)
(* map comment; its hash and its length tell files apart.                   *)
(***************************************************************************)
EXTENDS Naturals, Sequences, SequencesExt

CONSTANTS
  Assets,       \* the assets, in the order they are built
  MaxVersion    \* bound: versions of the dependencies

ASSUME BuildAssumption == Assets \in Seq(STRING) /\ IsInjective(Assets) /\ MaxVersion \in Nat \ {0}

VARIABLES
  declared,   \* the version in package.json
  locked,     \* the version in package-lock.json
  installed,  \* the version in node_modules
  building,   \* the asset the build is at, 0 when none runs
  step,       \* what it does to that asset next
  entries,    \* the manifest it has in memory
  rawfile,    \* the packaged files
  manifest,   \* assets-manifest.json
  notices     \* the version and the hashes THIRD_PARTY_NOTICES.md cites

buildVars == <<declared, locked, installed, building, step, entries, rawfile, manifest, notices>>

Upstream(version) == [version |-> version, sourceMap |-> TRUE]
Packaged(version) == [version |-> version, sourceMap |-> FALSE]
Files == Range(Assets)

\* The repository as it is checked in.
BuildInit ==
  /\ declared = 1 /\ locked = 1 /\ installed = 1
  /\ building = 0 /\ step = "copy" /\ entries = <<>>
  /\ rawfile = [a \in Files |-> Packaged(1)]
  /\ manifest = rawfile
  /\ notices = [version |-> 1, hashes |-> rawfile]

\* package.json takes a new version; npm install locks and installs what is declared.
Upgrade ==
  /\ building = 0 /\ declared < MaxVersion
  /\ declared' = declared + 1
  /\ UNCHANGED <<locked, installed, building, step, entries, rawfile, manifest, notices>>

Install ==
  /\ building = 0
  /\ locked' = declared /\ installed' = declared
  /\ UNCHANGED <<declared, building, step, entries, rawfile, manifest, notices>>

StartBuild ==
  /\ building = 0
  /\ building' = 1 /\ step' = "copy" /\ entries' = <<>>
  /\ UNCHANGED <<declared, locked, installed, rawfile, manifest, notices>>

\* copyFile, then writeFile of the text without its source map comment, then the entry.
BuildAsset ==
  /\ building \in DOMAIN Assets
  /\ LET asset == Assets[building] IN
     \/ /\ step = "copy"
        /\ rawfile' = [rawfile EXCEPT ![asset] = Upstream(installed)]
        /\ step' = "strip"
        /\ UNCHANGED <<entries, building>>
     \/ /\ step = "strip"
        /\ rawfile' = [rawfile EXCEPT ![asset].sourceMap = FALSE]
        /\ step' = "hash"
        /\ UNCHANGED <<entries, building>>
     \/ /\ step = "hash"
        /\ entries' = Append(entries, rawfile[asset])
        /\ step' = "copy"
        /\ building' = building + 1
        /\ UNCHANGED rawfile
  /\ UNCHANGED <<declared, locked, installed, manifest, notices>>

\* Fault: the manifest is brought up to date file by file.
WriteManifestEarly ==
  /\ building > 1
  /\ manifest' = [a \in Files |-> IF \E n \in DOMAIN entries : Assets[n] = a
                                  THEN rawfile[a] ELSE manifest[a]]
  /\ building' = IF building > Len(Assets) THEN 0 ELSE building
  /\ UNCHANGED <<declared, locked, installed, step, entries, rawfile, notices>>

WriteManifest ==
  /\ building > Len(Assets)
  /\ manifest' = [a \in Files |-> entries[CHOOSE n \in DOMAIN Assets : Assets[n] = a]]
  /\ building' = 0
  /\ UNCHANGED <<declared, locked, installed, step, entries, rawfile, notices>>

CutOff ==
  /\ building # 0
  /\ building' = 0
  /\ UNCHANGED <<declared, locked, installed, step, entries, rawfile, manifest, notices>>

\* The notices are written by hand from the manifest.
CiteNotices ==
  /\ notices' = [version |-> declared, hashes |-> manifest]
  /\ UNCHANGED <<declared, locked, installed, building, step, entries, rawfile, manifest>>

BuildNext ==
  \/ Upgrade \/ Install \/ StartBuild \/ BuildAsset \/ WriteManifest \/ CutOff \/ CiteNotices

BuildSpec == BuildInit /\ [][BuildNext]_buildVars

\* The asserts of test-terminal-policy.mjs.
PackagesMatch == locked = declared
FilesMatchManifest == rawfile = manifest
NoticesCite == notices.version = declared /\ notices.hashes = manifest
AssetChecksPass == PackagesMatch /\ FilesMatchManifest /\ NoticesCite

(* Files that pass the checks are those of one build that came to its end: none of them is   *)
(* half done, and none is of another version than the rest, wherever builds were cut off and  *)
(* however often the dependencies moved on.                                                   *)
ChecksTakeWholeBuilds ==
  AssetChecksPass => \E version \in 1..MaxVersion : rawfile = [a \in Files |-> Packaged(version)]
=============================================================================
