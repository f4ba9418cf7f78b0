---------------------------- MODULE ContentCache ----------------------------
(***************************************************************************)
(* Content that is not loaded in place is unpacked or compiled into a       *)
(* cache directory named after a hash of its source, and reused from there. *)
(* This module is one source file, whose bytes may be replaced by another    *)
(* version at any time, the disk, and a program that may stop at any step    *)
(* and be started again.                                                    *)
(*                                                                         *)
(* Four families write where they will be read, and say so afterwards with *)
(* a marker; three write elsewhere and publish with one rename:           *)
(*   archive     a ZIP with a payload, assets and an anchor;                 *)
(*   project     a project compiled to a payload, with included files;       *)
(*   keeping     the same with included files that ask not to be overwritten *)
(*   executable  a payload carried by an executable                          *)
(*   cabinet     a payload and assets, with a manifest of all of them        *)
(*   installer   the same without a manifest, unpacked by every load         *)
(*   prepared    a transformed image, compared with a fresh one by each load *)
(***************************************************************************)
EXTENDS Naturals, FiniteSets

CONSTANTS
  Versions,   \* what the source file may hold
  Families,   \* the families of content that are tried
  MaxFaults,  \* bound: stops, failures and replacements during a load
  None, Torn  \* an absent file; a file whose write was not completed

InPlace == {"archive", "project", "keeping", "executable"}
Staged == {"cabinet", "installer", "prepared"}
\* Their marker names the payload and stands for every file; they look at their source only once.
Vouching == {"archive", "project", "keeping"}
Members == {"anchor", "asset", "payload"}
Content == Versions \cup {None, Torn}

ASSUME CacheAssumption ==
  /\ Families \subseteq InPlace \cup Staged
  /\ MaxFaults \in Nat
  /\ None \notin Versions \cup Members /\ Torn \notin Versions /\ None # Torn

VARIABLES
  family,   \* of the source, fixed
  source,   \* the version the source file holds
  cache,    \* the directory of each version: its files and its marker
  staging,  \* the unpublished directory of this program
  pc,       \* where the load is
  key,      \* the version whose hash the load took, or None
  image,    \* the version it unpacks
  todo,     \* members still to be written
  open,     \* the member being written, or None
  faults,   \* what has gone wrong so far
  spoiled   \* history: directories of vouching families that may hold what no marker tells: see Spoil

vars == <<family, source, cache, staging, pc, key, image, todo, open, faults, spoiled>>
disk == <<cache, staging>>

MembersOf(f) ==
  CASE f = "archive" -> Members
    [] f \in {"project", "keeping", "cabinet", "installer"} -> {"asset", "payload"}
    [] f \in {"executable", "prepared"} -> {"payload"}

Directory == [files : [Members -> Content], marker : Versions \cup {None}]
Empty == [files |-> [m \in Members |-> None], marker |-> None]

TypeOK ==
  /\ family \in Families /\ source \in Versions
  /\ cache \in [Versions -> Directory] /\ staging \in Directory
  /\ pc \in {"off", "sweep", "match", "fill", "check", "replace", "play", "close"}
  /\ key \in Versions \cup {None} /\ image \in Versions \cup {None}
  /\ todo \subseteq Members /\ open \in todo \cup {None}
  /\ (pc = "off" <=> key = None)
  /\ faults \in 0..MaxFaults /\ spoiled \subseteq Versions

Init ==
  /\ family \in Families /\ source \in Versions
  /\ cache = [v \in Versions |-> Empty] /\ staging = Empty
  /\ pc = "off" /\ key = None /\ image = None
  /\ todo = {} /\ open = None /\ faults = 0 /\ spoiled = {}

Fault == faults < MaxFaults /\ faults' = faults + 1
GoTo(p) == pc' = p /\ UNCHANGED <<family, source, key, image, todo, open>>
Ends == pc' = "off" /\ key' = None /\ image' = None /\ UNCHANGED <<family, source>>

\* Mistake: a file whose write failed stays open.
LeaveOpen == Ends /\ todo' = {} /\ UNCHANGED open

Leave == Ends /\ todo' = {} /\ open' = None

\* The source was replaced between its hash and its unpacking; a clearing is halfway; a file that will
\* not be overwritten was left torn.  Undone by clearing the directory or writing all of it anew.
Spoil(vs) == spoiled' = IF family \in Vouching THEN spoiled \cup vs ELSE spoiled
-----------------------------------------------------------------------------
(* Files of a directory.                                                   *)

WithFile(d, m, c) == [files |-> [d.files EXCEPT ![m] = c], marker |-> d.marker]
WithMarker(d, c) == [files |-> d.files, marker |-> c]
Without(d, e) == IF e = "marker" THEN WithMarker(d, None) ELSE WithFile(d, e, None)
Entries(d) == {m \in Members : d.files[m] # None}
              \cup (IF d.marker # None THEN {"marker"} ELSE {})
-----------------------------------------------------------------------------
(* What a load accepts of an earlier one.                                  *)

\* The marker holds the hash of the payload; a manifest, of every member.
Accepted(d, v) ==
  CASE family \in InPlace -> d.marker # None /\ d.files["payload"] = d.marker
    [] family = "cabinet" -> d.marker # None /\ \A m \in MembersOf(family) : d.files[m] = d.marker
    [] family = "prepared" -> d.files["payload"] = v
    [] family = "installer" -> FALSE

\* The load starts; all caches may be cleared first. The hash of the source
\* names the directory from here on.
Begin ==
  /\ pc = "off" /\ pc' \in {"sweep", "match"} /\ key' = source
  /\ UNCHANGED <<family, source, disk, image, todo, open, faults, spoiled>>

Reuse ==
  /\ pc = "match" /\ Accepted(cache[key], key)
  /\ IF family \in {"cabinet", "prepared"} /\ source # key
     THEN Leave
     ELSE GoTo("play")
  /\ UNCHANGED <<disk, faults, spoiled>>

\* What is left of an earlier attempt is removed, as far as the family does so.
Prepare ==
  /\ pc = "match" /\ ~Accepted(cache[key], key)
  /\ pc' = "fill" /\ image' = source /\ todo' = MembersOf(family)
  /\ IF family = "archive"
     THEN cache' = [cache EXCEPT ![key] = Without(@, "anchor")] /\ UNCHANGED staging
     ELSE staging' = Empty /\ UNCHANGED cache
  /\ Spoil({key} \ {source})
  /\ UNCHANGED <<family, source, key, open, faults>>
-----------------------------------------------------------------------------
(* Writing the members.                                                    *)

Target == IF family \in InPlace THEN cache[key] ELSE staging

Put(m, c) ==
  IF family \in InPlace
  THEN cache' = [cache EXCEPT ![key] = WithFile(@, m, c)] /\ UNCHANGED staging
  ELSE staging' = WithFile(staging, m, c) /\ UNCHANGED cache

\* The anchor comes first; a compiled payload comes last.
Turn(m) ==
  /\ m \in todo
  /\ "anchor" \in todo => m = "anchor"
  /\ m = "payload" /\ family \in {"project", "keeping"} => todo = {"payload"}

\* An included file that is not to be overwritten is left as it is found.
Skips(m) == family = "keeping" /\ m = "asset" /\ Target.files[m] # None

OpenMember(m) ==
  /\ pc = "fill" /\ open = None /\ Turn(m) /\ ~Skips(m)
  /\ open' = m /\ Put(m, Torn)
  /\ UNCHANGED <<family, source, pc, key, image, todo, faults, spoiled>>

WriteMember ==
  /\ pc = "fill" /\ open # None
  /\ Put(open, image) /\ todo' = todo \ {open} /\ open' = None
  /\ UNCHANGED <<family, source, pc, key, image, faults, spoiled>>

SkipMember(m) ==
  /\ pc = "fill" /\ open = None /\ Turn(m) /\ Skips(m)
  /\ todo' = todo \ {m}
  /\ UNCHANGED <<family, source, disk, pc, key, image, open, faults, spoiled>>

LeavesKept == IF family = "keeping" /\ open = "asset" THEN {key} ELSE {}

\* A write that fails ends the load: an archive takes the file away, a
\* staging directory goes as a whole, the others leave the torn file.
WriteFails ==
  /\ pc = "fill" /\ open # None /\ Fault /\ Leave
  /\ IF family = "archive" THEN Put(open, None)
     ELSE IF family \in Staged THEN staging' = Empty /\ UNCHANGED cache
     ELSE UNCHANGED disk
  /\ Spoil(LeavesKept)

Filled == todo = {} /\ open = None

Check ==
  /\ pc = "fill" /\ Filled
  /\ GoTo("check") /\ UNCHANGED <<disk, faults>>
  /\ spoiled' = IF image = key /\ family # "keeping" THEN spoiled \ {key} ELSE spoiled
-----------------------------------------------------------------------------
(* Publishing.                                                             *)

\* Mistake: the source is not looked at again.
NoSourceCheck == TRUE

\* Executables hash their source again when they have been written, installers and transformed images
\* what they read, cabinets both.
SourceStands == /\ family \in {"executable", "cabinet"} => source = key
                /\ family \in {"cabinet", "installer", "prepared"} => image = key

\* The input changed: nothing of it may stay behind as the old version's.
Reject ==
  /\ pc = "check" /\ ~SourceStands /\ Leave /\ UNCHANGED <<faults, spoiled>>
  /\ IF family = "executable" THEN Put("payload", None)
     ELSE staging' = Empty /\ UNCHANGED cache

\* In place the marker is written aside and renamed over an older one; if
\* that fails the load goes on without.
Seal ==
  /\ pc = "check" /\ SourceStands /\ family \in InPlace
  /\ GoTo("play") /\ UNCHANGED <<staging, spoiled>>
  /\ \/ cache' = [cache EXCEPT ![key] = WithMarker(@, @.files["payload"])] /\ UNCHANGED faults
     \/ Fault /\ UNCHANGED cache

\* A cabinet's manifest is written into the staging directory.
Manifest ==
  /\ pc = "check" /\ SourceStands /\ family \in Staged
  /\ GoTo("replace") /\ UNCHANGED <<cache, faults, spoiled>>
  /\ staging' = WithMarker(staging, IF family = "cabinet" THEN image ELSE None)

\* Mistake: the old directory is only removed if it is a published one.
RemovableIfMarked(d) == IF d.marker = None THEN {} ELSE Entries(d)

Removable(d) == Entries(d)

RemoveOld ==
  /\ pc = "replace"
  /\ \E e \in Removable(cache[key]) : cache' = [cache EXCEPT ![key] = Without(@, e)]
  /\ UNCHANGED <<family, source, staging, pc, key, image, todo, open, faults, spoiled>>

\* One rename, which does not replace a directory that is not empty.
Publish ==
  /\ pc = "replace" /\ Removable(cache[key]) = {}
  /\ IF Entries(cache[key]) = {}
     THEN cache' = [cache EXCEPT ![key] = staging] /\ staging' = Empty /\ GoTo("play")
     ELSE staging' = Empty /\ Leave /\ UNCHANGED cache
  /\ UNCHANGED <<faults, spoiled>>

PublishFails ==
  /\ pc \in {"check", "replace"} /\ family \in Staged /\ Fault /\ Leave
  /\ staging' = Empty /\ UNCHANGED <<cache, spoiled>>
-----------------------------------------------------------------------------
(* Clearing: everything before a load, the game's directory after it.       *)

Doomed == IF pc = "sweep" THEN Versions ELSE {key}
Gone(vs) == [v \in Versions |-> IF v \in vs THEN Empty ELSE cache[v]]
AfterClear == IF pc = "sweep" THEN GoTo("match") ELSE Leave

ClearEntry ==
  /\ pc \in {"sweep", "close"}
  /\ \E v \in Doomed : /\ \E e \in Entries(cache[v]) : cache' = [cache EXCEPT ![v] = Without(@, e)]
                       /\ Spoil({v})
  /\ UNCHANGED <<family, source, staging, pc, key, image, todo, open, faults>>

Cleared ==
  /\ pc \in {"sweep", "close"}
  /\ cache' = Gone(Doomed) /\ spoiled' = spoiled \ Doomed /\ AfterClear
  /\ staging' \in {staging, Empty} /\ UNCHANGED faults

\* A clearing that fails refuses the load, or ends the unload with a warning.
ClearFails ==
  /\ pc \in {"sweep", "close"} /\ Fault /\ Leave /\ UNCHANGED <<disk, spoiled>>

Close ==
  /\ pc = "play" /\ UNCHANGED <<disk, faults, spoiled>>
  /\ GoTo("close") \/ Leave
-----------------------------------------------------------------------------
(* The world around the program.                                           *)

\* The program stops. The next one stages elsewhere, or by chance here again.
Stop ==
  /\ pc # "off" /\ Fault /\ Leave /\ Spoil(LeavesKept)
  /\ staging' \in {staging, Empty} /\ UNCHANGED cache

\* The program gives up on something that does not touch the disk.
Refuse ==
  /\ pc \in {"match", "fill"} /\ open = None /\ Fault /\ Leave
  /\ staging' = (IF family \in Staged THEN Empty ELSE staging) /\ UNCHANGED <<cache, spoiled>>

\* The source becomes another version, during a load at most once: a file that is put back while it
\* is read may be read in between.
Replace ==
  /\ pc # "off" => source = key /\ Fault
  /\ pc = "off" => UNCHANGED faults
  /\ source' \in Versions \ {source}
  /\ UNCHANGED <<family, disk, pc, key, image, todo, open, spoiled>>

Load == \/ Reuse \/ Prepare \/ WriteMember \/ Check \/ Reject \/ Seal \/ Manifest
        \/ RemoveOld \/ Publish \/ Cleared
        \/ \E m \in Members : OpenMember(m) \/ SkipMember(m)

Next == \/ Begin \/ Load \/ WriteFails \/ PublishFails \/ ClearEntry \/ ClearFails
        \/ Close \/ Stop \/ Refuse \/ Replace

Spec == Init /\ [][Next]_vars /\ WF_vars(Begin) /\ WF_vars(Load)
-----------------------------------------------------------------------------
\* A program that was started runs on a complete tree of the version whose hash its load took: neither a
\* stop in the middle of an earlier load, nor a failed write, a replaced source or an interrupted
\* clearing leaves anything that a later load takes for complete (content_router.c:1422,
\* embedded_cab.c:861).  With three exceptions, which the history spoiled records and docs/
\* SECURITY_MODEL.md:299 does not have: an archive or a project hashes its source and reads it again
\* unchecked (content_router.c:1411, :1442), and compares only the payload with its marker, which an
\* interrupted clearing may leave (:1427); an included file that is not to be overwritten stays as a
\* stopped load left it (gmlc_package.c:86).  Even there the payload is a version's, never torn.
ServedIsWhole ==
  pc = "play" =>
    /\ cache[key].files["payload"] \in Versions
    /\ key \notin spoiled => \A m \in MembersOf(family) : cache[key].files[m] = key

\* Whatever stops and failures leave on the disk, a load that is tried again succeeds: no leftover
\* blocks a rename or is refused for ever (embedded_cab.c:1068, :1114; content_router.c:1441).
Recovers == []<>(pc = "play")
=============================================================================
