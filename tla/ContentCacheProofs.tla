-------------------------- MODULE ContentCacheProofs --------------------------
(***************************************************************************)
(* What a cache serves is complete, for any number of versions and faults. *)
(***************************************************************************)
EXTENDS ContentCache, TLAPS

Whole(d, v) == \A m \in MembersOf(family) : d.files[m] = v

\* Elsewhere a marker names what its directory is for.  In a vouching family it speaks of every file
\* unless the directory is spoiled: a payload is the directory's version or nobody's, so that whatever
\* older marker is found beside it is not taken for it, and an included file is not torn.
DirInv(v) ==
  /\ family \notin Vouching => cache[v].marker \in {None, v}
  /\ family \in Vouching /\ v \notin spoiled =>
       /\ cache[v].marker = v => Whole(cache[v], v)
       /\ cache[v].files["payload"] \in {v, None, Torn}
       /\ family = "keeping" => \/ cache[v].files["asset"] \in {v, None}
                                \/ open = "asset" /\ key = v

CacheInv == \A v \in Versions : DirInv(v)

\* The image is the version whose hash was taken, or the source can be seen to have changed.
ImageInv ==
  /\ pc \in {"fill", "check", "replace"} => image \in Versions /\ (image = key \/ source # key)
  /\ pc = "replace" => image = key
  /\ pc \in {"fill", "check"} /\ family \in Vouching /\ key \notin spoiled => image = key

\* Included files are kept as they are found, which in a spoiled directory may be anything.
Left(m) == family = "keeping" /\ m = "asset" /\ key \in spoiled

\* What is no longer to be written has been written, where no marker vouches for it yet.
WrittenInv ==
  /\ pc # "fill" => Filled
  /\ pc \in {"fill", "check"} =>
       \A m \in MembersOf(family) \ todo : Target.files[m] = image \/ Left(m)
  /\ pc = "fill" /\ family \in Vouching /\ key \notin spoiled => cache[key].marker # key

\* A staging directory about to be published, and a cache in use, are whole.
PublishInv ==
  /\ pc = "replace" => /\ family \in Staged /\ Whole(staging, key)
                       /\ staging.marker \in {None, key}
  /\ pc = "play" => /\ cache[key].files["payload"] \in Versions
                    /\ key \notin spoiled => Whole(cache[key], key)

IInv == TypeOK /\ CacheInv /\ ImageInv /\ WrittenInv /\ PublishInv
-----------------------------------------------------------------------------
LEMMA MembersKnown ==
  ASSUME NEW f \in InPlace \cup Staged
  PROVE  MembersOf(f) \subseteq Members /\ "payload" \in MembersOf(f)
BY DEF MembersOf, Members, InPlace, Staged

LEMMA FileWritten ==
  ASSUME NEW d \in Directory, NEW m \in Members, NEW c \in Content
  PROVE  /\ WithFile(d, m, c) \in Directory
         /\ WithFile(d, m, c).marker = d.marker
         /\ \A n \in Members : WithFile(d, m, c).files[n] = IF n = m THEN c ELSE d.files[n]
BY DEF WithFile, Directory

LEMMA MarkerWritten ==
  ASSUME NEW d \in Directory, NEW c \in Versions \cup {None}
  PROVE  /\ WithMarker(d, c) \in Directory
         /\ WithMarker(d, c).marker = c
         /\ WithMarker(d, c).files = d.files
BY DEF WithMarker, Directory

LEMMA EmptyIsDirectory ==
  /\ Empty \in Directory /\ Empty.marker = None
  /\ \A m \in Members : Empty.files[m] = None
BY DEF Empty, Directory, Content

LEMMA EntryRemoved ==
  ASSUME NEW d \in Directory, NEW e \in Entries(d)
  PROVE  Without(d, e) \in Directory /\ Without(d, e).marker \in {None, d.marker}
<1>1. CASE e = "marker"
  BY <1>1, MarkerWritten DEF Without
<1>2. CASE e # "marker"
  <2>1. e \in Members
    BY <1>2 DEF Entries
  <2> QED
    BY <1>2, <2>1, FileWritten DEF Without, Content
<1> QED
  BY <1>1, <1>2
-----------------------------------------------------------------------------
\* A step that ends the load, or whatever happens while none is under way, owes only this.
LEMMA Leaving ==
  ASSUME IInv, Leave, faults' \in 0..MaxFaults, spoiled' \subseteq Versions,
         cache' \in [Versions -> Directory], CacheInv', staging' \in Directory
  PROVE  IInv'
BY DEF IInv, TypeOK, Leave, Ends, ImageInv, WrittenInv, PublishInv, Filled

\* Nothing changes but the phase.
LEMMA Faulted ==
  ASSUME IInv
  PROVE  /\ faults \in 0..MaxFaults
         /\ Fault => faults' \in 0..MaxFaults
BY CacheAssumption DEF IInv, TypeOK, Fault

LEMMA Spoiling ==
  ASSUME IInv, NEW vs \in SUBSET Versions, Spoil(vs)
  PROVE  /\ spoiled' \subseteq Versions /\ spoiled \subseteq spoiled'
         /\ family \in Vouching => vs \subseteq spoiled'
BY DEF IInv, TypeOK, Spoil

\* A directory that is not touched keeps what it has, unless the file written to it is abandoned.
LEMMA DirKept ==
  ASSUME NEW v \in Versions, DirInv(v), UNCHANGED family, cache'[v] = cache[v],
         v \in spoiled => v \in spoiled',
         open = "asset" /\ key = v /\ family = "keeping" /\ v \notin spoiled'
           => open' = "asset" /\ key' = v
  PROVE  DirInv(v)'
<1>1. Whole(cache[v], v)' <=> Whole(cache[v], v)
  BY DEF Whole
<1> QED
  BY <1>1 DEF DirInv

LEMMA SameCache ==
  ASSUME CacheInv, UNCHANGED <<cache, family>>, spoiled \subseteq spoiled',
         open = "asset" /\ family = "keeping" => UNCHANGED <<open, key>> \/ key \in spoiled'
  PROVE  CacheInv'
<1> SUFFICES ASSUME NEW v \in Versions PROVE DirInv(v)'
  BY DEF CacheInv
<1>1. DirInv(v) /\ cache'[v] = cache[v] /\ UNCHANGED family /\ (v \in spoiled => v \in spoiled')
  BY DEF CacheInv
<1>2. open = "asset" /\ key = v /\ family = "keeping" /\ v \notin spoiled'
        => open' = "asset" /\ key' = v
  OBVIOUS
<1> QED
  BY <1>1, <1>2, DirKept

\* Nothing is open but while members are written.
LEMMA NoneOpen ==
  ASSUME IInv, pc # "fill"
  PROVE  open # "asset"
BY CacheAssumption DEF IInv, WrittenInv, Filled, Members

\* Writing into a directory no marker vouches for.
LEMMA Putting ==
  ASSUME IInv, NEW m \in Members, NEW c \in Content, Put(m, c), UNCHANGED family, pc = "fill",
         spoiled \subseteq spoiled',
         family \in Vouching /\ key \notin spoiled' /\ m = "payload" => c \in {key, None, Torn},
         family = "keeping" /\ key \notin spoiled' =>
           IF m = "asset" THEN c \in {key, None} \/ (open' = "asset" /\ key' = key)
           ELSE open # "asset"
  PROVE  /\ cache' \in [Versions -> Directory] /\ staging' \in Directory
         /\ CacheInv'
         /\ key' = key =>
              \A n \in Members : Target'.files[n] = IF n = m THEN c ELSE Target.files[n]
         /\ cache'[key].marker = cache[key].marker
<1>1. key \in Versions /\ family \in InPlace \cup Staged
  BY CacheAssumption DEF IInv, TypeOK
<1>2. CASE family \in InPlace
  <2> DEFINE d == WithFile(cache[key], m, c)
  <2>1. cache' = [cache EXCEPT ![key] = d] /\ staging' = staging
    BY <1>2 DEF Put
  <2>2. /\ d \in Directory /\ d.marker = cache[key].marker
        /\ \A n \in Members : d.files[n] = IF n = m THEN c ELSE cache[key].files[n]
    BY <1>1, FileWritten DEF IInv, TypeOK
  <2> HIDE DEF d
  <2>3. CacheInv'
    <3> SUFFICES ASSUME NEW v \in Versions PROVE DirInv(v)'
      BY DEF CacheInv
    <3>1. CASE v = key
      <4>1. cache'[v] = d /\ DirInv(v)
        BY <2>1, <3>1, <1>1 DEF IInv, TypeOK, CacheInv
      <4>2. family \in Vouching /\ v \notin spoiled' => cache'[v].marker # v
        BY <4>1, <2>2, <3>1 DEF IInv, WrittenInv
      <4>3. family \notin Vouching => cache'[v].marker \in {None, v}
        BY <4>1, <2>2, <3>1 DEF DirInv
      <4>4. "payload" \in Members /\ "asset" \in Members
        BY DEF Members
      <4>5. family \in Vouching /\ v \notin spoiled' => cache'[v].files["payload"] \in {v, None, Torn}
        BY <4>1, <4>4, <2>2, <3>1 DEF DirInv
      <4>6. family = "keeping" /\ v \notin spoiled' => \/ cache'[v].files["asset"] \in {v, None}
                                                       \/ open' = "asset" /\ key' = v
        BY <4>1, <4>4, <2>2, <3>1 DEF DirInv, Vouching
      <4> QED
        BY <4>2, <4>3, <4>5, <4>6 DEF DirInv
    <3>2. CASE v # key
      <4>1. cache'[v] = cache[v] /\ DirInv(v)
        BY <2>1, <3>2 DEF IInv, TypeOK, CacheInv
      <4> QED
        BY <4>1, <3>2, DirKept
    <3> QED
      BY <3>1, <3>2
  <2>4. cache' \in [Versions -> Directory] /\ cache'[key] = d
    BY <2>1, <2>2, <1>1 DEF IInv, TypeOK
  <2> QED
    BY <2>1, <2>2, <2>3, <2>4, <1>2 DEF Target, IInv, TypeOK
<1>3. CASE family \notin InPlace
  <2>1. cache' = cache /\ staging' = WithFile(staging, m, c)
    BY <1>3 DEF Put
  <2>2. staging \in Directory
    BY DEF IInv, TypeOK
  <2>3. CacheInv'
    BY <2>1, <1>3, SameCache DEF IInv, InPlace
  <2> QED
    BY <2>1, <2>2, <2>3, <1>3, FileWritten DEF Target, IInv, TypeOK
<1> QED
  BY <1>2, <1>3
-----------------------------------------------------------------------------
LEMMA InitInv == Init => IInv
<1> SUFFICES ASSUME Init PROVE IInv
  OBVIOUS
<1>1. TypeOK
  BY CacheAssumption, EmptyIsDirectory DEF Init, TypeOK
<1>2. CacheInv
  <2> SUFFICES ASSUME NEW v \in Versions PROVE DirInv(v)
    BY DEF CacheInv
  <2>1. cache[v] = Empty /\ v # None
    BY CacheAssumption DEF Init
  <2> QED
    BY <2>1, EmptyIsDirectory DEF DirInv, Members
<1> QED
  BY <1>1, <1>2 DEF Init, IInv, ImageInv, WrittenInv, PublishInv, Filled

LEMMA BeginKeeps == ASSUME IInv, Begin PROVE IInv'
<1>1. TypeOK'
  BY CacheAssumption DEF IInv, TypeOK, Begin, disk
<1>2. CacheInv'
  BY NoneOpen, SameCache DEF IInv, Begin, disk
<1> QED
  BY <1>1, <1>2 DEF IInv, Begin, ImageInv, WrittenInv, PublishInv, Filled, TypeOK

\* What a load accepts is whole, unless its directory is spoiled.
LEMMA AcceptedIsWhole ==
  ASSUME IInv, NEW v \in Versions, Accepted(cache[v], v)
  PROVE  cache[v].files["payload"] \in Versions /\ (v \notin spoiled => Whole(cache[v], v))
<1>0. cache[v].marker \in Versions \cup {None} /\ DirInv(v)
  BY DEF IInv, TypeOK, Directory, CacheInv
<1>1. family \in InPlace \cup Staged
  BY CacheAssumption DEF IInv, TypeOK
<1>2. CASE family \in Vouching
  <2>1. /\ cache[v].marker \in Versions
        /\ cache[v].files["payload"] = cache[v].marker
    BY <1>0, <1>2 DEF Accepted, Vouching, InPlace
  <2>2. v \notin spoiled => cache[v].marker = v
    BY <1>0, <1>2, <2>1, CacheAssumption DEF DirInv
  <2> QED
    BY <1>0, <1>2, <2>1, <2>2 DEF DirInv
<1>3. CASE family = "executable"
  <2>1. cache[v].files["payload"] = v
    BY <1>0, <1>3 DEF DirInv, Vouching, Accepted, InPlace
  <2> QED
    BY <1>3, <2>1 DEF Whole, MembersOf
<1>4. CASE family = "cabinet"
  BY <1>0, <1>4, MembersKnown DEF DirInv, Vouching, Accepted, InPlace, Whole, Staged
<1>5. CASE family = "prepared"
  BY <1>5 DEF Accepted, InPlace, Whole, MembersOf
<1>6. CASE family = "installer"
  BY <1>6 DEF Accepted, InPlace
<1> QED
  BY <1>1, <1>2, <1>3, <1>4, <1>5, <1>6 DEF InPlace, Staged, Vouching

LEMMA ReuseKeeps == ASSUME IInv, Reuse PROVE IInv'
<1>1. key \in Versions
  BY DEF IInv, TypeOK, Reuse
<1>2. cache[key].files["payload"] \in Versions /\ (key \notin spoiled => Whole(cache[key], key))
  BY <1>1, AcceptedIsWhole DEF Reuse
<1>3. CacheInv'
  BY NoneOpen, SameCache DEF IInv, Reuse, GoTo, Leave, Ends, disk
<1>4. CASE Leave
  BY <1>3, <1>4, Leaving, Faulted DEF Reuse, IInv, TypeOK, disk
<1>5. CASE GoTo("play")
  <2>1. TypeOK'
    BY <1>5 DEF IInv, TypeOK, Reuse, GoTo, disk
  <2>2. PublishInv'
    BY <1>2, <1>5 DEF Reuse, GoTo, Whole, PublishInv, disk
  <2>3. pc = "match" /\ pc' = "play"
    BY <1>5 DEF Reuse, GoTo
  <2>4. ImageInv'
    BY <2>3, <1>5 DEF IInv, ImageInv, GoTo
  <2>5. WrittenInv'
    BY <2>3, <1>5 DEF IInv, WrittenInv, GoTo, Filled
  <2> QED
    BY <1>3, <2>1, <2>2, <2>3, <2>4, <2>5 DEF IInv
<1> QED
  BY <1>4, <1>5 DEF Reuse

LEMMA PrepareKeeps == ASSUME IInv, Prepare PROVE IInv'
<1>1. key \in Versions /\ cache[key] \in Directory /\ family \in InPlace \cup Staged
  BY CacheAssumption DEF IInv, TypeOK, Prepare
<1>0. /\ spoiled' \subseteq Versions /\ spoiled \subseteq spoiled'
      /\ family \in Vouching /\ key \notin spoiled' => source = key
  BY <1>1, Spoiling DEF Prepare
<1>2. family \in Vouching /\ key \notin spoiled' => cache[key].marker # key
  <2> SUFFICES ASSUME family \in Vouching, key \notin spoiled, cache[key].marker = key PROVE FALSE
    BY <1>0
  <2>1. Whole(cache[key], key) /\ cache[key].marker = key
    BY <1>1 DEF IInv, CacheInv, DirInv
  <2>2. cache[key].files["payload"] = key
    BY <1>1, <2>1, MembersKnown DEF Whole
  <2> QED
    BY <1>1, <2>1, <2>2, CacheAssumption DEF Prepare, Accepted, Vouching, InPlace
<1>3. /\ cache' \in [Versions -> Directory] /\ staging' \in Directory
      /\ CacheInv' /\ cache'[key].marker = cache[key].marker
  <2>1. CASE family = "archive"
    <3> DEFINE d == Without(cache[key], "anchor")
    <3>1. /\ d \in Directory /\ d.marker = cache[key].marker
          /\ d.files["payload"] = cache[key].files["payload"]
      BY <1>1, FileWritten DEF Without, Members, Content
    <3>2. cache' = [cache EXCEPT ![key] = d] /\ staging' = staging
      BY <2>1 DEF Prepare
    <3> HIDE DEF d
    <3>3. cache'[key] = d /\ \A v \in Versions : v # key => cache'[v] = cache[v]
      BY <3>2, <1>1 DEF IInv, TypeOK
    <3>4. CacheInv'
      <4> SUFFICES ASSUME NEW v \in Versions PROVE DirInv(v)'
        BY DEF CacheInv
      <4>0. DirInv(v) /\ UNCHANGED family
        BY DEF IInv, CacheInv, Prepare
      <4>1. CASE v = key
        <5>1. v \notin spoiled' => /\ cache'[v].marker # v
                                   /\ cache'[v].files["payload"] \in {v, None, Torn}
          BY <4>0, <4>1, <3>1, <3>3, <1>0, <1>2, <2>1 DEF Vouching, DirInv
        <5> QED
          BY <4>0, <5>1, <2>1 DEF DirInv, Vouching
      <4>2. CASE v # key
        BY <4>0, <4>2, <3>3, <1>0, <2>1, DirKept
      <4> QED
        BY <4>1, <4>2
    <3> QED
      BY <3>1, <3>2, <3>3, <3>4 DEF IInv, TypeOK
  <2>2. CASE family # "archive"
    <3>1. UNCHANGED <<cache, family>> /\ staging' = Empty /\ pc # "fill"
      BY <2>2 DEF Prepare
    <3> QED
      BY <3>1, <1>0, NoneOpen, SameCache, EmptyIsDirectory DEF IInv, TypeOK
  <2> QED
    BY <2>1, <2>2
<1>4. TypeOK'
  <2>1. open = None
    BY DEF IInv, WrittenInv, Filled, Prepare
  <2> QED
    BY <1>0, <1>1, <1>3, <2>1, MembersKnown DEF IInv, TypeOK, Prepare
<1>5. ImageInv'
  BY <1>0 DEF IInv, ImageInv, Prepare, TypeOK
<1>6. WrittenInv' /\ PublishInv'
  BY <1>2, <1>3 DEF WrittenInv, PublishInv, Prepare
<1> QED
  BY <1>3, <1>4, <1>5, <1>6 DEF IInv
-----------------------------------------------------------------------------
LEMMA OpenMemberKeeps ==
  ASSUME IInv, NEW m \in Members, OpenMember(m) PROVE IInv'
<1>0. /\ Put(m, Torn) /\ UNCHANGED <<family, key>> /\ pc = "fill" /\ open = None /\ open' = m
      /\ UNCHANGED spoiled
  BY DEF OpenMember
<1>1. /\ cache' \in [Versions -> Directory] /\ staging' \in Directory /\ CacheInv'
      /\ \A n \in Members : Target'.files[n] = IF n = m THEN Torn ELSE Target.files[n]
      /\ cache'[key].marker = cache[key].marker
  BY <1>0, CacheAssumption, Putting DEF Content, Members
<1>2. m \in todo /\ MembersOf(family) \subseteq Members
  BY CacheAssumption, MembersKnown DEF OpenMember, Turn, IInv, TypeOK
<1>3. TypeOK'
  BY <1>1, <1>2 DEF IInv, TypeOK, OpenMember
<1>4. WrittenInv'
  BY <1>1, <1>2 DEF IInv, WrittenInv, OpenMember, Left
<1> QED
  BY <1>1, <1>3, <1>4 DEF IInv, ImageInv, PublishInv, OpenMember

LEMMA WriteMemberKeeps == ASSUME IInv, WriteMember PROVE IInv'
<1>0. open \in Members /\ image \in Versions /\ MembersOf(family) \subseteq Members
  BY CacheAssumption, MembersKnown DEF WriteMember, IInv, TypeOK, ImageInv
<1>2. /\ Put(open, image) /\ UNCHANGED <<family, key, image, spoiled>> /\ pc = "fill" /\ open' = None
      /\ todo' = todo \ {open}
  BY DEF WriteMember
<1>5. family \in Vouching /\ key \notin spoiled => image = key
  BY <1>2 DEF IInv, ImageInv
<1>6. family = "keeping" => family \in Vouching
  BY DEF Vouching
<1>1. /\ cache' \in [Versions -> Directory] /\ staging' \in Directory /\ CacheInv'
      /\ \A n \in Members : Target'.files[n] = IF n = open THEN image ELSE Target.files[n]
      /\ cache'[key].marker = cache[key].marker
  BY <1>0, <1>2, <1>5, <1>6, Putting DEF Content
<1>3. TypeOK'
  BY <1>1 DEF IInv, TypeOK, WriteMember
<1>4. WrittenInv'
  BY <1>0, <1>1, <1>2 DEF IInv, WrittenInv, WriteMember, Left
<1> QED
  BY <1>1, <1>3, <1>4 DEF IInv, ImageInv, PublishInv, WriteMember

LEMMA SkipMemberKeeps ==
  ASSUME IInv, NEW m \in Members, SkipMember(m) PROVE IInv'
<1>1. TypeOK'
  BY DEF IInv, TypeOK, SkipMember, disk
<1>2. CacheInv'
  BY SameCache DEF IInv, SkipMember, disk
<1>3. UNCHANGED <<family, key, image, spoiled, cache, staging>> /\ pc = "fill" /\ pc' = "fill"
      /\ todo' = todo \ {m} /\ open = None
  BY DEF SkipMember, disk
<1>4. Left(m) \/ Target.files[m] = image
  <2>1. family = "keeping" /\ m = "asset" /\ Target = cache[key] /\ cache[key].files[m] # None
    BY DEF SkipMember, Skips, Target, InPlace
  <2>2. key \in Versions /\ DirInv(key)
    BY <1>3 DEF IInv, TypeOK, CacheInv
  <2>3. key \notin spoiled => cache[key].files[m] = key
    BY <2>1, <2>2, <1>3, CacheAssumption DEF DirInv, Vouching, Members
  <2>4. key \notin spoiled => image = key
    BY <2>1, <1>3 DEF IInv, ImageInv, Vouching
  <2> QED
    BY <2>1, <2>3, <2>4 DEF Left
<1>5. WrittenInv'
  <2>1. \A n \in MembersOf(family) \ todo' : Target.files[n] = image \/ Left(n)
    BY <1>3, <1>4 DEF IInv, WrittenInv
  <2>2. Target' = Target /\ \A n \in Members : Left(n)' <=> Left(n)
    BY <1>3 DEF Target, Left
  <2>3. MembersOf(family) \subseteq Members
    BY CacheAssumption, MembersKnown DEF IInv, TypeOK
  <2> QED
    BY <1>3, <2>1, <2>2, <2>3 DEF IInv, WrittenInv
<1> QED
  BY <1>1, <1>2, <1>5 DEF IInv, ImageInv, PublishInv, SkipMember

LEMMA WriteFailsKeeps == ASSUME IInv, WriteFails PROVE IInv'
<1>1. open \in Members /\ key \in Versions /\ pc = "fill"
  BY DEF WriteFails, IInv, TypeOK
<1>2. UNCHANGED family /\ faults' \in 0..MaxFaults
  BY Faulted DEF WriteFails, Leave, Ends
<1>4. /\ spoiled' \subseteq Versions /\ spoiled \subseteq spoiled'
      /\ family = "keeping" /\ open = "asset" => key \in spoiled'
  <2>1. LeavesKept \in SUBSET Versions
    BY <1>1 DEF LeavesKept
  <2> QED
    BY <2>1, Spoiling DEF WriteFails, LeavesKept, Vouching
<1>3. /\ cache' \in [Versions -> Directory] /\ CacheInv' /\ staging' \in Directory
  <2>1. CASE family = "archive"
    <3>1. Put(open, None)
      BY <2>1 DEF WriteFails
    <3> QED
      BY <3>1, <2>1, <1>1, <1>2, <1>4, Putting DEF Content
  <2>2. CASE family # "archive"
    BY <2>2, <1>2, <1>4, SameCache, EmptyIsDirectory DEF WriteFails, IInv, TypeOK, disk
  <2> QED
    BY <2>1, <2>2
<1> QED
  BY <1>2, <1>3, <1>4, Leaving DEF WriteFails

LEMMA CheckKeeps == ASSUME IInv, Check PROVE IInv'
<1>0. /\ pc = "fill" /\ pc' = "check" /\ todo = {} /\ open = None
      /\ UNCHANGED <<family, source, key, image, todo, open, cache, staging, faults>>
      /\ spoiled' = IF image = key /\ family # "keeping" THEN spoiled \ {key} ELSE spoiled
  BY DEF Check, GoTo, Filled, disk
<1>1. TypeOK'
  BY <1>0 DEF IInv, TypeOK
<1>2. \A m \in MembersOf(family) : Target.files[m] = image \/ Left(m)
  BY <1>0 DEF IInv, WrittenInv
<1>3. CacheInv'
  <2> SUFFICES ASSUME NEW v \in Versions PROVE DirInv(v)'
    BY DEF CacheInv
  <2>0. DirInv(v)
    BY DEF IInv, CacheInv
  <2>1. CASE family \in Vouching /\ v = key /\ image = key /\ family # "keeping"
    <3>1. Whole(cache[v], v)
      BY <2>1, <1>2 DEF Whole, Left, Target, Vouching, InPlace
    <3>2. "payload" \in MembersOf(family)
      BY <2>1, MembersKnown DEF Vouching, InPlace
    <3>3. cache[v].files["payload"] = v
      BY <3>1, <3>2 DEF Whole
    <3>4. cache' = cache /\ family' = family
      BY <1>0
    <3> QED
      BY <2>1, <3>1, <3>3, <3>4 DEF DirInv, Whole
  <2>2. CASE ~(family \in Vouching /\ v = key /\ image = key /\ family # "keeping")
    <3>1. family' = family /\ cache'[v] = cache[v] /\ open' = open /\ key' = key
      BY <1>0
    <3>2. CASE family \in Vouching
      <4>1. v \in spoiled => v \in spoiled'
        BY <2>2, <3>2, <1>0
      <4> QED
        BY <2>0, <3>1, <4>1, DirKept
    <3>3. CASE family \notin Vouching
      BY <2>0, <3>1, <3>3 DEF DirInv
    <3> QED
      BY <3>2, <3>3
  <2> QED
    BY <2>1, <2>2
<1>4. ImageInv'
  BY <1>0 DEF IInv, ImageInv
<1>5. WrittenInv'
  <2>1. \A m \in MembersOf(family) : Target'.files[m] = image \/ Left(m)'
    BY <1>0, <1>2 DEF Target, Left
  <2> QED
    BY <1>0, <2>1 DEF WrittenInv, Filled
<1> QED
  BY <1>0, <1>1, <1>3, <1>4, <1>5 DEF IInv, PublishInv
-----------------------------------------------------------------------------
\* A directory may lose an entry, or all of them, where that is not taken for a whole one.
LEMMA Shrinking ==
  ASSUME IInv, cache' \in [Versions -> Directory], UNCHANGED family, pc # "fill",
         NEW vs \in SUBSET Versions,
         \A v \in Versions \ vs : cache'[v] = cache[v] /\ (v \in spoiled => v \in spoiled'),
         family \notin Vouching => \A v \in vs : cache'[v].marker \in {None, cache[v].marker},
         family \in Vouching => \A v \in vs : v \in spoiled' \/ cache'[v] = Empty
  PROVE  CacheInv'
<1> SUFFICES ASSUME NEW v \in Versions PROVE DirInv(v)'
  BY DEF CacheInv
<1>0. DirInv(v)
  BY DEF IInv, CacheInv
<1>1. CASE v \in vs
  <2>1. CASE family \notin Vouching
    BY <1>0, <1>1, <2>1 DEF DirInv
  <2>2. CASE family \in Vouching /\ v \in spoiled'
    BY <2>2 DEF DirInv
  <2>3. CASE family \in Vouching /\ cache'[v] = Empty
    BY <2>3, EmptyIsDirectory, CacheAssumption DEF DirInv, Members
  <2> QED
    BY <1>1, <2>1, <2>2, <2>3
<1>2. CASE v \notin vs
  BY <1>0, <1>2, NoneOpen, DirKept
<1> QED
  BY <1>1, <1>2

LEMMA RejectKeeps == ASSUME IInv, Reject PROVE IInv'
<1>1. /\ UNCHANGED <<family, spoiled>> /\ faults' \in 0..MaxFaults /\ pc = "check"
      /\ spoiled \subseteq Versions
  BY Faulted DEF Reject, Leave, Ends, IInv, TypeOK
<1>2. /\ cache' \in [Versions -> Directory] /\ CacheInv' /\ staging' \in Directory
  <2>1. CASE family = "executable"
    <3>1. key \in Versions /\ cache[key] \in Directory /\ Put("payload", None)
      BY <2>1 DEF Reject, IInv, TypeOK
    <3> DEFINE d == WithFile(cache[key], "payload", None)
    <3>2. cache' = [cache EXCEPT ![key] = d] /\ staging' = staging
      BY <2>1, <3>1 DEF Put, InPlace
    <3>3. d \in Directory /\ d.marker = cache[key].marker
      BY <3>1, FileWritten DEF Content, Members
    <3> HIDE DEF d
    <3>4. /\ cache' \in [Versions -> Directory] /\ cache'[key] = d
          /\ \A v \in Versions \ {key} : cache'[v] = cache[v]
      BY <3>1, <3>2, <3>3 DEF IInv, TypeOK
    <3>5. family \notin Vouching
      BY <2>1 DEF Vouching
    <3>6. CacheInv'
      <4> SUFFICES ASSUME NEW v \in Versions PROVE DirInv(v)'
        BY DEF CacheInv
      <4>1. cache'[v].marker = cache[v].marker /\ DirInv(v)
        BY <3>3, <3>4 DEF IInv, CacheInv
      <4> QED
        BY <4>1, <3>5, <1>1 DEF DirInv
    <3> QED
      BY <3>2, <3>4, <3>6 DEF IInv, TypeOK
  <2>2. CASE family # "executable"
    <3>1. cache' = cache /\ staging' = Empty
      BY <2>2 DEF Reject
    <3> QED
      BY <3>1, <1>1, NoneOpen, SameCache, EmptyIsDirectory DEF IInv, TypeOK
  <2> QED
    BY <2>1, <2>2
<1> QED
  BY <1>1, <1>2, Leaving DEF Reject

LEMMA SealKeeps == ASSUME IInv, Seal PROVE IInv'
<1>0. /\ pc = "check" /\ SourceStands /\ family \in InPlace /\ pc' = "play"
      /\ UNCHANGED <<family, source, key, image, todo, open, staging, spoiled>>
  BY DEF Seal, GoTo
<1>1. /\ key \in Versions /\ cache[key] \in Directory /\ image \in Versions
      /\ "payload" \in MembersOf(family) /\ todo = {} /\ MembersOf(family) \subseteq Members
  BY <1>0, MembersKnown DEF IInv, TypeOK, ImageInv, WrittenInv, Filled
<1>2. key \notin spoiled => image = key
  <2>1. CASE family \in Vouching
    BY <1>0, <2>1 DEF IInv, ImageInv
  <2>2. CASE family = "executable"
    BY <1>0, <2>2 DEF IInv, ImageInv, SourceStands
  <2> QED
    BY <1>0, <2>1, <2>2 DEF InPlace, Vouching
<1>3. /\ cache[key].files["payload"] = image
      /\ key \notin spoiled => Whole(cache[key], key)
  BY <1>0, <1>1, <1>2 DEF Whole, IInv, WrittenInv, Target, Left
<1>4. /\ cache' \in [Versions -> Directory] /\ CacheInv' /\ faults' \in 0..MaxFaults
      /\ cache'[key].files = cache[key].files
  <2>1. CASE UNCHANGED cache /\ Fault
    BY <2>1, <1>0, Faulted, NoneOpen, SameCache DEF IInv, TypeOK
  <2>2. CASE cache' = [cache EXCEPT ![key] = WithMarker(@, @.files["payload"])] /\ UNCHANGED faults
    <3> DEFINE d == WithMarker(cache[key], image)
    <3>1. cache' = [cache EXCEPT ![key] = d]
      BY <2>2, <1>3
    <3>2. d \in Directory /\ d.marker = image /\ d.files = cache[key].files
      BY <1>1, MarkerWritten
    <3> HIDE DEF d
    <3>3. cache'[key] = d /\ \A v \in Versions : v # key => cache'[v] = cache[v]
      BY <3>1, <1>1 DEF IInv, TypeOK
    <3>6. CacheInv'
      <4> SUFFICES ASSUME NEW v \in Versions PROVE DirInv(v)'
        BY DEF CacheInv
      <4>0. DirInv(v)
        BY DEF IInv, CacheInv
      <4>1. CASE v = key
        <5>1. family \notin Vouching => image = key
          BY <1>0 DEF IInv, ImageInv, SourceStands, InPlace, Vouching
        <5>2. cache'[v].files = cache[v].files /\ cache'[v].marker = image
          BY <4>1, <3>2, <3>3
        <5>3. Whole(cache[v], v) => Whole(cache[v], v)'
          BY <5>2, <1>0 DEF Whole
        <5> QED
          BY <4>0, <4>1, <5>1, <5>2, <5>3, <1>0, <1>3 DEF DirInv
      <4>2. CASE v # key
        <5>1. cache'[v] = cache[v]
          BY <4>2, <3>3
        <5> QED
          BY <4>0, <4>2, <5>1, <1>0, DirKept
      <4> QED
        BY <4>1, <4>2
    <3>7. cache' \in [Versions -> Directory] /\ faults' \in 0..MaxFaults
      BY <2>2, <3>1, <3>2, <1>1 DEF IInv, TypeOK
    <3> QED
      BY <3>2, <3>3, <3>6, <3>7
  <2> QED
    BY <2>1, <2>2 DEF Seal
<1>5. TypeOK'
  BY <1>0, <1>4 DEF IInv, TypeOK
<1>6. ImageInv' /\ WrittenInv'
  BY <1>0 DEF IInv, ImageInv, WrittenInv, Filled
<1>7. PublishInv'
  BY <1>0, <1>1, <1>3, <1>4 DEF PublishInv, Whole
<1> QED
  BY <1>4, <1>5, <1>6, <1>7 DEF IInv
-----------------------------------------------------------------------------
LEMMA ManifestKeeps == ASSUME IInv, Manifest PROVE IInv'
<1>1. /\ pc = "check" /\ pc' = "replace" /\ SourceStands /\ family \in Staged
      /\ UNCHANGED <<family, source, key, image, todo, open, cache, faults, spoiled>>
      /\ staging' = WithMarker(staging, IF family = "cabinet" THEN image ELSE None)
  BY DEF Manifest, GoTo
<1>2. image = key
  BY <1>1 DEF SourceStands, Staged
<1>3. key \in Versions /\ staging \in Directory /\ MembersOf(family) \subseteq Members
  BY <1>1, MembersKnown DEF IInv, TypeOK
<1>4. staging' \in Directory /\ staging'.marker \in {None, key} /\ staging'.files = staging.files
  BY <1>1, <1>2, <1>3, MarkerWritten
<1>5. Whole(staging, key)'
  BY <1>1, <1>2, <1>4 DEF Whole, Left, IInv, WrittenInv, Filled, Target, InPlace, Staged
<1>6. TypeOK'
  BY <1>1, <1>4 DEF IInv, TypeOK
<1>7. CacheInv'
  BY <1>1, SameCache DEF IInv
<1>8. ImageInv' /\ WrittenInv'
  BY <1>1, <1>2 DEF IInv, ImageInv, WrittenInv, Filled
<1> QED
  BY <1>1, <1>4, <1>5, <1>6, <1>7, <1>8 DEF IInv, PublishInv

LEMMA RemoveOldKeeps == ASSUME IInv, RemoveOld PROVE IInv'
<1>1. PICK e \in Entries(cache[key]) : cache' = [cache EXCEPT ![key] = Without(@, e)]
  BY DEF RemoveOld, Removable
<1>2. /\ key \in Versions /\ cache[key] \in Directory /\ family \in Staged /\ pc = "replace"
  BY DEF RemoveOld, IInv, TypeOK, PublishInv
<1> DEFINE d == Without(cache[key], e)
<1>3. d \in Directory /\ d.marker \in {None, cache[key].marker}
  BY <1>2, EntryRemoved
<1>4. cache' = [cache EXCEPT ![key] = d]
  BY <1>1
<1> HIDE DEF d
<1>5. /\ cache' \in [Versions -> Directory] /\ cache'[key] = d
      /\ \A v \in Versions : v # key => cache'[v] = cache[v]
  BY <1>2, <1>3, <1>4 DEF IInv, TypeOK
<1>9. family' = family /\ family \notin Vouching
  BY <1>2 DEF RemoveOld, Staged, Vouching
<1>6. CacheInv'
  <2> SUFFICES ASSUME NEW v \in Versions PROVE cache'[v].marker \in {None, v}
    BY <1>9 DEF CacheInv, DirInv
  <2> QED
    BY <1>3, <1>5, <1>9 DEF IInv, CacheInv, DirInv
<1>7. TypeOK'
  BY <1>5 DEF IInv, TypeOK, RemoveOld
<1>8. PublishInv'
  BY <1>2 DEF IInv, PublishInv, Whole, RemoveOld
<1> QED
  BY <1>2, <1>6, <1>7, <1>8 DEF IInv, ImageInv, WrittenInv, Filled, RemoveOld

LEMMA PublishKeeps == ASSUME IInv, Publish PROVE IInv'
<1>1. /\ key \in Versions /\ family \in Staged /\ pc = "replace" /\ faults' \in 0..MaxFaults
      /\ Whole(staging, key) /\ staging \in Directory /\ staging.marker \in {None, key}
      /\ staging' = Empty /\ spoiled' = spoiled /\ spoiled \subseteq Versions
  BY Faulted DEF Publish, IInv, TypeOK, PublishInv
<1>2. CASE Leave /\ UNCHANGED cache
  <2>1. CacheInv'
    BY <1>1, <1>2, NoneOpen, SameCache DEF IInv, Leave, Ends
  <2> QED
    BY <1>1, <1>2, <2>1, Leaving, EmptyIsDirectory DEF IInv, TypeOK
<1>3. CASE cache' = [cache EXCEPT ![key] = staging] /\ GoTo("play")
  <2>1. /\ cache' \in [Versions -> Directory] /\ cache'[key] = staging
        /\ \A v \in Versions : v # key => cache'[v] = cache[v]
    BY <1>1, <1>3 DEF IInv, TypeOK
  <2>2. pc' = "play" /\ UNCHANGED <<family, source, key, image, todo, open>>
    BY <1>3 DEF GoTo
  <2>6. family' = family /\ family \notin Vouching
    BY <1>1, <2>2 DEF Staged, Vouching
  <2>3. CacheInv'
    <3> SUFFICES ASSUME NEW v \in Versions PROVE cache'[v].marker \in {None, v}
      BY <2>6 DEF CacheInv, DirInv
    <3> QED
      BY <1>1, <2>1, <2>6 DEF IInv, CacheInv, DirInv
  <2>4. TypeOK'
    BY <1>1, <2>1, <2>2, EmptyIsDirectory DEF IInv, TypeOK
  <2>5. Whole(cache[key], key)'
    BY <1>1, <2>1, <2>2 DEF Whole
  <2>7. cache'[key].files["payload"] = key
    BY <1>1, <2>1, MembersKnown DEF Whole
  <2> QED
    BY <1>1, <2>2, <2>3, <2>4, <2>5, <2>7 DEF IInv, ImageInv, WrittenInv, Filled, PublishInv
<1> QED
  BY <1>2, <1>3 DEF Publish

\* Failures that leave the cache as it is.
LEMMA GivingUpKeeps ==
  ASSUME IInv, PublishFails \/ ClearFails \/ Stop \/ Refuse
  PROVE  IInv'
<1>1. Leave /\ Fault /\ UNCHANGED cache /\ staging' \in {staging, Empty}
  BY DEF PublishFails, ClearFails, Stop, Refuse, disk
<1>3. /\ spoiled' \subseteq Versions /\ spoiled \subseteq spoiled'
      /\ open = "asset" /\ family = "keeping" => key \in spoiled'
  <2>1. CASE Stop
    <3>1. LeavesKept \in SUBSET Versions
      BY <2>1 DEF LeavesKept, Stop, IInv, TypeOK
    <3> QED
      BY <2>1, <3>1, Spoiling DEF Stop, LeavesKept, Vouching
  <2>2. CASE PublishFails \/ ClearFails \/ Refuse
    <3>1. spoiled' = spoiled /\ spoiled \subseteq Versions
      BY <2>2 DEF PublishFails, ClearFails, Refuse, IInv, TypeOK
    <3>2. open # "asset"
      BY <2>2, NoneOpen, CacheAssumption DEF PublishFails, ClearFails, Refuse, Members
    <3> QED
      BY <3>1, <3>2
  <2> QED
    BY <2>1, <2>2
<1>2. CacheInv'
  BY <1>1, <1>3, SameCache DEF IInv, Leave, Ends
<1> QED
  BY <1>1, <1>2, <1>3, Faulted, Leaving, EmptyIsDirectory DEF IInv, TypeOK

LEMMA ClearEntryKeeps == ASSUME IInv, ClearEntry PROVE IInv'
<1>0. PICK v \in Doomed :
        /\ \E e \in Entries(cache[v]) : cache' = [cache EXCEPT ![v] = Without(@, e)]
        /\ Spoil({v})
  BY DEF ClearEntry
<1>1. PICK e \in Entries(cache[v]) : cache' = [cache EXCEPT ![v] = Without(@, e)]
  BY <1>0
<1>2. /\ v \in Versions /\ cache[v] \in Directory /\ pc \in {"sweep", "close"}
      /\ UNCHANGED <<family, source, staging, pc, key, image, todo, open, faults>>
  BY DEF ClearEntry, Doomed, IInv, TypeOK
<1>3. /\ spoiled' \subseteq Versions /\ spoiled \subseteq spoiled'
      /\ family \in Vouching => v \in spoiled'
  BY <1>0, <1>2, Spoiling
<1> DEFINE d == Without(cache[v], e)
<1>4. d \in Directory /\ d.marker \in {None, cache[v].marker}
  BY <1>2, EntryRemoved
<1>5. cache' = [cache EXCEPT ![v] = d]
  BY <1>1
<1> HIDE DEF d
<1>6. /\ cache' \in [Versions -> Directory] /\ cache'[v] = d
      /\ \A w \in Versions : w # v => cache'[w] = cache[w]
  BY <1>2, <1>4, <1>5 DEF IInv, TypeOK
<1>7. CacheInv'
  <2> DEFINE vs == {v}
  <2>1. /\ vs \in SUBSET Versions
        /\ \A w \in Versions \ vs : cache'[w] = cache[w] /\ (w \in spoiled => w \in spoiled')
        /\ family \notin Vouching => \A w \in vs : cache'[w].marker \in {None, cache[w].marker}
        /\ family \in Vouching => \A w \in vs : w \in spoiled' \/ cache'[w] = Empty
    BY <1>2, <1>3, <1>4, <1>6
  <2> HIDE DEF vs
  <2> QED
    BY <2>1, <1>2, <1>6, Shrinking
<1>8. TypeOK'
  BY <1>2, <1>3, <1>6 DEF IInv, TypeOK
<1> QED
  BY <1>2, <1>7, <1>8 DEF IInv, ImageInv, WrittenInv, Filled, PublishInv

LEMMA ClearedKeeps == ASSUME IInv, Cleared PROVE IInv'
<1>1. /\ Doomed \in SUBSET Versions /\ UNCHANGED family /\ pc \in {"sweep", "close"}
      /\ staging' \in Directory /\ faults' \in 0..MaxFaults
      /\ spoiled' = spoiled \ Doomed /\ spoiled' \subseteq Versions
  BY EmptyIsDirectory, Faulted
  DEF Cleared, AfterClear, GoTo, Leave, Ends, Doomed, IInv, TypeOK
<1>2. /\ cache' \in [Versions -> Directory]
      /\ \A v \in Doomed : cache'[v] = Empty
      /\ \A v \in Versions \ Doomed : cache'[v] = cache[v] /\ (v \in spoiled => v \in spoiled')
  BY <1>1, EmptyIsDirectory DEF Cleared, Gone, IInv, TypeOK
<1>3. CacheInv'
  <2>1. family \notin Vouching => \A v \in Doomed : cache'[v].marker \in {None, cache[v].marker}
    BY <1>2, EmptyIsDirectory
  <2> QED
    BY <1>1, <1>2, <2>1, Shrinking
<1>4. CASE Leave
  BY <1>1, <1>2, <1>3, <1>4, Leaving
<1>5. CASE GoTo("match")
  <2>1. TypeOK'
    BY <1>1, <1>2, <1>5 DEF IInv, TypeOK, GoTo
  <2> QED
    BY <1>1, <1>3, <1>5, <2>1 DEF IInv, ImageInv, WrittenInv, Filled, PublishInv, GoTo
<1> QED
  BY <1>4, <1>5 DEF Cleared, AfterClear

LEMMA CloseKeeps == ASSUME IInv, Close PROVE IInv'
<1>1. CacheInv'
  BY NoneOpen, SameCache DEF IInv, Close, GoTo, Leave, Ends, disk
<1>2. CASE Leave
  BY <1>1, <1>2, Leaving, Faulted DEF Close, IInv, TypeOK, disk
<1>3. CASE GoTo("close")
  <2>1. TypeOK'
    BY <1>3 DEF IInv, TypeOK, Close, GoTo, disk
  <2> QED
    BY <1>1, <1>3, <2>1 DEF IInv, ImageInv, WrittenInv, Filled, PublishInv, Close, GoTo
<1> QED
  BY <1>2, <1>3 DEF Close

LEMMA ReplaceKeeps == ASSUME IInv, Replace PROVE IInv'
<1>1. /\ source' \in Versions
      /\ UNCHANGED <<family, cache, staging, pc, key, image, todo, open, spoiled>>
  BY DEF Replace, disk
<1>2. faults' \in 0..MaxFaults
  BY Faulted DEF Replace
<1>3. pc # "off" => source' # key
  BY DEF Replace
<1>4. TypeOK'
  BY <1>1, <1>2 DEF IInv, TypeOK
<1>5. CacheInv'
  BY <1>1, SameCache DEF IInv
<1>6. ImageInv'
  BY <1>1, <1>3 DEF IInv, ImageInv
<1> QED
  BY <1>1, <1>4, <1>5, <1>6
  DEF IInv, WrittenInv, PublishInv, Filled, Target, Left, Whole
-----------------------------------------------------------------------------
LEMMA StepKeeps == IInv /\ [Next]_vars => IInv'
<1> SUFFICES ASSUME IInv, [Next]_vars PROVE IInv'
  OBVIOUS
<1>1. CASE UNCHANGED vars
  <2>1. TypeOK' /\ CacheInv'
    BY <1>1, SameCache DEF vars, IInv, TypeOK
  <2> QED
    BY <1>1, <2>1
    DEF vars, IInv, ImageInv, WrittenInv, PublishInv, Filled, Target, Left, Whole
<1>2. CASE Load
  BY <1>2, ReuseKeeps, PrepareKeeps, WriteMemberKeeps, CheckKeeps, RejectKeeps, SealKeeps,
     ManifestKeeps, RemoveOldKeeps, PublishKeeps, ClearedKeeps, OpenMemberKeeps, SkipMemberKeeps
  DEF Load
<1> QED
  BY <1>1, <1>2, BeginKeeps, WriteFailsKeeps, GivingUpKeeps, ClearEntryKeeps, CloseKeeps,
     ReplaceKeeps
  DEF Next

\* Every variable stays in its range, however often loads stop, fail or race with their source.
THEOREM Typing == Spec => []TypeOK
<1>1. IInv => TypeOK
  BY DEF IInv
<1> QED
  BY <1>1, InitInv, StepKeeps, PTL DEF Spec

\* A started program runs on a payload that is a version's, and on a complete tree of the version
\* whose hash its load took unless its directory is spoiled: for any number of versions, stops,
\* failures and replacements, in each of the families (content_router.c:1422, embedded_cab.c:861).
\* Spoiled are, of archives and projects only, directories filled from a source that was replaced
\* between its hash and its unpacking, or left by a clearing that did not end, and those where an
\* included file that is not to be overwritten was left torn, until they are cleared or refilled.
THEOREM WholeIsServed == Spec => []ServedIsWhole
<1>1. IInv => ServedIsWhole
  BY DEF IInv, PublishInv, Whole, ServedIsWhole
<1> QED
  BY <1>1, InitInv, StepKeeps, PTL DEF Spec
=============================================================================
