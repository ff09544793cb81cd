---------------------------- MODULE StartupProofs ----------------------------
(***************************************************************************)
(* Proofs about Startup, for any number of directories, keys, crashes and   *)
(* failures: what the user wrote stays on the disk, what Sync saved is what *)
(* the next start reads, and only a failed write leaves a broken pair.      *)
(***************************************************************************)
EXTENDS Startup, SequenceTheorems, WellFoundedInduction, TLAPS

(* A configuration without the user's part has been completed: no start     *)
(* will save it again.                                                      *)
BadLevel(t) == Get(t, LogLevel) = Leaf("bad")
NoIdentity(t) == Get(t, Identity) = Nil
Settled(t) == ~BadLevel(t) /\ ~NoIdentity(t)
UserOrSettled(t) == User \in DOMAIN t \/ Settled(t)

FileInv == \A p \in Everywhere : file[p].st = "whole" => UserOrSettled(file[p].tree)

(* The file in use is the last one there is. *)
CurrentIsLast ==
    pc # "down" => \A q \in 1..Len(paths) : q > current => file[q] = Absent

(* What is in memory, until the controller has started, ...                 *)
DataInv ==
    /\ pc \in {"level", "identity", "tls"} /\ BadLevel(data) => User \in DOMAIN data
    /\ pc = "identity" /\ sync # "" => User \in DOMAIN data
    /\ pc = "identity" => ~BadLevel(data)
    /\ pc = "tls" => Settled(data)

(* ... and on the disk, at each step of Sync, where every rename went well. *)
Safe == hist.had \ (hist.buried \cup hist.stuck)
DiskInv ==
    /\ pc \in {"level", "identity"} /\ sync = "" /\ current \notin {0} \cup hist.stuck
           /\ file[current].st = "whole" => data = file[current].tree
    /\ sync = "rename" /\ current \notin {0} \cup hist.stuck /\ file[current].st = "whole" =>
           HasUser(file[current])
    /\ sync \in {"create", "write", "flush"} => current # 0 /\ (current \in Safe => HasUser(old[current]))
    /\ sync = "create" /\ current \notin hist.stuck => file[current].st # "whole"
    /\ sync = "write" => file[current].st # "whole"
    /\ sync = "flush" => file[current] = Whole(data)

(* The two halves of UserDataKept. *)
Kept == \A p \in Safe : HasUser(file[p]) \/ HasUser(old[p])
Unbroken ==
    ~hist.broken => \A p \in hist.had : HasUser(file[p]) \/ (p = current /\ sync \in {"create", "write"})

(* Until a Sync is cut short, what is saved has the user's part.            *)
ReadInv == ~hist.broken /\ pc \in {"level", "identity", "tls"} /\ current \in hist.had => User \in DOMAIN data

KeepInv == FileInv /\ CurrentIsLast /\ DataInv /\ DiskInv /\ Kept

(* What the last Sync that went well saved is in the file that the next     *)
(* start finds.                                                             *)
Saved == FoundAt # 0 /\ file[FoundAt] = Whole(hist.synced)
SavedInv == hist.synced # Empty /\ ~hist.broken /\ sync \in {"", "rename"} => Saved

(* An identity is made up where none is read, ...                           *)
IdentityInv ==
    /\ pc \in {"level", "identity"} /\ ids > faults => ~NoIdentity(data)
    /\ sync = "" /\ ids > faults /\ paths # <<>> =>
           FoundAt # 0 /\ ~NoIdentity(Parsed(file[FoundAt]))

(* ... and a key where no pair is found.                                    *)
KeyInv ==
    /\ key = NoKey \/ (cert = NoCert /\ pc \notin {"sign", "save"}) => req <= faults
    /\ pc = "key" => ~HasLocalKeyPair
    /\ pc \in {"sign", "save", "write"} => req # 0
    /\ pc \in {"running", "renew"} => key \notin {NoKey, TornKey}

(* Until a write is cut short, a certificate is that of the key. *)
PairInv ==
    ~hist.halfPair =>
        /\ cert # NoCert /\ pc \notin {"write", "renew"} => key # NoKey /\ cert = Pair(key)
        /\ pc \in {"sign", "save", "write"} => key = req
        /\ pc \in {"sign", "save"} => cert = NoCert
        /\ pc \in {"write", "renew"} => cert = Torn

IInv == TypeOK /\ KeepInv /\ ReadInv /\ Unbroken /\ SavedInv /\ IdentityInv /\ KeyInv /\ PairInv

-------------------------------------------------------------------------------
(* The induction that the proof rests on: a set of numbers has a least one, *)
(* and one that is bounded a greatest one.                                  *)
LEMMA LeastNumber ==
    ASSUME NEW T \in SUBSET Nat, T # {}
    PROVE  \E x \in T : \A y \in T : x <= y
<1> DEFINE R == OpToRel(<, Nat)
<1>1. IsWellFoundedOn(R, Nat)
  BY NatLessThanWellFounded
<1>2. \A x, y \in Nat : <<y, x>> \in R <=> y < x
  BY DEF OpToRel
<1> HIDE DEF R
<1>3. PICK x \in T : \A y \in T : ~ (<<y, x>> \in R)
  BY <1>1, WFMin
<1>4. x \in Nat /\ \A y \in T : y \in Nat /\ ~(y < x)
  BY <1>2, <1>3
<1>5. \A y \in T : x <= y
  BY <1>4
<1> QED
  BY <1>3, <1>5

LEMMA GreatestNumber ==
    ASSUME NEW n \in Nat, NEW S \in SUBSET (1..n), S # {}
    PROVE  \E p \in S : \A q \in S : q <= p
<1> DEFINE T == {m \in Nat : \E p \in S : m = n - p}
<1>1. T \in SUBSET Nat /\ T # {}
  <2>1. PICK p \in S : TRUE
    OBVIOUS
  <2>2. n - p \in T
    BY <2>1
  <2> QED
    BY <2>2
<1>2. PICK x \in T : \A y \in T : x <= y
  <2> HIDE DEF T
  <2> QED
    BY <1>1, LeastNumber
<1>3. PICK p \in S : x = n - p
  BY <1>2
<1>4. ASSUME NEW q \in S PROVE q <= p
  <2>1. n - q \in T
    OBVIOUS
  <2>2. x <= n - q
    BY <1>2, <2>1
  <2> QED
    BY <1>3, <2>2
<1> QED
  BY <1>4

(* The directory that ParseConfig takes is the last one with a file.        *)
LastWithFile(f, n, c) ==
    /\ c \in 0..n /\ (c # 0 => f[c] # Absent)
    /\ \A q \in 1..n : q > c => f[q] = Absent

FilesOf(f, n) == {p \in 1..n : f[p] # Absent}
LastOf(f, n) == IF FilesOf(f, n) = {} THEN 0 ELSE CHOOSE p \in FilesOf(f, n) : \A q \in FilesOf(f, n) : q <= p

LEMMA LastFile ==
    ASSUME NEW n \in Nat, NEW f
    PROVE  LastWithFile(f, n, LastOf(f, n))
<1> DEFINE S == FilesOf(f, n)
<1>1. CASE S = {}
  BY <1>1 DEF LastWithFile, LastOf, FilesOf
<1>2. CASE S # {}
  <2>1. LastOf(f, n) \in S /\ \A q \in S : q <= LastOf(f, n)
    BY <1>2, GreatestNumber DEF LastOf, FilesOf
  <2> QED
    BY <2>1 DEF LastWithFile, FilesOf
<1> QED
  BY <1>1, <1>2

LEMMA LastIsUnique ==
    ASSUME NEW n \in Nat, NEW f, NEW c, NEW d, LastWithFile(f, n, c), LastWithFile(f, n, d)
    PROVE  c = d
BY DEF LastWithFile

(* A list of search paths is as long as its number of directories.          *)
LEMMA SearchPathsLength ==
    ASSUME NEW q \in SearchPaths
    PROVE  /\ Len(q) \in Nat /\ Len(q) <= Len(Paths)
           /\ q = <<>> <=> Len(q) = 0
<1>1. Paths \in Seq(STRING) /\ Len(Paths) \in Nat
  BY StartupAssumption, LenProperties
<1>2. PICK n \in 0..Len(Paths) : q = SubSeq(Paths, 1, n)
  BY DEF SearchPaths
<1>3. q \in Seq(STRING) /\ Len(q) = n
  BY <1>1, <1>2, SubSeqProperties
<1> QED
  BY <1>1, <1>2, <1>3, EmptySeq

(* FoundAt, now and after a step. *)
LEMMA FoundAtIsLastOf ==
    /\ FoundAt = LastOf(file, Len(paths))
    /\ FoundAt' = LastOf(file', Len(paths'))
BY DEF FoundAt, Found, LastOf, FilesOf

LEMMA FoundIsLast ==
    /\ TypeOK => LastWithFile(file, Len(paths), FoundAt)
    /\ TypeOK' => LastWithFile(file', Len(paths'), FoundAt')
BY FoundAtIsLastOf, LastFile, SearchPathsLength DEF TypeOK

LEMMA SameFound ==
    ASSUME UNCHANGED <<paths, file>>
    PROVE  FoundAt' = FoundAt
BY FoundAtIsLastOf

-------------------------------------------------------------------------------
(* What Set leaves of a configuration, for the keys that NewController sets. *)
LEMMA TopKeys ==
    /\ \A k \in {User, LogLevel, Identity} : Above(k) = {}
    /\ User # LogLevel /\ User # Identity /\ LogLevel # Identity
BY DEF Above, User, LogLevel, Identity

LEMMA SetTop ==
    ASSUME NEW t, NEW k \in {LogLevel, Identity}, NEW v
    PROVE  /\ Get(Set(t, k, v), k) = v
           /\ \A j \in {User, LogLevel, Identity} : j # k =>
                  /\ Get(Set(t, k, v), j) = Get(t, j)
                  /\ j \in DOMAIN Set(t, k, v) <=> j \in DOMAIN t
BY TopKeys DEF Set, Get
(* Types and bounds, in four parts. *)
FilesTyped ==
    /\ paths \in SearchPaths
    /\ DOMAIN file = Everywhere /\ \A p \in Everywhere : IsFile(file[p])
    /\ DOMAIN old = Everywhere /\ \A p \in Everywhere : IsFile(old[p])
    /\ current \in 0..Len(paths)
PlaceTyped ==
    /\ pc \in Places
    /\ sync \in {"", "rename", "create", "write", "flush"}
    /\ sync # "" => pc \in {"identity", "tls"}
CountsTyped ==
    /\ faults \in Nat /\ faults <= MaxFaults /\ sets \in Nat /\ sets <= MaxSets
    /\ ids \in Nat /\ ids <= faults + 1 /\ req \in Nat /\ req <= faults + 1
    /\ key = TornKey \/ (key \in Nat /\ key <= req)
CertTyped == cert \in {NoCert, Torn} \/ \E k \in Nat : k # 0 /\ k <= req /\ cert = Pair(k)
HistTyped ==
    /\ DOMAIN hist = {"had", "buried", "stuck", "broken", "synced", "halfPair"}
    /\ hist.had \subseteq Everywhere /\ hist.buried \subseteq Everywhere /\ hist.stuck \subseteq Everywhere
    /\ hist.broken \in BOOLEAN /\ hist.halfPair \in BOOLEAN

LEMMA Bounds == MaxFaults \in Nat /\ MaxSets \in Nat
BY StartupAssumption

LEMMA TypeParts ==
    /\ TypeOK <=> FilesTyped /\ PlaceTyped /\ CountsTyped /\ CertTyped /\ HistTyped
    /\ TypeOK' <=> FilesTyped' /\ PlaceTyped' /\ CountsTyped' /\ CertTyped' /\ HistTyped'
<1>1. ASSUME NEW n PROVE \A m \in Nat : n \in 0..m <=> n \in Nat /\ n <= m
  OBVIOUS
<1>2. ASSUME NEW r \in Nat, NEW c
      PROVE  c \in {NoCert, Torn} \cup {Pair(k) : k \in 1..r} <=>
                 c \in {NoCert, Torn} \/ \E k \in Nat : k # 0 /\ k <= r /\ c = Pair(k)
  <2>1. c \in {Pair(k) : k \in 1..r} <=> \E k \in 1..r : c = Pair(k)
    OBVIOUS
  <2>2. \A k : k \in 1..r <=> k \in Nat /\ k # 0 /\ k <= r
    OBVIOUS
  <2> QED
    BY <2>1, <2>2
<1>3. \A m \in Nat : m + 1 \in Nat
  OBVIOUS
<1>4. TypeOK <=> FilesTyped /\ PlaceTyped /\ CountsTyped /\ CertTyped /\ HistTyped
  BY <1>1, <1>2, <1>3, Bounds, ZenonT(60) DEF TypeOK, FilesTyped, PlaceTyped, CountsTyped, CertTyped, HistTyped
<1>5. TypeOK' <=> FilesTyped' /\ PlaceTyped' /\ CountsTyped' /\ CertTyped' /\ HistTyped'
  BY <1>1, <1>2, <1>3, Bounds, ZenonT(60) DEF TypeOK, FilesTyped, PlaceTyped, CountsTyped, CertTyped, HistTyped
<1> QED
  BY <1>4, <1>5

(* What the states of a file tell of each other; a fault is counted.        *)
LEMMA FileKinds ==
    /\ Absent.st = "absent" /\ Torn.st = "torn" /\ Absent # Torn
    /\ IsFile(Absent) /\ Parsed(Absent) = Empty /\ ~HasUser(Absent)
    /\ IsFile(Torn) /\ Parsed(Torn) = Empty /\ ~HasUser(Torn)
    /\ \A t : /\ IsFile(Whole(t)) /\ Parsed(Whole(t)) = t /\ (HasUser(Whole(t)) <=> User \in DOMAIN t)
              /\ Whole(t).st = "whole" /\ Whole(t).tree = t /\ Whole(t) # Absent /\ Whole(t) # Torn
    /\ \A f : IsFile(f) => f = Absent \/ f = Torn \/ (f.st = "whole" /\ f = Whole(f.tree))
<1>1. Absent.st = "absent" /\ Torn.st = "torn" /\ Absent # Torn
  BY DEF Absent, Torn
<1>2. \A t : Whole(t).st = "whole" /\ Whole(t).tree = t
  BY DEF Whole
<1>3. \A t : Whole(t) # Absent /\ Whole(t) # Torn
  BY <1>1, <1>2
<1>4. IsFile(Absent) /\ IsFile(Torn) /\ \A t : IsFile(Whole(t))
  BY <1>2 DEF IsFile
<1>5. /\ Parsed(Absent) = Empty /\ Parsed(Torn) = Empty /\ \A t : Parsed(Whole(t)) = t
  BY <1>1, <1>2 DEF Parsed
<1>6. User \notin DOMAIN Empty
  BY DEF Empty, User
<1>7. \A f : IsFile(f) => f = Absent \/ f = Torn \/ (f.st = "whole" /\ f = Whole(f.tree))
  BY DEF IsFile
<1> QED
  BY <1>1, <1>2, <1>3, <1>4, <1>5, <1>6, <1>7 DEF HasUser

LEMMA OneMore ==
    /\ \A x, y, z \in Nat : x <= y + 1 /\ y <= z => x <= z + 1
    /\ \A x, y, z \in Nat : x <= y /\ y <= z => x <= z /\ x + 1 <= z + 1
    /\ \A x, y \in Nat : x <= y => x + 1 <= y + 1 /\ x <= y + 1
    /\ \A x \in Nat : x + 1 \in Nat /\ x <= x + 1 /\ x <= x
    /\ \A x, y \in Nat : x < y => x + 1 <= y
OBVIOUS

LEMMA FailsCounts ==
    ASSUME NEW ok \in BOOLEAN, Fails(ok), TypeOK
    PROVE  /\ faults' \in Nat /\ faults' <= MaxFaults /\ faults <= faults' /\ faults' <= faults + 1
           /\ ok \/ faults' = faults + 1
<1>1. faults \in Nat /\ MaxFaults \in Nat /\ faults <= MaxFaults
  BY Bounds, TypeParts DEF CountsTyped
<1>2. CASE ok
  <2>1. faults' = faults
    BY <1>2 DEF Fails
  <2> QED
    BY <2>1, <1>1, <1>2
<1>3. CASE ~ok
  <2>1. faults < MaxFaults /\ faults' = faults + 1
    BY <1>3 DEF Fails, Fault
  <2> QED
    BY <2>1, <1>1
<1> QED
  BY <1>2, <1>3

-------------------------------------------------------------------------------
(* The initial states satisfy the invariant. *)
LEMMA UserTreeHasUser ==
    \A t \in UserTrees : User \in DOMAIN t
BY TopKeys, SetTop DEF UserTrees, UserTree

LEMMA InitIInv == Init => IInv
<1> SUFFICES ASSUME Init PROVE IInv
  OBVIOUS
<1>9. /\ ids = 0 /\ key = NoKey /\ cert = NoCert /\ req = 0 /\ faults = 0 /\ sets = 0
      /\ hist.synced = Empty /\ ~hist.halfPair /\ pc = "down"
  BY DEF Init
<1>1. \A p \in Everywhere : file[p] = Absent \/ \E t \in UserTrees : file[p] = Whole(t)
  BY DEF Init
<1>2. TypeOK
  <2>1. paths \in SearchPaths /\ 0 \in 0..Len(paths)
    <3>1. paths \in SearchPaths
      BY DEF Init
    <3> QED
      BY <3>1, SearchPathsLength
  <2>2. /\ DOMAIN file = Everywhere /\ \A p \in Everywhere : IsFile(file[p])
        /\ DOMAIN old = Everywhere /\ \A p \in Everywhere : IsFile(old[p])
    BY <1>1, FileKinds DEF Init
  <2>3. /\ DOMAIN hist = {"had", "buried", "stuck", "broken", "synced", "halfPair"}
        /\ hist.had \subseteq Everywhere /\ hist.buried \subseteq Everywhere /\ hist.stuck \subseteq Everywhere
        /\ hist.broken \in BOOLEAN /\ hist.halfPair \in BOOLEAN
    BY DEF Init
  <2>4. FilesTyped
    BY <2>1, <2>2 DEF Init, FilesTyped
  <2>5. PlaceTyped
    BY DEF Init, PlaceTyped, Places
  <2>6. CountsTyped /\ CertTyped
    BY <1>9, Bounds DEF CountsTyped, CertTyped, NoKey
  <2> QED
    BY <2>3, <2>4, <2>5, <2>6, TypeParts DEF HistTyped
<1>3. FileInv
  BY <1>1, UserTreeHasUser, FileKinds DEF FileInv, UserOrSettled
<1>4. CurrentIsLast /\ DataInv /\ DiskInv
  BY DEF Init, CurrentIsLast, DataInv, DiskInv
<1>5. Kept /\ Unbroken /\ ReadInv
  <2>1. hist.had = {p \in Everywhere : file[p] # Absent}
    BY DEF Init
  <2>2. \A p \in hist.had : HasUser(file[p])
    BY <2>1, <1>1, UserTreeHasUser, FileKinds
  <2> QED
    BY <2>2, <1>9 DEF Kept, Safe, Unbroken, ReadInv
<1>7. SavedInv /\ IdentityInv
  BY <1>9 DEF SavedInv, IdentityInv
<1>8. KeyInv /\ PairInv
  BY <1>9 DEF KeyInv, PairInv, NoKey
<1> QED
  BY <1>2, <1>3, <1>4, <1>5, <1>7, <1>8 DEF IInv, KeepInv

-------------------------------------------------------------------------------
(* The steps come in groups: those of TLSConfig and of the program that     *)
(* runs leave the configuration's files alone, those before them the        *)
(* certificate's.                                                           *)
TlsStep ==
    \/ LoadsCertificate \/ TruncatesCertificate \/ Renews \/ Stops
    \/ \E ok \in BOOLEAN : TLSConfig(ok) \/ SavesKey(ok) \/ Signs(ok) \/ WritesCertificate(ok)
    \/ \E k \in Keys : HandlerSets(k)

SyncStep ==
    \/ SyncFlushes
    \/ \E ok \in BOOLEAN : SyncRenames(ok) \/ SyncCreates(ok) \/ SyncWrites(ok)

ConfStep == ParseConfig \/ NewLevel \/ NewIdentity \/ SyncStep

CrashStep == \E power \in BOOLEAN : Crash(power)

LEMMA StepGroups == [Next]_vars => ConfStep \/ TlsStep \/ CrashStep \/ UNCHANGED vars
BY DEF Next, Goes, ConfStep, SyncStep, TlsStep, CrashStep

Before == {"level", "identity", "tls"}
Later == {"key", "sign", "save", "write", "load", "running", "renew"}

LEMMA TlsFrame ==
    ASSUME TypeOK, TlsStep
    PROVE  /\ UNCHANGED <<paths, file, old, current, sync, ids>>
           /\ pc \in Later \cup {"tls"} /\ pc' \in Later \cup {"down"} /\ sync = ""
           /\ hist' = hist \/ \E b \in BOOLEAN : hist' = [hist EXCEPT !.halfPair = b]
           /\ faults' \in Nat /\ faults <= faults' /\ faults' <= MaxFaults
<1>a. PlaceTyped /\ CountsTyped /\ HistTyped
  BY TypeParts
<1>b. sync # "" => pc \in {"identity", "tls"}
  BY <1>a DEF PlaceTyped
<1>c. faults \in Nat /\ faults <= MaxFaults /\ faults <= faults
  BY <1>a, OneMore DEF CountsTyped
<1>1. CASE LoadsCertificate \/ TruncatesCertificate \/ Renews \/ Stops
  <2>1. /\ UNCHANGED <<paths, file, old, current, sync, ids, faults, hist>>
        /\ pc \in {"load", "save", "running"} /\ pc' \in {"running", "down", "write", "renew"}
    BY <1>1 DEF LoadsCertificate, TruncatesCertificate, Renews, Stops, confVars, tlsVars
  <2> QED
    BY <2>1, <1>b, <1>c DEF Later
<1>2. ASSUME NEW ok \in BOOLEAN, TLSConfig(ok) \/ Signs(ok)
      PROVE  /\ Fails(ok) /\ UNCHANGED <<paths, file, old, current, sync, ids, hist>>
             /\ pc \in Later \cup {"tls"} /\ pc' \in Later \cup {"down"} /\ sync = ""
  <2>1. CASE TLSConfig(ok)
    BY <2>1 DEF TLSConfig, confVars, tlsVars, Later
  <2>2. CASE Signs(ok)
    <3>1. /\ Fails(ok) /\ UNCHANGED <<paths, file, old, current, sync, ids, hist>>
          /\ pc = "sign" /\ pc' \in {"save", "down"}
      BY <2>2 DEF Signs, confVars, tlsVars
    <3> QED
      BY <3>1, <1>b DEF Later
  <2> QED
    BY <1>2, <2>1, <2>2
<1>3. ASSUME NEW ok \in BOOLEAN, SavesKey(ok) \/ WritesCertificate(ok)
      PROVE  /\ Fails(ok) /\ UNCHANGED <<paths, file, old, current, sync, ids>>
             /\ pc \in Later /\ pc' \in Later \cup {"down"} /\ sync = ""
             /\ hist' = [hist EXCEPT !.halfPair = @ \/ ~ok]
  <2>1. /\ Fails(ok) /\ UNCHANGED <<paths, file, old, current, sync, ids>>
        /\ pc \in {"key", "write", "renew"} /\ pc' \in {"sign", "running", "load", "down"}
        /\ hist' = [hist EXCEPT !.halfPair = @ \/ ~ok]
    BY <1>3 DEF SavesKey, WritesCertificate, confVars
  <2> QED
    BY <2>1, <1>b DEF Later
<1>4. ASSUME NEW k \in Keys, HandlerSets(k)
      PROVE  /\ UNCHANGED <<paths, file, old, current, sync, ids, faults, hist>>
             /\ pc \in Later /\ pc' \in Later \cup {"down"} /\ sync = ""
  <2>1. /\ UNCHANGED <<paths, file, old, current, sync, ids, faults, hist>>
        /\ pc = "running" /\ pc' \in {"running", "down"}
    BY <1>4 DEF HandlerSets
  <2> QED
    BY <2>1, <1>b DEF Later
<1>5. \A b \in BOOLEAN : (hist.halfPair \/ ~b) \in BOOLEAN
  BY <1>a DEF HistTyped
<1> QED
  BY <1>1, <1>2, <1>3, <1>4, <1>5, <1>c, FailsCounts DEF TlsStep

LEMMA ConfFrame ==
    ASSUME TypeOK, ConfStep
    PROVE  /\ UNCHANGED <<paths, key, cert, req, sets>>
           /\ pc \in Before \cup {"down"} /\ pc' \in Before
           /\ (pc' = pc /\ SyncStep) \/ (sync = "" /\ pc \in {"down", "level", "identity"})
           /\ DOMAIN hist' = DOMAIN hist /\ hist'.halfPair = hist.halfPair /\ hist'.had = hist.had
           /\ faults' \in Nat /\ faults <= faults' /\ faults' <= MaxFaults
<1>a. PlaceTyped /\ CountsTyped /\ HistTyped
  BY TypeParts
<1>b. sync # "" => pc \in {"identity", "tls"}
  BY <1>a DEF PlaceTyped
<1>c. faults \in Nat /\ faults <= MaxFaults /\ faults <= faults
  BY <1>a, OneMore DEF CountsTyped
<1>d. DOMAIN hist = {"had", "buried", "stuck", "broken", "synced", "halfPair"}
  BY <1>a DEF HistTyped
<1>1. CASE ParseConfig \/ NewLevel \/ NewIdentity
  <2>1. /\ UNCHANGED <<paths, key, cert, req, sets, faults, hist>>
        /\ <<pc, pc'>> \in {<<"down", "level">>, <<"level", "identity">>, <<"identity", "tls">>}
        /\ pc = "identity" => sync = ""
    BY <1>1 DEF ParseConfig, NewLevel, NewIdentity, tlsVars
  <2> QED
    BY <2>1, <1>b, <1>c DEF Before
<1>2. CASE SyncFlushes
  <2>1. /\ UNCHANGED <<paths, key, cert, req, sets, faults, pc>> /\ sync # ""
        /\ hist' = [hist EXCEPT !.synced = data]
    BY <1>2 DEF SyncFlushes, confVars, tlsVars
  <2>2. DOMAIN hist' = DOMAIN hist /\ hist'.halfPair = hist.halfPair /\ hist'.had = hist.had
    BY <2>1, <1>d
  <2> QED
    BY <2>1, <2>2, <1>b, <1>c, <1>2 DEF Before, SyncStep
<1>3. ASSUME NEW ok \in BOOLEAN, SyncRenames(ok) \/ SyncCreates(ok) \/ SyncWrites(ok)
      PROVE  /\ UNCHANGED <<paths, key, cert, req, sets, pc>> /\ sync # "" /\ Fails(ok)
             /\ DOMAIN hist' = DOMAIN hist /\ hist'.halfPair = hist.halfPair /\ hist'.had = hist.had
  <2>1. /\ UNCHANGED <<paths, key, cert, req, sets, pc>> /\ sync # "" /\ Fails(ok)
        /\ \/ hist' = hist \/ hist' = [hist EXCEPT !.broken = TRUE]
           \/ \E b : hist' = [hist EXCEPT !.buried = b]
           \/ \E b : hist' = [hist EXCEPT !.stuck = b]
    BY <1>3 DEF SyncRenames, SyncCreates, SyncWrites, tlsVars
  <2> QED
    BY <2>1, <1>d
<1> QED
  BY <1>1, <1>2, <1>3, <1>b, <1>c, FailsCounts DEF ConfStep, SyncStep, Before

LEMMA CrashFrame ==
    ASSUME TypeOK, CrashStep
    PROVE  /\ UNCHANGED <<paths, old, current, ids, key, cert, req, sets>>
           /\ pc # "down" /\ pc' = "down" /\ sync' = ""
           /\ faults < MaxFaults /\ faults' = faults + 1
           /\ file' = file \/ (sync = "flush" /\ file' = [file EXCEPT ![current] = Torn])
           /\ DOMAIN hist' = DOMAIN hist
           /\ hist'.had = hist.had /\ hist'.buried = hist.buried /\ hist'.stuck = hist.stuck /\ hist'.synced = hist.synced
           /\ hist'.broken = (hist.broken \/ sync # "") /\ hist'.halfPair = (hist.halfPair \/ cert = Torn)
<1>a. DOMAIN hist = {"had", "buried", "stuck", "broken", "synced", "halfPair"}
  BY TypeParts DEF HistTyped
<1>1. PICK power \in BOOLEAN : Crash(power)
  BY DEF CrashStep
<1>2. hist' = [hist EXCEPT !.broken = @ \/ sync # "", !.halfPair = @ \/ cert = Torn]
  BY <1>1 DEF Crash
<1>3. /\ DOMAIN hist' = DOMAIN hist
      /\ hist'.had = hist.had /\ hist'.buried = hist.buried /\ hist'.stuck = hist.stuck /\ hist'.synced = hist.synced
      /\ hist'.broken = (hist.broken \/ sync # "") /\ hist'.halfPair = (hist.halfPair \/ cert = Torn)
  BY <1>a, <1>2
<1> QED
  BY <1>1, <1>3 DEF Crash, Fault, tlsVars

-------------------------------------------------------------------------------
(* The types, in the same parts. *)
LEMMA FilesStep == IInv /\ [Next]_vars => FilesTyped'
<1> SUFFICES ASSUME IInv, [Next]_vars PROVE FilesTyped'
  OBVIOUS
<1>a. TypeOK /\ FilesTyped /\ IsFile(Absent) /\ IsFile(Torn) /\ \A t : IsFile(Whole(t))
  BY TypeParts, FileKinds DEF IInv
<1>b. \A f, p, v : f = [file EXCEPT ![p] = v] /\ IsFile(v) =>
          DOMAIN f = Everywhere /\ \A q \in Everywhere : IsFile(f[q])
  BY <1>a DEF FilesTyped
<1>1. CASE ParseConfig
  <2>1. UNCHANGED <<paths, file, old>> /\ current' = FoundAt
    BY <1>1 DEF ParseConfig
  <2>2. FoundAt \in 0..Len(paths)
    BY FoundIsLast, <1>a DEF LastWithFile
  <2> QED
    BY <2>1, <2>2, <1>a DEF FilesTyped
<1>2. ASSUME NEW ok \in BOOLEAN, SyncRenames(ok) PROVE FilesTyped'
  <2>1. paths' = paths /\ current' \in {current, 1} /\ (current' = current \/ paths # <<>>)
    BY <1>2 DEF SyncRenames
  <2>2. current' \in 0..Len(paths)
    BY <2>1, <1>a, SearchPathsLength DEF FilesTyped
  <2>3. /\ file' = file \/ file' = [file EXCEPT ![current] = Absent]
        /\ old' = old \/ old' = [old EXCEPT ![current] = file[current]]
        /\ current # 0 \/ old' = old
    BY <1>2 DEF SyncRenames
  <2>4. current # 0 => IsFile(file[current])
    BY <1>a, SearchPathsLength DEF Everywhere, FilesTyped
  <2> QED
    BY <2>1, <2>2, <2>3, <2>4, <1>a DEF FilesTyped
<1>3. ASSUME UNCHANGED <<paths, old, current>>,
             \/ file' = file
             \/ \E p, v : file' = [file EXCEPT ![p] = v] /\ IsFile(v)
      PROVE  FilesTyped'
  BY <1>3, <1>a, <1>b DEF FilesTyped
<1>4. CASE NewLevel \/ NewIdentity \/ SyncFlushes \/ UNCHANGED vars
  BY <1>4, <1>3 DEF NewLevel, NewIdentity, SyncFlushes, vars, confVars
<1>5. ASSUME NEW ok \in BOOLEAN, SyncCreates(ok) \/ SyncWrites(ok) PROVE FilesTyped'
  <2>1. /\ UNCHANGED <<paths, old, current>>
        /\ file' \in {file, [file EXCEPT ![current] = Torn], [file EXCEPT ![current] = Whole(data)]}
    BY <1>5 DEF SyncCreates, SyncWrites
  <2> QED
    BY <2>1, <1>3, <1>a
<1>6. CASE TlsStep
  BY <1>6, <1>3, <1>a, TlsFrame
<1>7. CASE CrashStep
  BY <1>7, <1>3, <1>a, CrashFrame
<1> QED
  BY <1>1, <1>2, <1>4, <1>5, <1>6, <1>7, StepGroups DEF ConfStep, SyncStep

LEMMA PlaceStep == IInv /\ [Next]_vars => PlaceTyped'
<1> SUFFICES ASSUME IInv, [Next]_vars PROVE PlaceTyped'
  OBVIOUS
<1>a. TypeOK /\ PlaceTyped
  BY TypeParts DEF IInv
<1>1. CASE ParseConfig \/ NewLevel \/ NewIdentity
  <2>1. /\ <<pc, pc'>> \in {<<"down", "level">>, <<"level", "identity">>, <<"identity", "tls">>}
        /\ (sync' = sync \/ (sync' = "rename" /\ pc # "down")) /\ (pc = "identity" => sync = "")
    BY <1>1 DEF ParseConfig, NewLevel, NewIdentity
  <2> QED
    BY <2>1, <1>a DEF PlaceTyped, Places
<1>2. CASE SyncStep
  <2>1. pc' = pc /\ sync # "" /\ sync' \in {"", "create", "write", "flush"}
    BY <1>2 DEF SyncStep, SyncRenames, SyncCreates, SyncWrites, SyncFlushes
  <2> QED
    BY <2>1, <1>a DEF PlaceTyped
<1>3. CASE TlsStep
  <2>1. pc' \in Later \cup {"down"} /\ sync = "" /\ sync' = ""
    BY <1>3, <1>a, TlsFrame
  <2> QED
    BY <2>1 DEF PlaceTyped, Places, Later
<1>4. CASE CrashStep
  BY <1>4, <1>a, CrashFrame DEF PlaceTyped, Places
<1>5. CASE UNCHANGED vars
  BY <1>5, <1>a DEF vars, PlaceTyped
<1> QED
  BY <1>1, <1>2, <1>3, <1>4, <1>5, StepGroups DEF ConfStep

LEMMA HistStep == IInv /\ [Next]_vars => HistTyped'
<1> SUFFICES ASSUME IInv, [Next]_vars PROVE HistTyped'
  OBVIOUS
<1>a. TypeOK /\ FilesTyped /\ HistTyped
  BY TypeParts DEF IInv
<1>b. current # 0 => current \in Everywhere
  BY <1>a, SearchPathsLength DEF FilesTyped, Everywhere
<1>1. CASE UNCHANGED hist
  BY <1>1, <1>a DEF HistTyped
<1>2. CASE ParseConfig \/ NewLevel \/ NewIdentity \/ UNCHANGED vars
  BY <1>2, <1>1 DEF ParseConfig, NewLevel, NewIdentity, vars
<1>3. ASSUME NEW ok \in BOOLEAN, SyncRenames(ok) PROVE HistTyped'
  <2>1. \/ hist' = hist
        \/ \E b \in SUBSET Everywhere : hist' = [hist EXCEPT !.buried = b] \/ hist' = [hist EXCEPT !.stuck = b]
    BY <1>3, <1>a, <1>b DEF SyncRenames, HistTyped
  <2> QED
    BY <2>1, <1>a DEF HistTyped
<1>4. CASE SyncFlushes
  <2>1. hist' = [hist EXCEPT !.synced = data]
    BY <1>4 DEF SyncFlushes
  <2> QED
    BY <2>1, <1>a DEF HistTyped
<1>5. ASSUME NEW ok \in BOOLEAN, SyncCreates(ok) \/ SyncWrites(ok) PROVE HistTyped'
  <2>1. hist' = hist \/ hist' = [hist EXCEPT !.broken = TRUE]
    BY <1>5 DEF SyncCreates, SyncWrites
  <2> QED
    BY <2>1, <1>a DEF HistTyped
<1>6. CASE TlsStep
  <2>1. hist' = hist \/ \E b \in BOOLEAN : hist' = [hist EXCEPT !.halfPair = b]
    BY <1>6, <1>a, TlsFrame
  <2> QED
    BY <2>1, <1>a DEF HistTyped
<1>7. CASE CrashStep
  <2>1. /\ DOMAIN hist' = DOMAIN hist
        /\ hist'.had = hist.had /\ hist'.buried = hist.buried /\ hist'.stuck = hist.stuck
        /\ hist'.broken = (hist.broken \/ sync # "") /\ hist'.halfPair = (hist.halfPair \/ cert = Torn)
    BY <1>7, <1>a, CrashFrame
  <2> QED
    BY <2>1, <1>a DEF HistTyped
<1> QED
  BY <1>2, <1>3, <1>4, <1>5, <1>6, <1>7, StepGroups DEF ConfStep, SyncStep

(* Most steps leave the counters alone, but for the faults. *)
CountFrame == CountsTyped /\ CertTyped

LEMMA CountsGrow ==
    ASSUME CountFrame, UNCHANGED <<ids, key, cert, req, sets>>,
           faults' \in Nat, faults <= faults', faults' <= MaxFaults
    PROVE  CountFrame'
<1>1. CountsTyped'
  BY OneMore DEF CountsTyped, CountFrame
<1>2. CertTyped'
  BY DEF CertTyped, CountFrame
<1> QED
  BY <1>1, <1>2 DEF CountFrame

LEMMA CountsStep == IInv /\ [Next]_vars => CountFrame'
<1> SUFFICES ASSUME IInv, [Next]_vars PROVE CountFrame'
  OBVIOUS
<1>a. CountFrame /\ TypeOK /\ CountsTyped /\ CertTyped
  BY TypeParts DEF IInv, CountFrame
<1>b. faults \in Nat /\ faults <= faults /\ faults <= MaxFaults /\ faults + 1 \in Nat /\ faults <= faults + 1
  BY <1>a DEF CountsTyped
<1>1. ASSUME UNCHANGED <<ids, key, cert, req, sets>>,
             faults' \in Nat, faults <= faults', faults' <= MaxFaults
      PROVE  CountFrame'
  BY <1>1, <1>a, CountsGrow
<1>2. CASE ParseConfig \/ NewLevel \/ SyncStep
  <2>1. ids' = ids
    BY <1>2 DEF ParseConfig, NewLevel, SyncStep, SyncRenames, SyncCreates, SyncWrites, SyncFlushes
  <2> QED
    BY <2>1, <1>1, <1>2, <1>a, ConfFrame DEF ConfStep
<1>3. CASE LoadsCertificate \/ Stops \/ UNCHANGED vars
  BY <1>3, <1>1, <1>b DEF LoadsCertificate, Stops, vars, tlsVars
<1>4. ASSUME NEW ok \in BOOLEAN, TLSConfig(ok) \/ Signs(ok) PROVE CountFrame'
  <2>1. Fails(ok) /\ UNCHANGED <<ids, key, cert, req, sets>>
    BY <1>4 DEF TLSConfig, Signs, tlsVars
  <2> QED
    BY <2>1, <1>1, <1>a, FailsCounts
<1>5. CASE CrashStep
  <2>1. faults' \in Nat /\ faults <= faults' /\ faults' <= MaxFaults
    BY <1>5, <1>a, <1>b, Bounds, OneMore, CrashFrame
  <2> QED
    BY <2>1, <1>5, <1>1, <1>a, CrashFrame
<1>6. CASE NewIdentity
  <2>1. UNCHANGED <<key, cert, req, faults, sets>> /\ CertTyped'
    BY <1>6, <1>a DEF NewIdentity, tlsVars, CertTyped
  <2>2. CASE ~NoIdentity(data)
    <3>1. ids' = ids
      BY <1>6, <2>2 DEF NewIdentity, NoIdentity
    <3> QED
      BY <2>1, <3>1, <1>a, <1>b, CountsGrow
  <2>3. CASE NoIdentity(data)
    <3>1. ids' = ids + 1 /\ pc = "identity"
      BY <1>6, <2>3 DEF NewIdentity, NoIdentity
    <3>2. ~(ids > faults)
      BY <2>3, <3>1 DEF IInv, IdentityInv
    <3>3. ids \in Nat /\ ids <= faults
      BY <3>2, <1>a DEF CountsTyped
    <3> QED
      BY <2>1, <3>1, <3>3, <1>a, OneMore DEF CountFrame, CountsTyped
  <2> QED
    BY <2>2, <2>3
<1>7. ASSUME NEW ok \in BOOLEAN, SavesKey(ok) PROVE CountFrame'
  <2>1. /\ pc = "key" /\ Fails(ok) /\ req' = req + 1 /\ key' \in {req', key, TornKey}
        /\ UNCHANGED <<ids, cert, sets>>
    BY <1>7 DEF SavesKey
  <2>2. req <= faults
    BY <2>1, <1>a DEF IInv, KeyInv, HasLocalKeyPair
  <2>3. faults' \in Nat /\ faults <= faults' /\ faults' <= MaxFaults
    BY <2>1, <1>a, FailsCounts
  <2>4. req' \in Nat /\ req' <= faults' + 1 /\ req <= req'
    BY <2>1, <2>2, <2>3, <1>a, OneMore DEF CountsTyped
  <2>5. CountsTyped'
    <3>1. sets' \in Nat /\ sets' <= MaxSets
      BY <2>1, <1>a DEF CountsTyped
    <3>2. ids' \in Nat /\ ids' <= faults' + 1
      BY <2>1, <2>3, <1>a, OneMore DEF CountsTyped
    <3>3. CASE key' = req'
      <4>1. key' \in Nat /\ key' <= req'
        BY <3>3, <2>4, OneMore
      <4> QED
        BY <2>3, <2>4, <3>1, <3>2, <4>1 DEF CountsTyped
    <3>4. CASE key' = key /\ key # TornKey
      <4>1. key \in Nat /\ key <= req /\ req \in Nat
        BY <1>a, <3>4 DEF CountsTyped
      <4>2. key' \in Nat /\ key' <= req'
        BY <3>4, <4>1, <2>4
      <4> QED
        BY <2>3, <2>4, <3>1, <3>2, <4>2 DEF CountsTyped
    <3>5. CASE key' = TornKey
      BY <2>3, <2>4, <3>1, <3>2, <3>5 DEF CountsTyped
    <3> QED
      BY <2>1, <3>3, <3>4, <3>5
  <2>6. CertTyped'
    BY <2>1, <2>4, <1>a DEF CertTyped, CountsTyped
  <2> QED
    BY <2>5, <2>6 DEF CountFrame
<1>8. CASE TruncatesCertificate \/ Renews
  <2>1. cert' = Torn /\ UNCHANGED <<ids, key, req, faults, sets>>
    BY <1>8 DEF TruncatesCertificate, Renews
  <2> QED
    BY <2>1, <1>a DEF CountFrame, CountsTyped, CertTyped
<1>9. ASSUME NEW ok \in BOOLEAN, WritesCertificate(ok) PROVE CountFrame'
  <2>1. /\ Fails(ok) /\ UNCHANGED <<ids, key, req, sets>>
        /\ \/ cert' = cert
           \/ cert' = Pair(req) /\ pc = "write"
           \/ cert' = Pair(key) /\ pc = "renew"
    BY <1>9 DEF WritesCertificate
  <2>2. faults' \in Nat /\ faults <= faults' /\ faults' <= MaxFaults
    BY <2>1, <1>a, FailsCounts
  <2>3. CountsTyped'
    BY <2>1, <2>2, <1>a, OneMore DEF CountsTyped
  <2>4. CertTyped'
    BY <2>1, <1>a DEF CertTyped, CountsTyped, IInv, KeyInv, NoKey
  <2> QED
    BY <2>3, <2>4 DEF CountFrame
<1>10. ASSUME NEW k \in Keys, HandlerSets(k) PROVE CountFrame'
  <2>1. sets < MaxSets /\ sets' = sets + 1 /\ UNCHANGED <<ids, key, cert, req, faults>>
    BY <1>10 DEF HandlerSets, tlsVars
  <2> QED
    BY <2>1, <1>a, Bounds DEF CountFrame, CountsTyped, CertTyped
<1> QED
  BY <1>2, <1>3, <1>4, <1>5, <1>6, <1>7, <1>8, <1>9, <1>10, StepGroups DEF ConfStep, TlsStep

LEMMA TypeStep == IInv /\ [Next]_vars => TypeOK'
BY FilesStep, PlaceStep, CountsStep, HistStep, TypeParts DEF CountFrame

-------------------------------------------------------------------------------
(* What the user wrote stays: the steps of TLSConfig and of a crash, ...    *)
LEMMA KeepTls ==
    ASSUME IInv, TlsStep \/ UNCHANGED vars
    PROVE  KeepInv'
<1>1. CASE UNCHANGED vars
  BY <1>1 DEF vars, confVars, IInv, KeepInv, FileInv, CurrentIsLast, DataInv, DiskInv, Kept, Safe
<1>2. CASE TlsStep
  <2>1. /\ UNCHANGED <<paths, file, old, current, sync>> /\ sync = "" /\ pc # "down"
        /\ pc' \notin {"level", "identity", "tls"}
    BY <1>2, TlsFrame DEF IInv, Later
  <2>2. hist'.had = hist.had /\ hist'.buried = hist.buried /\ hist'.stuck = hist.stuck
    BY <1>2, TlsFrame, TypeParts DEF IInv, HistTyped
  <2>3. FileInv' /\ Kept'
    BY <2>1, <2>2 DEF IInv, KeepInv, FileInv, Kept, Safe
  <2>4. CurrentIsLast' /\ DataInv' /\ DiskInv'
    BY <2>1 DEF IInv, KeepInv, CurrentIsLast, DataInv, DiskInv
  <2> QED
    BY <2>3, <2>4 DEF KeepInv
<1> QED
  BY <1>1, <1>2

LEMMA KeepCrash ==
    ASSUME IInv, CrashStep
    PROVE  KeepInv'
<1>1. /\ TypeOK /\ FileInv /\ Kept /\ DiskInv /\ FilesTyped
  BY TypeParts DEF IInv, KeepInv
<1>2. /\ UNCHANGED <<paths, old, current>> /\ pc' = "down" /\ sync' = ""
      /\ file' = file \/ (sync = "flush" /\ file' = [file EXCEPT ![current] = Torn])
      /\ Safe' = Safe
  BY <1>1, CrashFrame DEF Safe
<1>3. CurrentIsLast' /\ DataInv' /\ DiskInv'
  BY <1>2 DEF CurrentIsLast, DataInv, DiskInv
<1>4. \A p \in Everywhere : file'[p] = file[p] \/ (sync = "flush" /\ p = current /\ file'[p] = Torn)
  BY <1>1, <1>2 DEF FilesTyped
<1>5. FileInv'
  BY <1>1, <1>4, FileKinds DEF FileInv
<1>6. ASSUME NEW p \in Safe PROVE HasUser(file'[p]) \/ HasUser(old[p])
  <2>1. HasUser(file[p]) \/ HasUser(old[p])
    BY <1>1, <1>6 DEF Kept
  <2>2. p \in Everywhere
    BY <1>1, <1>6 DEF TypeOK, Safe
  <2>3. CASE file'[p] = file[p]
    BY <2>1, <2>3
  <2>4. CASE sync = "flush" /\ p = current
    BY <2>4, <1>1 DEF DiskInv
  <2> QED
    BY <2>2, <2>3, <2>4, <1>4
<1>7. Kept'
  BY <1>2, <1>6 DEF Kept
<1> QED
  BY <1>3, <1>5, <1>7 DEF KeepInv

(* ... the start of the program, ... *)
LEMMA KeepStart ==
    ASSUME IInv, ParseConfig \/ NewLevel \/ NewIdentity
    PROVE  KeepInv'
<1>1. TypeOK /\ FileInv /\ Kept /\ DiskInv /\ DataInv /\ CurrentIsLast /\ PlaceTyped /\ FilesTyped
  BY TypeParts DEF IInv, KeepInv
<1>2. UNCHANGED <<paths, file, old, hist>>
  BY DEF ParseConfig, NewLevel, NewIdentity
<1>3. FileInv' /\ Kept'
  BY <1>1, <1>2 DEF FileInv, Kept, Safe
<1>4. ASSUME NEW c \in 1..Len(paths)
      PROVE  /\ IsFile(file[c])
             /\ file[c].st = "whole" => UserOrSettled(file[c].tree) /\ file[c] = Whole(file[c].tree)
  <2>1. c \in Everywhere
    BY <1>1, SearchPathsLength DEF FilesTyped, Everywhere
  <2>2. IsFile(file[c])
    BY <1>1, <2>1 DEF FilesTyped
  <2> QED
    BY <1>1, <2>1, <2>2, FileKinds DEF FileInv
<1>5. CASE ParseConfig
  <2>1. /\ pc = "down" /\ pc' = "level" /\ sync' = sync /\ current' = FoundAt
        /\ data' = IF FoundAt = 0 THEN Empty ELSE Parsed(file[FoundAt])
    BY <1>5 DEF ParseConfig
  <2>2. sync' = ""
    BY <1>1, <2>1 DEF PlaceTyped
  <2>3. LastWithFile(file, Len(paths), FoundAt)
    BY <1>1, FoundIsLast
  <2>4. CurrentIsLast'
    BY <1>2, <2>1, <2>3 DEF CurrentIsLast, LastWithFile
  <2>5. FoundAt # 0 => FoundAt \in 1..Len(paths) /\ file[FoundAt] # Absent
    BY <2>3, <1>1, SearchPathsLength DEF LastWithFile, FilesTyped
  <2>6. LogLevel \notin DOMAIN Empty
    BY DEF LogLevel, Empty
  <2>7. ~BadLevel(Empty)
    BY <2>6 DEF BadLevel, Get, Nil, Leaf
  <2>8. BadLevel(data') => User \in DOMAIN data'
    <3>1. CASE data' = Empty
      BY <3>1, <2>7
    <3>2. CASE FoundAt # 0 /\ file[FoundAt].st = "whole"
      <4>1. data' = file[FoundAt].tree /\ UserOrSettled(data')
        BY <3>2, <2>1, <2>5, <1>4, FileKinds
      <4> QED
        BY <4>1 DEF UserOrSettled, Settled
    <3> QED
      BY <3>1, <3>2, <2>1, <2>5, <1>4, FileKinds
  <2>9. DataInv'
    BY <2>1, <2>8 DEF DataInv
  <2>10. DiskInv'
    BY <1>2, <2>1, <2>2, <2>5, <1>4, FileKinds DEF DiskInv
  <2> QED
    BY <1>3, <2>4, <2>9, <2>10 DEF KeepInv
<1>6. CASE NewLevel
  <2>1. pc = "level" /\ pc' = "identity" /\ sync = "" /\ current' = current
    BY <1>6, <1>1 DEF NewLevel, PlaceTyped
  <2>2. CurrentIsLast'
    BY <1>1, <1>2, <2>1 DEF CurrentIsLast
  <2>3. CASE BadLevel(data)
    <3>1. data' = Set(data, LogLevel, Leaf("debug")) /\ sync' = "rename"
      BY <1>6, <2>3 DEF NewLevel, BadLevel
    <3>2. User \in DOMAIN data
      BY <2>1, <2>3, <1>1 DEF DataInv
    <3>3. Get(data', LogLevel) = Leaf("debug") /\ User \in DOMAIN data'
      BY <3>1, <3>2, SetTop, TopKeys
    <3>4. ~BadLevel(data')
      BY <3>3 DEF BadLevel, Leaf
    <3>5. DataInv'
      BY <2>1, <3>1, <3>3, <3>4 DEF DataInv
    <3>6. current \notin {0} \cup hist.stuck /\ file[current].st = "whole" => HasUser(file[current])
      <4>1. SUFFICES ASSUME current \notin {0} \cup hist.stuck, file[current].st = "whole" PROVE HasUser(file[current])
        OBVIOUS
      <4>2. data = file[current].tree
        BY <1>1, <2>1, <4>1 DEF DiskInv
      <4>3. current \in 1..Len(paths)
        BY <1>1, <4>1, SearchPathsLength DEF FilesTyped
      <4> QED
        BY <4>1, <4>2, <4>3, <1>4, <3>2, FileKinds
    <3>7. DiskInv'
      BY <3>1, <3>6, <2>1, <1>2 DEF DiskInv
    <3> QED
      BY <1>3, <2>2, <3>5, <3>7 DEF KeepInv
  <2>4. CASE ~BadLevel(data)
    <3>1. data' = data /\ sync' = ""
      BY <1>6, <2>1, <2>4 DEF NewLevel, BadLevel
    <3>2. DataInv'
      BY <2>1, <2>4, <3>1 DEF DataInv
    <3>3. DiskInv'
      BY <2>1, <3>1, <1>1, <1>2 DEF DiskInv
    <3> QED
      BY <1>3, <2>2, <3>2, <3>3 DEF KeepInv
  <2> QED
    BY <2>3, <2>4
<1>7. CASE NewIdentity
  <2>1. pc = "identity" /\ pc' = "tls" /\ sync = "" /\ current' = current
    BY <1>7 DEF NewIdentity
  <2>2. CurrentIsLast'
    BY <1>1, <1>2, <2>1 DEF CurrentIsLast
  <2>3. ~BadLevel(data)
    BY <1>1, <2>1 DEF DataInv
  <2>4. CASE NoIdentity(data)
    <3>1. data' = Set(data, Identity, Leaf(ids + 1)) /\ sync' = "rename"
      BY <1>7, <2>4 DEF NewIdentity, NoIdentity
    <3>2. /\ Get(data', Identity) = Leaf(ids + 1)
          /\ Get(data', LogLevel) = Get(data, LogLevel)
      BY <3>1, SetTop, TopKeys
    <3>3. Settled(data')
      BY <3>2, <2>3 DEF Settled, BadLevel, NoIdentity, Leaf, Nil
    <3>4. DataInv'
      BY <2>1, <3>3 DEF DataInv, Settled
    <3>5. current \notin {0} \cup hist.stuck /\ file[current].st = "whole" => HasUser(file[current])
      <4>1. SUFFICES ASSUME current \notin {0} \cup hist.stuck, file[current].st = "whole" PROVE HasUser(file[current])
        OBVIOUS
      <4>2. data = file[current].tree
        BY <1>1, <2>1, <4>1 DEF DiskInv
      <4>3. current \in 1..Len(paths)
        BY <1>1, <4>1, SearchPathsLength DEF FilesTyped
      <4>4. User \in DOMAIN data
        BY <4>1, <4>2, <4>3, <1>4, <2>4 DEF UserOrSettled, Settled
      <4> QED
        BY <4>1, <4>2, <4>3, <4>4, <1>4, FileKinds
    <3>6. DiskInv'
      BY <3>1, <3>5, <2>1, <1>2 DEF DiskInv
    <3> QED
      BY <1>3, <2>2, <3>4, <3>6 DEF KeepInv
  <2>5. CASE ~NoIdentity(data)
    <3>1. data' = data /\ sync' = ""
      BY <1>7, <2>1, <2>5 DEF NewIdentity, NoIdentity
    <3>2. DataInv'
      BY <2>1, <2>3, <2>5, <3>1 DEF DataInv, Settled
    <3>3. DiskInv'
      BY <2>1, <3>1 DEF DiskInv
    <3> QED
      BY <1>3, <2>2, <3>2, <3>3 DEF KeepInv
  <2> QED
    BY <2>4, <2>5
<1> QED
  BY <1>5, <1>6, <1>7

(* ... and each step of Sync, leave it in the file or in the .old one.      *)
LEMMA KeepRename ==
    ASSUME IInv, NEW ok \in BOOLEAN, SyncRenames(ok)
    PROVE  KeepInv'
<1>1. TypeOK /\ FileInv /\ Kept /\ DiskInv /\ DataInv /\ CurrentIsLast /\ PlaceTyped /\ FilesTyped /\ HistTyped
  BY TypeParts DEF IInv, KeepInv
<1>2. /\ sync = "rename" /\ UNCHANGED <<paths, data, pc>>
      /\ sync' = IF current' = 0 THEN "" ELSE "create"
      /\ current' = current \/ (current = 0 /\ current' = 1 /\ paths # <<>>)
  BY DEF SyncRenames
<1>3. pc \in {"identity", "tls"}
  BY <1>1, <1>2 DEF PlaceTyped
<1>4. DataInv'
  BY <1>1, <1>2, <1>3 DEF DataInv
<1>5. Len(paths) \in Nat /\ 1..Len(paths) \subseteq Everywhere /\ (paths = <<>> <=> Len(paths) = 0)
  BY <1>1, SearchPathsLength DEF FilesTyped, Everywhere
<1>6. current' # 0 => current' \in 1..Len(paths)
  BY <1>1, <1>2, <1>5 DEF FilesTyped
<1>7. \A q \in 1..Len(paths) : q > current => file[q] = Absent
  BY <1>1, <1>3 DEF CurrentIsLast
<1>8. ASSUME UNCHANGED <<file, old>>, Safe' \subseteq Safe,
             current' # 0 => file[current'] = Absent \/ current' \in hist'.stuck
      PROVE  KeepInv'
  <2>1. FileInv' /\ Kept'
    BY <1>1, <1>8 DEF FileInv, Kept
  <2>2. CurrentIsLast'
    <3>1. current' = current \/ current = 0
      BY <1>2
    <3>2. \A q \in 1..Len(paths) : q > current' => q > current
      <4>1. CASE current' = current
        BY <4>1
      <4>2. CASE current = 0
        BY <4>2, <1>5
      <4> QED
        BY <3>1, <4>1, <4>2
    <3> QED
      BY <3>2, <1>2, <1>7, <1>8 DEF CurrentIsLast
  <2>3. current' \in Safe' => HasUser(old'[current'])
    <3>1. SUFFICES ASSUME current' \in Safe' PROVE HasUser(old[current'])
      BY <1>8
    <3>2. current' \in Safe /\ current' \notin hist'.stuck /\ current' # 0
      <4>1. current' \in Safe /\ current' \notin hist'.stuck
        BY <3>1, <1>8 DEF Safe
      <4> QED
        BY <4>1, <1>1 DEF Safe, HistTyped, Everywhere
    <3>3. file[current'] = Absent
      BY <3>2, <1>8
    <3> QED
      BY <3>2, <3>3, <1>1, FileKinds DEF Kept
  <2>4. current' # 0 /\ current' \notin hist'.stuck => file'[current'].st # "whole"
    BY <1>8, FileKinds
  <2>5. sync' \in {"", "create"} /\ pc' = pc /\ (sync' = "" => current' = 0) /\ (sync' = "create" => current' # 0)
    BY <1>2
  <2>6. DiskInv'
    BY <2>3, <2>4, <2>5 DEF DiskInv
  <2> QED
    BY <1>4, <2>1, <2>2, <2>6 DEF KeepInv
<1>9. CASE current = 0
  <2>1. UNCHANGED <<file, old, hist>>
    BY <1>9 DEF SyncRenames
  <2>2. current' # 0 => file[current'] = Absent
    BY <1>5, <1>6, <1>7, <1>9
  <2>3. Safe' = Safe
    BY <2>1 DEF Safe
  <2> QED
    BY <2>1, <2>2, <2>3, <1>8
<1>10. CASE current # 0 /\ file[current] = Absent
  <2>1. UNCHANGED <<file, old, hist>> /\ current' = current
    BY <1>2, <1>10 DEF SyncRenames
  <2>2. Safe' = Safe
    BY <2>1 DEF Safe
  <2> QED
    BY <2>1, <2>2, <1>8, <1>10
<1>11. CASE current # 0 /\ file[current] # Absent /\ ~ok
  <2>1. UNCHANGED <<file, old, current>> /\ hist' = [hist EXCEPT !.stuck = @ \cup {current}]
    BY <1>2, <1>11 DEF SyncRenames
  <2>2. /\ hist'.had = hist.had /\ hist'.buried = hist.buried
        /\ hist'.stuck = hist.stuck \cup {current}
    BY <2>1, <1>1 DEF HistTyped
  <2>3. Safe' \subseteq Safe /\ current' \in hist'.stuck
    BY <2>1, <2>2 DEF Safe
  <2> QED
    BY <2>1, <2>3, <1>8
<1>12. CASE current # 0 /\ file[current] # Absent /\ ok
  <2>1. /\ current' = current /\ sync' = "create" /\ file' = [file EXCEPT ![current] = Absent]
        /\ old' = [old EXCEPT ![current] = file[current]]
        /\ hist' = [hist EXCEPT !.buried = IF file[current] = Torn THEN @ \cup {current} ELSE @]
    BY <1>2, <1>12 DEF SyncRenames
  <2>2. current \in 1..Len(paths) /\ current \in Everywhere
    BY <1>1, <1>5, <1>12 DEF FilesTyped
  <2>3. /\ \A p \in Everywhere : file'[p] = IF p = current THEN Absent ELSE file[p]
        /\ \A p \in Everywhere : old'[p] = IF p = current THEN file[current] ELSE old[p]
    BY <2>1, <1>1 DEF FilesTyped
  <2>4. /\ hist'.had = hist.had /\ hist'.stuck = hist.stuck /\ hist.buried \subseteq hist'.buried
        /\ file[current] = Torn => current \in hist'.buried
    BY <2>1, <1>1 DEF HistTyped
  <2>5. FileInv'
    BY <2>3, <1>1, FileKinds DEF FileInv
  <2>6. CurrentIsLast'
    BY <2>1, <2>3, <1>1, <1>2, <1>5 DEF CurrentIsLast
  <2>7. Safe' \subseteq Safe /\ Safe \subseteq Everywhere
    BY <2>4, <1>1 DEF Safe, HistTyped
  <2>8. current \in Safe' => HasUser(old'[current])
    <3>1. SUFFICES ASSUME current \in Safe' PROVE HasUser(old'[current])
      OBVIOUS
    <3>2. current \notin hist'.buried /\ current \notin hist'.stuck
      BY <3>1 DEF Safe
    <3>3. file[current] # Torn /\ current \notin hist.stuck /\ IsFile(file[current])
      BY <3>2, <2>2, <2>4, <1>1 DEF FilesTyped
    <3>4. file[current].st = "whole"
      BY <3>3, <1>12, FileKinds
    <3>5. HasUser(file[current])
      BY <3>3, <3>4, <1>1, <1>2, <1>12 DEF DiskInv
    <3> QED
      BY <3>5, <2>2, <2>3
  <2>9. ASSUME NEW p \in Safe' PROVE HasUser(file'[p]) \/ HasUser(old'[p])
    <3>1. p \in Everywhere /\ p \in Safe
      BY <2>7, <2>9
    <3>2. CASE p = current
      BY <3>2, <2>8, <2>9
    <3>3. CASE p # current
      BY <3>1, <3>3, <2>3, <1>1 DEF Kept
    <3> QED
      BY <3>2, <3>3
  <2>10. Kept'
    BY <2>9 DEF Kept
  <2>11. DiskInv'
    BY <2>1, <2>2, <2>3, <2>8, <1>12, FileKinds DEF DiskInv
  <2> QED
    BY <1>4, <2>5, <2>6, <2>10, <2>11 DEF KeepInv
<1> QED
  BY <1>9, <1>10, <1>11, <1>12

LEMMA KeepWrite ==
    ASSUME IInv, SyncFlushes \/ \E ok \in BOOLEAN : SyncCreates(ok) \/ SyncWrites(ok)
    PROVE  KeepInv'
<1>1. TypeOK /\ FileInv /\ Kept /\ DiskInv /\ DataInv /\ CurrentIsLast /\ PlaceTyped /\ FilesTyped /\ HistTyped
  BY TypeParts DEF IInv, KeepInv
<1>2. /\ UNCHANGED <<paths, old, data, current, pc>> /\ sync \in {"create", "write", "flush"}
      /\ \/ file' = file /\ sync' = ""
         \/ sync = "create" /\ file' = [file EXCEPT ![current] = Torn] /\ sync' = "write"
         \/ sync = "write" /\ file' = [file EXCEPT ![current] = Whole(data)] /\ sync' = "flush"
      /\ \/ hist' = hist
         \/ hist' = [hist EXCEPT !.broken = TRUE]
         \/ hist' = [hist EXCEPT !.synced = data]
  BY DEF SyncFlushes, SyncCreates, SyncWrites, confVars
<1>3. Safe' = Safe /\ hist'.stuck = hist.stuck /\ Safe \subseteq Everywhere
  BY <1>1, <1>2 DEF HistTyped, Safe
<1>4. pc \in {"identity", "tls"}
  BY <1>1, <1>2 DEF PlaceTyped
<1>5. current # 0 /\ (current \in Safe => HasUser(old[current]))
  BY <1>1, <1>2 DEF DiskInv
<1>6. current \in 1..Len(paths) /\ current \in Everywhere
  BY <1>1, <1>5, SearchPathsLength DEF FilesTyped, Everywhere
<1>7. DataInv'
  BY <1>1, <1>2, <1>4 DEF DataInv
<1>8. UserOrSettled(data)
  BY <1>1, <1>2, <1>4 DEF DataInv, UserOrSettled
<1>9. \A p \in Everywhere : p # current => file'[p] = file[p]
  BY <1>1, <1>2 DEF FilesTyped
<1>10. \/ file'[current] = file[current] /\ sync' = ""
       \/ file'[current] = Torn /\ sync' = "write"
       \/ file'[current] = Whole(data) /\ sync' = "flush"
  BY <1>1, <1>2, <1>6 DEF FilesTyped
<1>11. FileInv'
  <2>1. \A p \in Everywhere : file[p].st = "whole" => UserOrSettled(file[p].tree)
    BY <1>1 DEF FileInv
  <2>2. file'[current].st = "whole" => UserOrSettled(file'[current].tree)
    <3>1. CASE file'[current] = file[current]
      BY <1>6, <2>1, <3>1
    <3>2. CASE file'[current] = Torn
      BY <3>2 DEF Torn
    <3>3. CASE file'[current] = Whole(data)
      BY <3>3, <1>8 DEF Whole
    <3> QED
      BY <1>10, <3>1, <3>2, <3>3
  <2>3. \A p \in Everywhere : file'[p].st = "whole" => UserOrSettled(file'[p].tree)
    BY <1>9, <2>1, <2>2
  <2> QED
    BY <2>3 DEF FileInv
<1>12. CurrentIsLast'
  <2>1. ASSUME NEW q \in 1..Len(paths), q > current PROVE file'[q] = Absent
    <3>1. q \in Everywhere /\ q # current
      BY <1>1, <1>6, <2>1, SearchPathsLength DEF FilesTyped, Everywhere
    <3>2. file[q] = Absent
      BY <1>1, <1>4, <2>1 DEF CurrentIsLast
    <3> QED
      BY <3>1, <3>2, <1>9
  <2> QED
    BY <2>1, <1>2 DEF CurrentIsLast
<1>13. ASSUME NEW p \in Safe PROVE HasUser(file'[p]) \/ HasUser(old[p])
  <2>1. p \in Everywhere
    BY <1>3, <1>13
  <2> QED
    BY <2>1, <1>1, <1>5, <1>9 DEF Kept
<1>14. Kept'
  BY <1>2, <1>3, <1>13 DEF Kept
<1>15. sync' = "" => current \in hist.stuck \/ file[current].st # "whole" \/ file[current] = Whole(data)
  BY <1>1, <1>2 DEF DiskInv
<1>16. DiskInv'
  <2>1. CASE sync' = ""
    <3>1. file'[current'] = file[current] /\ data' = data /\ current' = current
      BY <2>1, <1>2, <1>10
    <3>2. current \notin hist.stuck /\ file[current].st = "whole" => data = file[current].tree
      BY <2>1, <1>15, FileKinds
    <3> QED
      BY <2>1, <3>1, <3>2, <1>3 DEF DiskInv
  <2>2. CASE sync' = "write" /\ file'[current] = Torn
    BY <2>2, <1>2, <1>3, <1>5, FileKinds DEF DiskInv
  <2>3. CASE sync' = "flush" /\ file'[current] = Whole(data)
    BY <2>3, <1>2, <1>3, <1>5, FileKinds DEF DiskInv
  <2> QED
    BY <2>1, <2>2, <2>3, <1>10
<1> QED
  BY <1>7, <1>11, <1>12, <1>14, <1>16 DEF KeepInv

LEMMA KeepStep == IInv /\ [Next]_vars => KeepInv'
BY StepGroups, KeepTls, KeepCrash, KeepStart, KeepRename, KeepWrite DEF ConfStep, SyncStep

(* As long as no Sync is cut short, what is read from a file that the user  *)
(* wrote, and what is written to it, has his part.                          *)
LEMMA UnbrokenStep == IInv /\ [Next]_vars => Unbroken' /\ ReadInv'
<1> SUFFICES ASSUME IInv, [Next]_vars PROVE Unbroken' /\ ReadInv'
  OBVIOUS
<1>1. TypeOK /\ KeepInv /\ ReadInv /\ Unbroken /\ FilesTyped /\ HistTyped /\ PlaceTyped
  BY TypeParts DEF IInv
<1>2. hist.had \subseteq Everywhere /\ 0 \notin hist.had
  BY <1>1 DEF HistTyped, Everywhere
<1>3. ASSUME UNCHANGED <<file, current>>, hist'.had = hist.had, hist'.broken = hist.broken,
             sync \notin {"create", "write"}
      PROVE  Unbroken'
  BY <1>1, <1>3 DEF Unbroken
<1>4. CASE ParseConfig
  <2>1. /\ UNCHANGED <<file, hist>> /\ sync = "" /\ current' = FoundAt
        /\ data' = IF FoundAt = 0 THEN Empty ELSE Parsed(file[FoundAt])
    BY <1>4, <1>1 DEF ParseConfig, PlaceTyped
  <2>2. Unbroken'
    BY <2>1, <1>1 DEF Unbroken
  <2>3. ReadInv'
    <3>1. SUFFICES ASSUME ~hist.broken, FoundAt \in hist.had PROVE User \in DOMAIN data'
      BY <2>1 DEF ReadInv
    <3>2. HasUser(file[FoundAt])
      BY <3>1, <2>1, <1>1 DEF Unbroken
    <3> QED
      BY <3>1, <3>2, <2>1, <1>2 DEF HasUser
  <2> QED
    BY <2>2, <2>3
<1>5. CASE NewLevel \/ NewIdentity
  <2>1. /\ UNCHANGED <<file, current, hist>> /\ pc \in {"level", "identity"} /\ sync = ""
        /\ \/ data' = data
           \/ \E k \in {LogLevel, Identity}, v \in {Leaf("debug"), Leaf(ids + 1)} : data' = Set(data, k, v)
    BY <1>5, <1>1 DEF NewLevel, NewIdentity, PlaceTyped
  <2>2. User \in DOMAIN data' <=> User \in DOMAIN data
    BY <2>1, SetTop, TopKeys
  <2>3. ReadInv'
    BY <2>1, <2>2, <1>1 DEF ReadInv
  <2> QED
    BY <2>1, <2>3, <1>3
<1>6. ASSUME NEW ok \in BOOLEAN, SyncRenames(ok) PROVE Unbroken' /\ ReadInv'
  <2>1. /\ sync = "rename" /\ UNCHANGED <<paths, data, pc>> /\ pc \in {"identity", "tls"}
        /\ current' = IF current = 0 /\ paths # <<>> THEN 1 ELSE current
        /\ sync' = IF current' = 0 THEN "" ELSE "create"
        /\ file' = file \/ (current # 0 /\ file' = [file EXCEPT ![current] = Absent])
    BY <1>6, <1>1 DEF SyncRenames, PlaceTyped
  <2>2. hist'.had = hist.had /\ hist'.broken = hist.broken
    BY <1>6, <1>1 DEF SyncRenames, HistTyped
  <2>3. \A p \in Everywhere : file'[p] = file[p] \/ (current # 0 /\ p = current)
    BY <2>1, <1>1 DEF FilesTyped
  <2>4. current # 0 => current' = current /\ sync' = "create"
    BY <2>1
  <2>5. ASSUME ~hist'.broken, NEW p \in hist'.had
        PROVE  HasUser(file'[p]) \/ (p = current' /\ sync' \in {"create", "write"})
    <3>1. HasUser(file[p]) /\ p \in Everywhere
      BY <2>1, <2>2, <2>5, <1>1, <1>2 DEF Unbroken
    <3> QED
      BY <3>1, <2>3, <2>4
  <2>6. Unbroken'
    BY <2>5 DEF Unbroken
  <2>7. ASSUME ~hist'.broken, current' \in hist'.had PROVE User \in DOMAIN data'
    <3>1. CASE current' = current
      BY <2>1, <2>2, <2>7, <3>1, <1>1 DEF ReadInv
    <3>2. CASE current' # current
      <4>1. current = 0 /\ current' = 1 /\ paths # <<>>
        BY <2>1, <3>2
      <4>2. 1 \in 1..Len(paths)
        BY <4>1, <1>1, SearchPathsLength DEF FilesTyped
      <4>3. file[1] = Absent
        BY <4>1, <4>2, <2>1, <1>1 DEF KeepInv, CurrentIsLast
      <4>4. HasUser(file[1])
        BY <4>1, <2>1, <2>2, <2>7, <1>1 DEF Unbroken
      <4> QED
        BY <4>3, <4>4, FileKinds
    <3> QED
      BY <3>1, <3>2
  <2>8. ReadInv'
    BY <2>7 DEF ReadInv
  <2> QED
    BY <2>6, <2>8
<1>7. ASSUME NEW ok \in BOOLEAN, SyncCreates(ok) \/ SyncWrites(ok) PROVE Unbroken' /\ ReadInv'
  <2>1. UNCHANGED <<paths, data, current, pc>> /\ pc \in {"identity", "tls"} /\ current # 0
    BY <1>7, <1>1 DEF SyncCreates, SyncWrites, PlaceTyped, KeepInv, DiskInv
  <2>2. CASE ok
    <3>1. /\ hist' = hist
          /\ \/ sync' = "write" /\ file' = [file EXCEPT ![current] = Torn]
             \/ sync' = "flush" /\ file' = [file EXCEPT ![current] = Whole(data)]
      BY <1>7, <2>2 DEF SyncCreates, SyncWrites
    <3>2. ReadInv'
      BY <2>1, <3>1, <1>1 DEF ReadInv
    <3>3. ASSUME ~hist.broken, NEW p \in hist.had
          PROVE  HasUser(file'[p]) \/ (p = current' /\ sync' \in {"create", "write"})
      <4>1. CASE p # current
        <5>1. HasUser(file[p]) /\ p \in Everywhere
          BY <3>3, <4>1, <1>1, <1>2 DEF Unbroken
        <5> QED
          BY <5>1, <3>1, <4>1, <1>1 DEF FilesTyped
      <4>2. CASE p = current /\ sync' = "write"
        BY <4>2, <2>1
      <4>3. CASE p = current /\ sync' = "flush"
        <5>1. file'[p] = Whole(data)
          BY <4>3, <3>1, <3>3, <1>1, <1>2 DEF FilesTyped
        <5>2. User \in DOMAIN data
          BY <3>3, <4>3, <2>1, <1>1 DEF ReadInv
        <5> QED
          BY <5>1, <5>2, FileKinds
      <4> QED
        BY <3>1, <4>1, <4>2, <4>3
    <3>4. Unbroken'
      BY <3>1, <3>3 DEF Unbroken
    <3> QED
      BY <3>2, <3>4
  <2>3. CASE ~ok
    <3>1. hist' = [hist EXCEPT !.broken = TRUE]
      BY <1>7, <2>3 DEF SyncCreates, SyncWrites
    <3>2. hist'.broken
      BY <3>1, <1>1 DEF HistTyped
    <3> QED
      BY <3>2 DEF Unbroken, ReadInv
  <2> QED
    BY <2>2, <2>3
<1>8. CASE SyncFlushes
  <2>1. /\ UNCHANGED <<file, data, current, pc>> /\ sync = "flush"
        /\ hist' = [hist EXCEPT !.synced = data]
    BY <1>8 DEF SyncFlushes, confVars
  <2>2. hist'.had = hist.had /\ hist'.broken = hist.broken
    BY <2>1, <1>1 DEF HistTyped
  <2>3. ReadInv'
    BY <2>1, <2>2, <1>1 DEF ReadInv
  <2> QED
    BY <2>1, <2>2, <2>3, <1>3
<1>9. CASE TlsStep
  <2>1. /\ UNCHANGED <<file, current, sync>> /\ sync = "" /\ pc' \notin {"level", "identity", "tls"}
        /\ hist' = hist \/ \E b \in BOOLEAN : hist' = [hist EXCEPT !.halfPair = b]
    BY <1>1, <1>9, TlsFrame DEF Later
  <2>2. hist'.had = hist.had /\ hist'.broken = hist.broken
    BY <1>1, <2>1 DEF HistTyped
  <2> QED
    BY <2>1, <2>2, <1>3 DEF ReadInv
<1>10. CASE CrashStep
  <2>1. /\ UNCHANGED current /\ (file' = file \/ sync = "flush") /\ pc' = "down" /\ hist'.had = hist.had
        /\ hist'.broken = (hist.broken \/ sync # "")
    BY <1>1, <1>10, CrashFrame
  <2>2. CASE sync # ""
    BY <2>1, <2>2 DEF Unbroken, ReadInv
  <2>3. CASE sync = ""
    <3>1. file' = file /\ hist'.broken = hist.broken
      BY <2>1, <2>3, <1>1 DEF HistTyped
    <3> QED
      BY <2>1, <2>3, <3>1, <1>3 DEF ReadInv
  <2> QED
    BY <2>2, <2>3
<1>11. CASE UNCHANGED vars
  BY <1>11, <1>1 DEF vars, confVars, Unbroken, ReadInv
<1> QED
  BY <1>4, <1>5, <1>6, <1>7, <1>8, <1>9, <1>10, <1>11, StepGroups DEF ConfStep, SyncStep

-------------------------------------------------------------------------------
(* What Sync saved is what the next start finds.                            *)
LEMMA SavedStep == IInv /\ [Next]_vars => SavedInv'
<1> SUFFICES ASSUME IInv, [Next]_vars PROVE SavedInv'
  OBVIOUS
<1>1. TypeOK /\ TypeOK' /\ KeepInv /\ SavedInv /\ FilesTyped /\ HistTyped /\ PlaceTyped
  BY TypeParts, TypeStep DEF IInv
<1>2. ASSUME UNCHANGED <<paths, file>>, hist'.synced = hist.synced, hist'.broken = hist.broken,
             sync \in {"", "rename"}
      PROVE  SavedInv'
  <2>1. FoundAt' = FoundAt
    BY <1>2, SameFound
  <2> QED
    BY <2>1, <1>1, <1>2 DEF SavedInv, Saved
<1>3. CASE ParseConfig \/ NewLevel \/ NewIdentity
  <2>1. UNCHANGED <<paths, file, hist>>
    BY <1>3 DEF ParseConfig, NewLevel, NewIdentity
  <2>2. sync = ""
    BY <1>1, <1>3 DEF ParseConfig, NewLevel, NewIdentity, PlaceTyped
  <2> QED
    BY <2>1, <2>2, <1>2
<1>4. ASSUME NEW ok \in BOOLEAN, SyncRenames(ok) PROVE SavedInv'
  <2>1. CASE current = 0
    <3>1. UNCHANGED <<paths, file, hist>> /\ sync = "rename"
      BY <1>4, <2>1 DEF SyncRenames
    <3> QED
      BY <3>1, <1>2
  <2>2. CASE current # 0
    <3>1. sync' = "create"
      BY <1>4, <2>2 DEF SyncRenames
    <3> QED
      BY <3>1 DEF SavedInv
  <2> QED
    BY <2>1, <2>2
<1>5. ASSUME NEW ok \in BOOLEAN, SyncCreates(ok) \/ SyncWrites(ok) PROVE SavedInv'
  <2>1. sync' \in {"write", "flush"} \/ hist' = [hist EXCEPT !.broken = TRUE]
    BY <1>5 DEF SyncCreates, SyncWrites
  <2>2. hist' = [hist EXCEPT !.broken = TRUE] => hist'.broken
    BY <1>1 DEF HistTyped
  <2> QED
    BY <2>1, <2>2 DEF SavedInv
<1>6. CASE SyncFlushes
  <2>1. sync = "flush" /\ UNCHANGED <<paths, file, current, pc>> /\ hist' = [hist EXCEPT !.synced = data]
    BY <1>6 DEF SyncFlushes, confVars
  <2>2. hist'.synced = data
    BY <2>1, <1>1 DEF HistTyped
  <2>3. current # 0 /\ file[current] = Whole(data) /\ pc # "down"
    BY <2>1, <1>1 DEF KeepInv, DiskInv, PlaceTyped
  <2>4. LastWithFile(file, Len(paths), current)
    BY <2>3, <1>1, FileKinds DEF KeepInv, CurrentIsLast, FilesTyped, LastWithFile
  <2>5. LastWithFile(file, Len(paths), FoundAt') /\ Len(paths) \in Nat
    BY <1>1, <2>1, FoundIsLast, SearchPathsLength DEF FilesTyped
  <2>6. FoundAt' = current
    BY <2>4, <2>5, LastIsUnique
  <2> QED
    BY <2>1, <2>2, <2>3, <2>6 DEF SavedInv, Saved
<1>7. CASE TlsStep
  <2>1. /\ UNCHANGED <<paths, file, sync>> /\ sync = ""
        /\ hist' = hist \/ \E b \in BOOLEAN : hist' = [hist EXCEPT !.halfPair = b]
    BY <1>1, <1>7, TlsFrame
  <2>2. hist'.synced = hist.synced /\ hist'.broken = hist.broken
    BY <1>1, <2>1 DEF HistTyped
  <2> QED
    BY <2>1, <2>2, <1>2
<1>8. CASE CrashStep
  <2>1. /\ paths' = paths /\ (file' = file \/ sync = "flush")
        /\ hist'.synced = hist.synced /\ hist'.broken = (hist.broken \/ sync # "")
    BY <1>1, <1>8, CrashFrame
  <2>2. CASE sync # ""
    BY <2>1, <2>2 DEF SavedInv
  <2>3. CASE sync = ""
    <3>1. file' = file /\ hist'.broken = hist.broken
      BY <2>1, <2>3, <1>1 DEF HistTyped
    <3> QED
      BY <2>1, <2>3, <3>1, <1>2
  <2> QED
    BY <2>2, <2>3
<1>9. CASE UNCHANGED vars
  BY <1>9, <1>1, SameFound DEF vars, confVars, SavedInv, Saved
<1> QED
  BY <1>3, <1>4, <1>5, <1>6, <1>7, <1>8, <1>9, StepGroups DEF ConfStep, SyncStep

(* A start that finds a configuration with an identity makes up none.       *)
LEMMA IdentityStep == IInv /\ [Next]_vars => IdentityInv'
<1> SUFFICES ASSUME IInv, [Next]_vars PROVE IdentityInv'
  OBVIOUS
<1>1. TypeOK /\ TypeOK' /\ KeepInv /\ IdentityInv /\ FilesTyped /\ PlaceTyped /\ CountsTyped
  BY TypeParts, TypeStep DEF IInv
<1>2. ASSUME ids' <= faults' PROVE IdentityInv'
  <2>1. ids' \in Nat /\ faults' \in Nat
    BY <1>1, TypeParts DEF CountsTyped
  <2>2. ~(ids' > faults')
    BY <1>2, <2>1
  <2> QED
    BY <2>2 DEF IdentityInv
<1>3. ASSUME UNCHANGED <<paths, file, ids>>, faults' \in Nat, faults <= faults', sync = "",
             pc' \in {"level", "identity"} /\ ids' > faults' => ~NoIdentity(data')
      PROVE  IdentityInv'
  <2>1. FoundAt' = FoundAt
    BY <1>3, SameFound
  <2>2. ids' > faults' => ids > faults
    <3>1. \A x, y, z \in Nat : y <= z /\ x > z => x > y
      OBVIOUS
    <3> QED
      BY <1>1, <1>3, <3>1 DEF CountsTyped
  <2> QED
    BY <2>1, <2>2, <1>1, <1>3 DEF IdentityInv
<1>4. CASE ParseConfig
  <2>1. /\ pc = "down" /\ pc' = "level" /\ UNCHANGED <<paths, file, ids, faults>>
        /\ paths = <<>> => ids = 0
        /\ data' = IF FoundAt = 0 THEN Empty ELSE Parsed(file[FoundAt])
    BY <1>4 DEF ParseConfig
  <2>2. sync = ""
    BY <1>1, <2>1 DEF PlaceTyped
  <2>3. ids > faults => paths # <<>>
    BY <1>1, <2>1 DEF CountsTyped
  <2>4. ids > faults => ~NoIdentity(data')
    BY <1>1, <2>1, <2>2, <2>3 DEF IdentityInv
  <2>5. faults \in Nat /\ faults <= faults
    BY <1>1, OneMore DEF CountsTyped
  <2> QED
    BY <2>1, <2>2, <2>4, <2>5, <1>3
<1>5. CASE NewLevel
  <2>1. /\ pc = "level" /\ sync = "" /\ UNCHANGED <<paths, file, ids, faults>>
        /\ data' = data \/ data' = Set(data, LogLevel, Leaf("debug"))
    BY <1>1, <1>5 DEF NewLevel, PlaceTyped
  <2>2. NoIdentity(data') <=> NoIdentity(data)
    <3>1. Get(Set(data, LogLevel, Leaf("debug")), Identity) = Get(data, Identity)
      BY SetTop, TopKeys
    <3> QED
      BY <2>1, <3>1 DEF NoIdentity
  <2>3. faults \in Nat /\ faults <= faults
    BY <1>1, OneMore DEF CountsTyped
  <2> QED
    BY <2>1, <2>2, <2>3, <1>1, <1>3 DEF IdentityInv
<1>6. CASE NewIdentity
  <2>1. pc' = "tls" /\ sync = "" /\ UNCHANGED <<paths, file, faults>>
    BY <1>6 DEF NewIdentity
  <2>2. (UNCHANGED ids) \/ sync' = "rename"
    BY <1>6 DEF NewIdentity
  <2>3. faults \in Nat /\ faults <= faults
    BY <1>1, OneMore DEF CountsTyped
  <2>4. CASE sync' = "rename"
    BY <2>1, <2>4 DEF IdentityInv
  <2> QED
    BY <2>1, <2>2, <2>3, <2>4, <1>3
<1>7. ASSUME NEW ok \in BOOLEAN, SyncRenames(ok) PROVE IdentityInv'
  <2>1. UNCHANGED <<paths, data, pc, ids>> /\ Fails(ok) /\ (sync' = "" => paths = <<>>)
    <3>1. UNCHANGED <<paths, data, pc, ids>> /\ Fails(ok) /\ (sync' = "" => current' = 0)
      BY <1>7 DEF SyncRenames
    <3>2. (current = 0 /\ paths # <<>> => current' = 1) /\ (current # 0 => current' = current)
      BY <1>7 DEF SyncRenames
    <3>3. current' = 0 => paths = <<>>
      BY <3>2
    <3> QED
      BY <3>1, <3>3
  <2>2. CASE ok
    <3>1. faults' = faults
      BY <2>1, <2>2 DEF Fails
    <3> QED
      BY <2>1, <3>1, <1>1 DEF IdentityInv
  <2>3. CASE ~ok
    <3>1. faults' = faults + 1
      BY <2>1, <2>3, <1>1, FailsCounts
    <3> QED
      BY <2>1, <3>1, <1>1, <1>2 DEF CountsTyped
  <2> QED
    BY <2>2, <2>3
<1>8. ASSUME NEW ok \in BOOLEAN, SyncCreates(ok) \/ SyncWrites(ok) PROVE IdentityInv'
  <2>1. Fails(ok) /\ UNCHANGED <<data, pc, ids>> /\ (ok => sync' # "")
    BY <1>8 DEF SyncCreates, SyncWrites
  <2>2. CASE ok
    <3>1. faults' = faults
      BY <2>1, <2>2 DEF Fails
    <3> QED
      BY <2>1, <2>2, <3>1, <1>1 DEF IdentityInv
  <2>3. CASE ~ok
    <3>1. faults' = faults + 1
      BY <2>1, <2>3, <1>1, FailsCounts
    <3> QED
      BY <2>1, <3>1, <1>1, <1>2 DEF CountsTyped
  <2> QED
    BY <2>2, <2>3
<1>9. CASE SyncFlushes
  <2>1. sync = "flush" /\ UNCHANGED <<paths, file, data, current, pc, ids, faults>>
    BY <1>9 DEF SyncFlushes, confVars
  <2>2. /\ current # 0 /\ file[current] = Whole(data) /\ pc \in {"identity", "tls"}
    BY <2>1, <1>1 DEF KeepInv, DiskInv, PlaceTyped
  <2>3. LastWithFile(file, Len(paths), current)
    BY <2>2, <1>1, FileKinds DEF KeepInv, CurrentIsLast, FilesTyped, LastWithFile
  <2>4. LastWithFile(file, Len(paths), FoundAt') /\ Len(paths) \in Nat
    BY <1>1, <2>1, FoundIsLast, SearchPathsLength DEF FilesTyped
  <2>5. FoundAt' = current
    BY <2>3, <2>4, LastIsUnique
  <2>6. ids > faults => ~NoIdentity(data)
    BY <2>2, <1>1 DEF IdentityInv, KeepInv, DataInv, Settled
  <2> QED
    BY <2>1, <2>2, <2>5, <2>6, FileKinds DEF IdentityInv
<1>10. CASE TlsStep
  <2>1. /\ UNCHANGED <<paths, file, ids>> /\ sync = "" /\ pc' \notin {"level", "identity"}
        /\ faults' \in Nat /\ faults <= faults'
    BY <1>1, <1>10, TlsFrame DEF Later
  <2> QED
    BY <2>1, <1>3
<1>11. CASE CrashStep
  <2>1. ids' = ids /\ faults' = faults + 1
    BY <1>1, <1>11, CrashFrame
  <2> QED
    BY <2>1, <1>1, <1>2 DEF CountsTyped
<1>12. CASE UNCHANGED vars
  BY <1>12, <1>1, SameFound DEF vars, confVars, IdentityInv
<1> QED
  BY <1>4, <1>5, <1>6, <1>7, <1>8, <1>9, <1>10, <1>11, <1>12, StepGroups DEF ConfStep, SyncStep

-------------------------------------------------------------------------------
(* The key and its certificate.  Nothing but the steps of TLSConfig touches *)
(* them, and a crash is a fault.                                            *)
LEMMA KeyFrame ==
    ASSUME IInv, ConfStep \/ UNCHANGED vars
    PROVE  KeyInv' /\ PairInv'
<1>1. CASE UNCHANGED vars
  BY <1>1 DEF vars, tlsVars, IInv, KeyInv, PairInv, HasLocalKeyPair
<1>2. CASE ConfStep
  <2>1. /\ UNCHANGED <<key, cert, req>> /\ hist'.halfPair = hist.halfPair
        /\ pc \notin Later /\ pc' \notin Later /\ faults' \in Nat /\ faults <= faults'
    BY <1>2, ConfFrame DEF IInv, Before, Later
  <2>2. req \in Nat /\ faults \in Nat /\ (req <= faults => req <= faults')
    BY <2>1, TypeParts, OneMore DEF IInv, CountsTyped
  <2>3. KeyInv'
    BY <2>1, <2>2 DEF IInv, KeyInv, Later
  <2>4. PairInv'
    BY <2>1 DEF IInv, PairInv, Later
  <2> QED
    BY <2>3, <2>4
<1> QED
  BY <1>1, <1>2

LEMMA KeyCrash ==
    ASSUME IInv, CrashStep
    PROVE  KeyInv' /\ PairInv'
<1>1. /\ UNCHANGED <<key, cert, req>> /\ pc' = "down" /\ faults' = faults + 1
      /\ hist'.halfPair = (hist.halfPair \/ cert = Torn)
  BY CrashFrame DEF IInv
<1>2. req <= faults'
  BY <1>1, TypeParts DEF IInv, CountsTyped
<1>3. KeyInv'
  BY <1>1, <1>2 DEF KeyInv
<1>4. ~hist'.halfPair => ~hist.halfPair /\ cert # Torn
  BY <1>1, TypeParts DEF IInv, HistTyped
<1>5. PairInv'
  BY <1>1, <1>4 DEF IInv, PairInv
<1> QED
  BY <1>3, <1>5

LEMMA KeyTls ==
    ASSUME IInv, TlsStep
    PROVE  KeyInv' /\ PairInv'
<1>a. TypeOK /\ KeyInv /\ PairInv /\ CountsTyped /\ CertTyped /\ HistTyped
  BY TypeParts DEF IInv
<1>b. faults \in Nat /\ faults' \in Nat /\ req \in Nat /\ (req <= faults => req <= faults')
  BY <1>a, TlsFrame, OneMore DEF CountsTyped
<1>1. CASE LoadsCertificate
  <2>1. /\ UNCHANGED <<key, cert, req, hist>> /\ pc = "load"
        /\ pc' = IF Loadable THEN "running" ELSE "down"
    BY <1>1 DEF LoadsCertificate, tlsVars
  <2>2. Loadable => key \notin {NoKey, TornKey}
    <3>1. \A k : Pair(k) # NoCert /\ Pair(k) # Torn /\ Pair(k).of = k
      BY DEF Pair, NoCert, Torn
    <3>2. Loadable => key \in Nat /\ key # 0
      BY <1>a, <3>1 DEF Loadable, CertTyped
    <3> QED
      BY <3>2 DEF NoKey, TornKey
  <2>3. KeyInv'
    BY <2>1, <2>2, <1>a, <1>b DEF KeyInv
  <2>4. PairInv'
    BY <2>1, <1>a DEF PairInv
  <2> QED
    BY <2>3, <2>4
<1>2. CASE TruncatesCertificate \/ Renews
  <2>1. /\ UNCHANGED <<key, req, faults, hist>> /\ cert' = Torn
        /\ <<pc, pc'>> \in {<<"save", "write">>, <<"running", "renew">>}
    BY <1>2 DEF TruncatesCertificate, Renews
  <2>2. Torn # NoCert
    BY DEF Torn, NoCert
  <2>3. KeyInv'
    BY <2>1, <2>2, <1>a DEF KeyInv
  <2>4. PairInv'
    BY <2>1, <1>a DEF PairInv
  <2> QED
    BY <2>3, <2>4
<1>3. CASE Stops \/ \E k \in Keys : HandlerSets(k)
  <2>1. UNCHANGED <<key, cert, req, faults, hist>> /\ pc = "running" /\ pc' \in {"running", "down"}
    BY <1>3 DEF Stops, HandlerSets, tlsVars
  <2>2. KeyInv'
    BY <2>1, <1>a DEF KeyInv
  <2>3. PairInv'
    BY <2>1, <1>a DEF PairInv
  <2> QED
    BY <2>2, <2>3
<1>4. ASSUME NEW ok \in BOOLEAN, TLSConfig(ok) PROVE KeyInv' /\ PairInv'
  <2>1. /\ UNCHANGED <<key, cert, req, hist>> /\ pc = "tls" /\ pc' \in {"down", "load", "key"}
        /\ pc' = "key" => ~HasLocalKeyPair
    BY <1>4 DEF TLSConfig, tlsVars
  <2>2. KeyInv'
    BY <2>1, <1>a, <1>b DEF KeyInv, HasLocalKeyPair
  <2>3. PairInv'
    BY <2>1, <1>a DEF PairInv
  <2> QED
    BY <2>2, <2>3
<1>5. ASSUME NEW ok \in BOOLEAN, SavesKey(ok) PROVE KeyInv' /\ PairInv'
  <2>1. /\ pc = "key" /\ pc' = "sign" /\ req' = req + 1 /\ cert' = cert /\ Fails(ok)
        /\ ok => key' = req'
        /\ hist' = [hist EXCEPT !.halfPair = @ \/ ~ok]
    BY <1>5 DEF SavesKey
  <2>2. hist'.halfPair = (hist.halfPair \/ ~ok)
    BY <2>1, <1>a DEF HistTyped
  <2>3. req <= faults /\ ~HasLocalKeyPair
    BY <2>1, <1>a DEF KeyInv, HasLocalKeyPair
  <2>4. CASE ok
    <3>1. key' = req' /\ req' # 0 /\ req' \in Nat
      BY <2>1, <2>4, <1>b
    <3>2. KeyInv'
      BY <2>1, <3>1 DEF KeyInv, NoKey
    <3>3. ~hist'.halfPair => cert = NoCert
      BY <2>1, <2>2, <2>3, <1>a DEF PairInv, HasLocalKeyPair, HistTyped
    <3>4. PairInv'
      BY <2>1, <3>1, <3>3 DEF PairInv
    <3> QED
      BY <3>2, <3>4
  <2>5. CASE ~ok
    <3>1. faults' = faults + 1
      BY <2>1, <2>5, <1>a, FailsCounts
    <3>2. req' <= faults' /\ req' # 0
      BY <2>1, <2>3, <3>1, <1>b, OneMore
    <3>3. KeyInv'
      BY <2>1, <3>2 DEF KeyInv
    <3>4. PairInv'
      BY <2>2, <2>5 DEF PairInv
    <3> QED
      BY <3>3, <3>4
  <2> QED
    BY <2>4, <2>5
<1>6. ASSUME NEW ok \in BOOLEAN, Signs(ok) PROVE KeyInv' /\ PairInv'
  <2>1. /\ UNCHANGED <<key, cert, req, hist>> /\ pc = "sign" /\ Fails(ok)
        /\ pc' = IF ok THEN "save" ELSE "down"
    BY <1>6 DEF Signs, tlsVars
  <2>2. CASE ok
    <3>1. pc' = "save"
      BY <2>1, <2>2
    <3>2. KeyInv'
      BY <2>1, <3>1, <1>a, <1>b DEF KeyInv
    <3>3. PairInv'
      BY <2>1, <3>1, <1>a DEF PairInv
    <3> QED
      BY <3>2, <3>3
  <2>3. CASE ~ok
    <3>1. pc' = "down" /\ faults' = faults + 1
      BY <2>1, <2>3, <1>a, FailsCounts
    <3>2. req <= faults'
      BY <3>1, <1>a DEF CountsTyped
    <3>3. KeyInv'
      BY <2>1, <3>1, <3>2 DEF KeyInv
    <3>4. PairInv'
      BY <2>1, <3>1, <1>a DEF PairInv
    <3> QED
      BY <3>3, <3>4
  <2> QED
    BY <2>2, <2>3
<1>7. ASSUME NEW ok \in BOOLEAN, WritesCertificate(ok) PROVE KeyInv' /\ PairInv'
  <2>1. /\ UNCHANGED <<key, req>> /\ pc \in {"write", "renew"} /\ pc' \in {"running", "load", "down"}
        /\ pc' = "running" <=> pc = "renew"
        /\ cert' = IF ok THEN Pair(IF pc = "write" THEN req ELSE key) ELSE cert
        /\ hist' = [hist EXCEPT !.halfPair = @ \/ ~ok]
    BY <1>7 DEF WritesCertificate
  <2>2. hist'.halfPair = (hist.halfPair \/ ~ok)
    BY <2>1, <1>a DEF HistTyped
  <2>3. \A k : Pair(k) # NoCert
    BY DEF Pair, NoCert
  <2>4. cert' = NoCert => cert = NoCert
    BY <2>1, <2>3
  <2>5. KeyInv'
    BY <2>1, <2>4, <1>a, <1>b DEF KeyInv
  <2>6. CASE ok
    <3>1. cert' = IF pc = "write" THEN Pair(req) ELSE Pair(key)
      BY <2>1, <2>6
    <3>2. ~hist'.halfPair => ~hist.halfPair
      BY <2>2, <2>6
    <3>3. PairInv'
      BY <2>1, <3>1, <3>2, <1>a DEF PairInv, KeyInv, NoKey
    <3> QED
      BY <2>5, <3>3
  <2>7. CASE ~ok
    BY <2>2, <2>5, <2>7 DEF PairInv
  <2> QED
    BY <2>6, <2>7
<1> QED
  BY <1>1, <1>2, <1>3, <1>4, <1>5, <1>6, <1>7 DEF TlsStep

-------------------------------------------------------------------------------
(* The inductive invariant, and what follows from it. *)
LEMMA NextIInv == IInv /\ [Next]_vars => IInv'
BY TypeStep, KeepStep, UnbrokenStep, SavedStep, IdentityStep, KeyFrame, KeyCrash, KeyTls, StepGroups DEF IInv

THEOREM Invariance == Spec => []IInv
<1>1. Init => IInv
  BY InitIInv
<1>2. IInv /\ [Next]_vars => IInv'
  BY NextIInv
<1> QED
  BY <1>1, <1>2, PTL DEF Spec

(* Types and bounds: a device makes up an identity, or a key, once, and     *)
(* once more for each crash, failed write or refusal                        *)
(* (controller.go:80-95, tls.go:46-57).                                     *)
THEOREM TypeCorrect == Spec => []TypeOK
<1>1. IInv => TypeOK
  BY DEF IInv
<1> QED
  BY <1>1, Invariance, PTL

(* What the user wrote is on the disk at every moment, for any directories, *)
(* crashes and failures, unless a rename failed or a torn file was renamed  *)
(* in its place, and in the file itself, but for a Sync at work, until a    *)
(* Sync is cut short (config.go:162-195).                                   *)
THEOREM UserDataIsKept == Spec => []UserDataKept
<1>1. IInv => UserDataKept
  BY DEF IInv, KeepInv, Kept, Safe, Unbroken, UserDataKept
<1> QED
  BY <1>1, Invariance, PTL

(* What Sync saved is what the next start reads (config.go:88, 162).        *)
THEOREM SavedIsRead == Spec => SyncedIsRead
<1>1. IInv /\ [Next]_vars =>
          [pc = "down" /\ pc' = "level" /\ hist.synced # Empty /\ ~hist.broken => data' = hist.synced]_vars
  <2>1. SUFFICES ASSUME IInv, Next, pc = "down", pc' = "level", hist.synced # Empty, ~hist.broken
                 PROVE  data' = hist.synced
    OBVIOUS
  <2>2. TypeOK /\ SavedInv /\ PlaceTyped
    BY <2>1, TypeParts DEF IInv
  <2>3. ParseConfig
    <3>1. ~TlsStep
      BY <2>1, <2>2, TlsFrame DEF Later
    <3>2. ~CrashStep
      BY <2>1, <2>2, CrashFrame
    <3>3. ~(NewLevel \/ NewIdentity \/ SyncStep)
      BY <2>1, <2>2 DEF NewLevel, NewIdentity, SyncStep, SyncRenames, SyncCreates, SyncWrites, SyncFlushes, PlaceTyped
    <3> QED
      BY <2>1, <3>1, <3>2, <3>3, StepGroups DEF ConfStep, vars
  <2>4. sync = ""
    BY <2>1, <2>2 DEF PlaceTyped
  <2>5. FoundAt # 0 /\ file[FoundAt] = Whole(hist.synced)
    BY <2>1, <2>2, <2>4 DEF SavedInv, Saved
  <2> QED
    BY <2>3, <2>5, FileKinds DEF ParseConfig
<1> QED
  BY <1>1, Invariance, PTL DEF Spec, SyncedIsRead

(* Only a write that failed or was cut short leaves a key and a certificate *)
(* that do not match (tls.go:46-69).                                        *)
THEOREM PairsMatch == Spec => []PairMatches
<1>1. IInv => PairMatches
  BY DEF IInv, PairInv, PairMatches, BrokenPair
<1> QED
  BY <1>1, Invariance, PTL
===============================================================================
