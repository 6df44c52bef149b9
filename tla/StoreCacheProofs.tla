-------------------------- MODULE StoreCacheProofs --------------------------
(***************************************************************************)
(* The MCP server's caches never serve a stale index: for any number of     *)
(* members, scopes, contents and replacements.                              *)
(***************************************************************************)
EXTENDS StoreCache, TLAPS

InCall == pc # "idle"

\* Every stat the server holds is one its file really had.
StampsUsed ==
  /\ \A m \in Member : file[m] # None => stamp[m] \in used[m]
  /\ \A s \in Scope : cache[s] # None =>
        \A m \in MembersOf[s] : cache[s].fp[m] \in used[m] /\ cache[s].data[m] \in Content
  /\ pc \in {"stat", "compare"} =>
        \A m \in MembersOf[scope] \ todo : fp[m] \in used[m]
  /\ pc = "compare" => todo = {}
  /\ pc = "load" /\ probed => \A m \in MembersOf[scope] : fp[m] \in used[m]

\* During a call there is no answer yet, and what a store holds now is among what it
\* held during the call.
SeenNow == InCall => /\ answer = None
                     /\ todo \subseteq MembersOf[scope]
                     /\ \A m \in Member : file[m] \in seen[m]

\* A stat that agrees with the entry of the scope vouches for the entry's data.
StatVouches ==
  pc \in {"stat", "compare"} /\ cache[scope] # None =>
     \A m \in MembersOf[scope] \ todo :
        cache[scope].fp[m] = fp[m] => cache[scope].data[m] \in seen[m]

\* What was loaded was on disk during the call, and still is when the stat is.
LoadedOK ==
  pc = "load" =>
     \A m \in MembersOf[scope] \ todo :
        /\ data[m] \in Content /\ data[m] \in seen[m]
        /\ probed /\ file[m] # None /\ fp[m] = stamp[m] => data[m] = file[m]

IInv == /\ TypeOK /\ StampsUsed /\ EntryMatchesDisk /\ SeenNow /\ StatVouches
        /\ LoadedOK /\ NeverStale

------------------------------------------------------------------------------

LEMMA InitInv == Init => IInv
BY StoreCacheAssumption
   DEF Init, IInv, TypeOK, StampsUsed, EntryMatchesDisk, SeenNow, StatVouches, LoadedOK,
       NeverStale, InCall, Nothing

LEMMA CallStep ==
  ASSUME IInv, NEW s \in Scope, Call(s)
  PROVE  IInv'
<1> USE StoreCacheAssumption DEF IInv, Call, disk, Nothing
<1>1. TypeOK' BY DEF TypeOK
<1>2. StampsUsed' BY DEF StampsUsed, TypeOK
<1>3. EntryMatchesDisk' BY DEF EntryMatchesDisk
<1>4. SeenNow' BY DEF SeenNow, InCall, TypeOK
<1>5. StatVouches' /\ LoadedOK' /\ NeverStale' BY DEF StatVouches, LoadedOK, NeverStale
<1> QED BY <1>1, <1>2, <1>3, <1>4, <1>5

LEMMA FingerprintStep ==
  ASSUME IInv, NEW m \in Member, FileFingerprint(m)
  PROVE  IInv'
<1> USE StoreCacheAssumption DEF IInv, FileFingerprint, disk
<1>0. scope \in Scope /\ MembersOf[scope] \subseteq Member BY DEF TypeOK
<1>1. TypeOK' BY <1>0 DEF TypeOK
<1>2. StampsUsed' BY <1>0 DEF StampsUsed, TypeOK, SeenNow, InCall
<1>3. EntryMatchesDisk' BY <1>0 DEF EntryMatchesDisk, TypeOK
<1>4. SeenNow' BY <1>0 DEF SeenNow, InCall, TypeOK
<1>5. StatVouches'
  BY <1>0 DEF StatVouches, EntryMatchesDisk, SeenNow, InCall, TypeOK
<1>6. LoadedOK' BY <1>0 DEF LoadedOK, TypeOK
<1>7. NeverStale' BY DEF NeverStale
<1> QED BY <1>1, <1>2, <1>3, <1>4, <1>5, <1>6, <1>7

LEMMA CompareStep ==
  ASSUME IInv, Compare
  PROVE  IInv'
<1> USE StoreCacheAssumption DEF IInv, Compare, disk, Hit
<1>0. scope \in Scope /\ MembersOf[scope] \subseteq Member BY DEF TypeOK
<1>1. TypeOK' BY <1>0 DEF TypeOK, Entry
<1>2. StampsUsed' BY <1>0 DEF StampsUsed, TypeOK
<1>3. EntryMatchesDisk' BY DEF EntryMatchesDisk
<1>4. SeenNow' BY <1>0 DEF SeenNow, InCall
<1>5. StatVouches' /\ LoadedOK' BY DEF StatVouches, LoadedOK
<1>6. NeverStale' BY <1>0 DEF NeverStale, StatVouches, StampsUsed
<1> QED BY <1>1, <1>2, <1>3, <1>4, <1>5, <1>6

LEMMA LoadStep ==
  ASSUME IInv, NEW m \in Member, LoadMember(m)
  PROVE  IInv'
<1> USE StoreCacheAssumption DEF IInv, LoadMember, disk
<1>0. scope \in Scope /\ MembersOf[scope] \subseteq Member BY DEF TypeOK
<1> DEFINE d == [data EXCEPT ![m] = file[m]]
<1>1. CASE file[m] \notin Content
  <2>1. TypeOK' BY <1>0, <1>1 DEF TypeOK
  <2>2. StampsUsed' BY <1>0, <1>1 DEF StampsUsed, TypeOK
  <2>3. EntryMatchesDisk' BY <1>0, <1>1 DEF EntryMatchesDisk, TypeOK
  <2>4. SeenNow' /\ StatVouches' /\ LoadedOK' BY <1>1 DEF SeenNow, InCall, StatVouches, LoadedOK
  <2>5. NeverStale' BY <1>1 DEF NeverStale, SeenNow, InCall
  <2> QED BY <2>1, <2>2, <2>3, <2>4, <2>5
<1>2. CASE file[m] \in Content /\ todo # {m}
  <2>1. TypeOK' BY <1>0, <1>2 DEF TypeOK
  <2>2. StampsUsed' BY <1>0, <1>2 DEF StampsUsed, TypeOK
  <2>3. EntryMatchesDisk' BY <1>0, <1>2 DEF EntryMatchesDisk, TypeOK
  <2>4. SeenNow' /\ StatVouches' BY <1>2 DEF SeenNow, InCall, StatVouches
  <2>5. LoadedOK' BY <1>0, <1>2 DEF LoadedOK, SeenNow, InCall, TypeOK
  <2>6. NeverStale' BY <1>2 DEF NeverStale
  <2> QED BY <2>1, <2>2, <2>3, <2>4, <2>5, <2>6
<1>3. CASE file[m] \in Content /\ todo = {m}
  <2>0. /\ d \in [Member -> Content \cup {None}]
        /\ \A n \in MembersOf[scope] :
             /\ d[n] \in Content /\ d[n] \in seen[n]
             /\ probed /\ file[n] # None /\ fp[n] = stamp[n] => d[n] = file[n]
    BY <1>0, <1>3 DEF LoadedOK, SeenNow, InCall, TypeOK
  <2>a. /\ answer' = d /\ pc' = "idle" /\ cache' = StoreEntry(d)
        /\ data' = d /\ todo' = {}
    BY <1>3
  <2> HIDE DEF d
  <2>1. TypeOK' BY <1>0, <2>0, <2>a DEF TypeOK, StoreEntry, Entry
  <2>2. StampsUsed' BY <1>0, <2>0, <2>a DEF StampsUsed, TypeOK, StoreEntry
  <2>3. EntryMatchesDisk' BY <1>0, <2>0, <2>a DEF EntryMatchesDisk, TypeOK, StoreEntry
  <2>4. SeenNow' /\ StatVouches' /\ LoadedOK' BY <2>a DEF SeenNow, InCall, StatVouches, LoadedOK
  <2>5. NeverStale' BY <1>0, <2>0, <2>a DEF NeverStale
  <2> QED BY <2>1, <2>2, <2>3, <2>4, <2>5
<1> QED BY <1>1, <1>2, <1>3

LEMMA ReplaceStep ==
  ASSUME IInv, NEW m \in Member, NEW c \in Content \cup {Bad}, Replace(m, c)
  PROVE  IInv'
<1> USE StoreCacheAssumption DEF IInv, Seen
<1>0. PICK t \in Stamp \ used[m] :
        /\ file' = [file EXCEPT ![m] = c]
        /\ stamp' = [stamp EXCEPT ![m] = t]
        /\ used' = [used EXCEPT ![m] = @ \cup {t}]
        /\ seen' = [seen EXCEPT ![m] = @ \cup {c}]
        /\ UNCHANGED <<cache, pc, scope, todo, fp, probed, data, answer>>
  BY DEF Replace
<1>00. MembersOf \in [Scope -> SUBSET Member] /\ (InCall => scope \in Scope)
  BY DEF TypeOK, InCall
<1>1. TypeOK' BY <1>0 DEF TypeOK
<1>2. StampsUsed' BY <1>0, <1>00 DEF StampsUsed, TypeOK, InCall
<1>3. EntryMatchesDisk' BY <1>0, <1>00 DEF EntryMatchesDisk, TypeOK, StampsUsed
<1>4. SeenNow' BY <1>0 DEF SeenNow, InCall, TypeOK
<1>5. StatVouches' BY <1>0, <1>00 DEF StatVouches, TypeOK, InCall
<1>6. LoadedOK' BY <1>0, <1>00 DEF LoadedOK, StampsUsed, TypeOK, InCall
<1>7. NeverStale' BY <1>0, <1>00 DEF NeverStale, TypeOK
<1> QED BY <1>1, <1>2, <1>3, <1>4, <1>5, <1>6, <1>7

LEMMA DeleteStep ==
  ASSUME IInv, NEW m \in Member, Delete(m)
  PROVE  IInv'
<1> USE StoreCacheAssumption DEF IInv, Delete, Seen
<1>0. MembersOf \in [Scope -> SUBSET Member] /\ (InCall => scope \in Scope)
  BY DEF TypeOK, InCall
<1>1. TypeOK' BY DEF TypeOK
<1>2. StampsUsed' BY <1>0 DEF StampsUsed, TypeOK
<1>3. EntryMatchesDisk' BY <1>0 DEF EntryMatchesDisk, TypeOK
<1>4. SeenNow' BY DEF SeenNow, InCall, TypeOK
<1>5. StatVouches' BY <1>0 DEF StatVouches, TypeOK, InCall
<1>6. LoadedOK' BY <1>0 DEF LoadedOK, TypeOK, InCall
<1>7. NeverStale' BY <1>0 DEF NeverStale, TypeOK
<1> QED BY <1>1, <1>2, <1>3, <1>4, <1>5, <1>6, <1>7

LEMMA Invariance == Spec => []IInv
<1>1. IInv /\ [Next]_vars => IInv'
  <2> SUFFICES ASSUME IInv, [Next]_vars PROVE IInv'
    OBVIOUS
  <2>1. CASE UNCHANGED vars
    BY <2>1 DEF vars, IInv, TypeOK, StampsUsed, EntryMatchesDisk, SeenNow, StatVouches,
                LoadedOK, NeverStale, InCall
  <2> QED
    BY <2>1, CallStep, FingerprintStep, CompareStep, LoadStep, ReplaceStep, DeleteStep
    DEF Next
<1> QED BY InitInv, <1>1, PTL DEF Spec

\* The disk, the caches and the call stay well formed.
THEOREM TypeCorrect == Spec => []TypeOK
<1>1. IInv => TypeOK BY DEF IInv
<1> QED BY <1>1, Invariance, PTL

\* "Never a stale cached answer" (docs/mcp.md): whatever a call of load_index or
\* workspace_bundle returns of a store was in that store during the call.
THEOREM AnswersAreNeverStale == Spec => []NeverStale
<1>1. IInv => NeverStale BY DEF IInv
<1> QED BY <1>1, Invariance, PTL

\* A cached index that the next call would reuse is what is on disk.
THEOREM EntriesMatchDisk == Spec => []EntryMatchesDisk
<1>1. IInv => EntryMatchesDisk BY DEF IInv
<1> QED BY <1>1, Invariance, PTL
=============================================================================
