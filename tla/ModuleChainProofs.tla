------------------------- MODULE ModuleChainProofs -------------------------
(***************************************************************************)
(* Theorems about ModuleChain for any plugins, any number of loads and any *)
(* file that names its raw modules before its filters.                     *)
(***************************************************************************)
EXTENDS ModuleChain, FiniteSetTheorems, TLAPS

(***************************************************************************)
(* The chain as the program holds it: by its list field, or, while a walk  *)
(* frees it from the top, by the pointer to the part that is left.         *)
(***************************************************************************)
Rest == CASE pc = "fini" -> cursor
          [] pc = "dlclose" -> next[cursor]
          [] OTHER -> list

\* t points at the youngest of the modules in S, or S is empty
IsTop(t, S) == /\ t = NULL => S = {}
               /\ t # NULL => t \in S /\ \A j \in S : j <= t

Raws == {i \in live : Raw(i)}

\* the part about list_raw, which only a walk may leave stale
RawPart ==
  /\ IsTop(listRaw, Raws)
  /\ \A i \in Raws, j \in Filters : i < j

Loading == pc \in {"static", "dlopen", "init"}

(***************************************************************************)
(* What holds for every file: the heap's book-keeping.  The numbers of     *)
(* the modules grow, the one a load is about to take is free, and the      *)
(* module whose shared object a walk still has to close is gone.           *)
(***************************************************************************)
HeapSound ==
  /\ live \subseteq 1 .. born /\ shared \subseteq 1 .. born
  /\ Loading => born < MaxLoads
  /\ pc = "dlclose" => cursor \in Id /\ cursor \in shared /\ cursor \notin live

\* TypeOK without libs, whose counts are numbers because they are counted
FieldsOK ==
  /\ pc \in {"none", "opened", "config", "lines", "static", "dlopen", "init",
             "ready", "reading", "fini", "dlclose", "crashed"}
  /\ fd \in BOOLEAN /\ ret \in {0, -1}
  /\ list \in Pointer /\ listRaw \in Pointer /\ cursor \in Pointer
  /\ live \in SUBSET Id /\ shared \in SUBSET Id /\ born \in 0 .. MaxLoads
  /\ next \in [Id -> Pointer] /\ plugin \in [Id -> Plugins]
  /\ line \in Plugins
  /\ job \in {"close", "reconfig"}

LibsPart == libs \in [Plugins -> Int] /\ LibsCounted

Base == FieldsOK /\ HeapSound /\ LibsPart

(***************************************************************************)
(* What holds besides when the raw modules come first: what is left of the *)
(* chain is headed by the youngest module, the pointers lead from each     *)
(* module to the one loaded before it, and list_raw is the youngest raw    *)
(* module, with every filter above it.                                     *)
(***************************************************************************)
ChainSound ==
  /\ FirstLoadedFirst
  /\ IsTop(Rest, live)
  /\ ~Walking => RawPart
  /\ Loading /\ line \in RawPlugins => Filters = {}
  /\ pc \in {"ready", "reading"} /\ ret = 0 => listRaw # NULL
  /\ pc = "reading" => ret = 0 /\ cursor \in live /\ listRaw <= cursor
  /\ pc # "crashed"
  /\ NothingLeaks

-----------------------------------------------------------------------------
LEMMA PluginsGiven == Unset \in Plugins
  BY ChainAssumption DEF Unset

LEMMA IdsAreNaturals == Id \subseteq Nat /\ Pointer \subseteq Nat /\ NULL \notin Id
                        /\ IsFiniteSet(Id) /\ MaxLoads \in Nat
<1>1. IsFiniteSet(1 .. MaxLoads)
  BY ChainAssumption, FS_Interval
<1> QED  BY <1>1, ChainAssumption DEF Id, Pointer, NULL

LEMMA FieldsInit == Init => FieldsOK /\ HeapSound
<1> SUFFICES ASSUME Init PROVE FieldsOK /\ HeapSound
  OBVIOUS
<1>1. pc = "none" /\ fd = FALSE /\ live = {} /\ shared = {} /\ born = 0
  BY DEF Init
<1>2. HeapSound
  BY <1>1 DEF HeapSound, Loading
<1>3. next \in [Id -> Pointer] /\ plugin \in [Id -> Plugins]
  BY PluginsGiven DEF Init, Pointer
<1>4. fd \in BOOLEAN
  BY <1>1 DEF Init
<1> QED
  BY <1>1, <1>2, <1>3, <1>4, PluginsGiven, IdsAreNaturals
     DEF Init, FieldsOK, Pointer

LEMMA FieldsKept == FieldsOK /\ HeapSound /\ [Next]_vars => FieldsOK'
<1> SUFFICES ASSUME FieldsOK, HeapSound, [Next]_vars PROVE FieldsOK'
  OBVIOUS
<1> USE IdsAreNaturals DEF FieldsOK
<1>1. CASE Open  BY <1>1 DEF Open, heap, Pointer
<1>2. CASE OpenConf  BY <1>2 DEF OpenConf, heap, dev
<1>3. CASE MissingConf  BY <1>3 DEF MissingConf, heap, dev
<1>4. ASSUME NEW p \in Plugins, ModuleLine(p) PROVE FieldsOK'
  BY <1>4 DEF ModuleLine, heap, dev
<1>5. ASSUME LeaveFile PROVE FieldsOK'
  BY <1>5 DEF LeaveFile, heap, dev, Result
<1>6. ASSUME NEW s \in BOOLEAN, Attach(born + 1, s), Loading PROVE FieldsOK'
  <2>1. born + 1 \in Id
    BY <1>6 DEF Loading, HeapSound, Id
  <2>2. CASE line \in RawPlugins
    BY <1>6, <2>1, <2>2 DEF Attach, AttachRaw, Loading, Id, Pointer
  <2>3. CASE line \notin RawPlugins
    BY <1>6, <2>1, <2>3 DEF Attach, AttachFilter, Loading, Id, Pointer
  <2> QED  BY <2>2, <2>3
<1>7. CASE LoadStatic  BY <1>6, <1>7 DEF LoadStatic, Loading
<1>8. CASE TryShared  BY <1>8 DEF TryShared, heap, dev
<1>9. CASE DlOpen  BY <1>9 DEF DlOpen, heap, dev
<1>10. CASE LoadShared  BY <1>6, <1>10 DEF LoadShared, Loading
<1>11. CASE LoadFails  BY <1>11 DEF LoadFails, heap, dev
<1>12. CASE Read \/ ReadRaw  BY <1>12 DEF Read, ReadRaw, Ask, heap, dev
<1>13. CASE Descend  BY <1>13 DEF Descend, heap, dev
<1>14. CASE Answer  BY <1>14 DEF Answer, heap, dev, Pointer
<1>15. ASSUME NEW j \in {"close", "reconfig"}, Walk(j) PROVE FieldsOK'
  BY <1>15 DEF Walk, heap, dev
<1>16. CASE Fini  BY <1>16 DEF Fini, dev, Pointer
<1>17. CASE DlClose  BY <1>17 DEF DlClose, heap, dev, HeapSound
<1>18. CASE EndWalk  BY <1>18 DEF EndWalk, heap, Pointer
<1>19. CASE UNCHANGED vars  BY <1>19 DEF vars
<1> QED
  BY <1>1, <1>2, <1>3, <1>4, <1>5, <1>7, <1>8, <1>9, <1>10, <1>11, <1>12,
     <1>13, <1>14, <1>15, <1>16, <1>17, <1>18, <1>19 DEF Next

LEMMA HeapKept == FieldsOK /\ HeapSound /\ [Next]_vars => HeapSound'
<1> SUFFICES ASSUME FieldsOK, HeapSound, [Next]_vars PROVE HeapSound'
  OBVIOUS
<1> USE IdsAreNaturals DEF HeapSound, Loading, FieldsOK
<1>1. CASE Open  BY <1>1 DEF Open, heap
<1>2. CASE OpenConf  BY <1>2 DEF OpenConf, heap
<1>3. CASE MissingConf  BY <1>3 DEF MissingConf, heap
<1>4. ASSUME NEW p \in Plugins, ModuleLine(p) PROVE HeapSound'
  BY <1>4 DEF ModuleLine, heap
<1>5. ASSUME LeaveFile PROVE HeapSound'
  BY <1>5 DEF LeaveFile, heap
<1>6. ASSUME NEW s \in BOOLEAN, Attach(born + 1, s), Loading PROVE HeapSound'
  <2>1. pc' \in {"lines", "crashed"}
    BY <1>6 DEF Attach, AttachRaw, AttachFilter
  <2> QED  BY <1>6, <2>1 DEF Attach
<1>7. CASE LoadStatic  BY <1>6, <1>7 DEF LoadStatic
<1>8. CASE TryShared  BY <1>8 DEF TryShared, heap
<1>9. CASE DlOpen  BY <1>9 DEF DlOpen, heap
<1>10. CASE LoadShared  BY <1>6, <1>10 DEF LoadShared
<1>11. CASE LoadFails  BY <1>11 DEF LoadFails, heap
<1>12. CASE Read \/ ReadRaw  BY <1>12 DEF Read, ReadRaw, Ask, heap
<1>13. CASE Descend  BY <1>13 DEF Descend, heap
<1>14. CASE Answer  BY <1>14 DEF Answer, heap
<1>15. ASSUME NEW j \in {"close", "reconfig"}, Walk(j) PROVE HeapSound'
  BY <1>15 DEF Walk, heap
<1>16. CASE Fini  BY <1>16 DEF Fini
<1>17. CASE DlClose  BY <1>17 DEF DlClose, heap
<1>18. CASE EndWalk  BY <1>18 DEF EndWalk, heap
<1>19. CASE UNCHANGED vars  BY <1>19 DEF vars
<1> QED
  BY <1>1, <1>2, <1>3, <1>4, <1>5, <1>7, <1>8, <1>9, <1>10, <1>11, <1>12,
     <1>13, <1>14, <1>15, <1>16, <1>17, <1>18, <1>19 DEF Next

-----------------------------------------------------------------------------
LEMMA FromIsFinite ==
  ASSUME NEW p, FieldsOK PROVE IsFiniteSet(From(p))
  BY IdsAreNaturals, FS_Subset DEF FieldsOK, From

LEMMA LibsInit == Init => LibsPart
<1> SUFFICES ASSUME Init PROVE LibsPart
  OBVIOUS
<1>1. \A p : From(p) = {} /\ ~InFlight(p)
  BY DEF Init, From, InFlight
<1> QED  BY <1>1, FS_EmptySet DEF Init, LibsPart, LibsCounted

\* a step that neither opens a shared object nor changes who holds one
LEMMA LibsUntouched ==
  ASSUME LibsPart, UNCHANGED <<live, shared, plugin, libs>>,
         pc # "init", pc # "dlclose", pc' # "init", pc' # "dlclose"
  PROVE  LibsPart'
<1>1. \A p : From(p)' = From(p)
  BY DEF From
<1>2. \A p : ~InFlight(p) /\ ~InFlight(p)'
  BY DEF InFlight
<1> QED  BY <1>1, <1>2 DEF LibsPart, LibsCounted

\* a module comes to be: it holds the count its load took, if it took one
LEMMA LibsOnAttach ==
  ASSUME Base, NEW s \in BOOLEAN, Attach(born + 1, s), UNCHANGED libs,
         born < MaxLoads, s => pc = "init", ~s => pc = "static"
  PROVE  LibsPart'
<1> DEFINE i == born + 1
<1>1. i \in Id /\ i \notin live /\ i \notin shared
  BY IdsAreNaturals DEF Base, HeapSound, FieldsOK, Id
<1>2. plugin' = [plugin EXCEPT ![i] = line] /\ live' = live \cup {i}
  BY DEF Attach
<1>3. \A j \in live : plugin'[j] = plugin[j]
  BY <1>1, <1>2 DEF Base, FieldsOK
<1>4. plugin'[i] = line
  BY <1>1, <1>2 DEF Base, FieldsOK
<1>5. \A p : ~InFlight(p)'
  BY DEF Attach, AttachRaw, AttachFilter, InFlight
<1>6. CASE ~s
  <2>1. shared' = shared
    BY <1>6 DEF Attach
  <2>2. \A p : From(p)' = From(p)
    BY <2>1, <1>1, <1>2, <1>3 DEF From
  <2>3. \A p : ~InFlight(p)
    BY <1>6 DEF InFlight
  <2> QED  BY <2>2, <2>3, <1>5 DEF LibsPart, LibsCounted, Base
<1>7. CASE s
  <2>1. shared' = shared \cup {i}
    BY <1>7 DEF Attach
  <2>2. ASSUME NEW p \in Plugins, p # line
        PROVE  From(p)' = From(p) /\ ~InFlight(p)
    BY <2>1, <2>2, <1>1, <1>2, <1>3, <1>4, <1>7 DEF From, InFlight
  <2>3. ASSUME NEW p \in Plugins, p = line
        PROVE  From(p)' = From(p) \cup {i} /\ i \notin From(p)
    BY <2>1, <2>3, <1>1, <1>2, <1>3, <1>4 DEF From
  <2>4. ASSUME NEW p \in Plugins, p = line
        PROVE  Cardinality(From(p)') = Cardinality(From(p)) + 1
    BY <2>3, <2>4, FromIsFinite, FS_AddElement DEF Base
  <2>5. \A p : p = line => InFlight(p)
    BY <1>7 DEF InFlight
  <2>6. ASSUME NEW p \in Plugins
        PROVE libs[p] = Cardinality(From(p)') + (IF InFlight(p)' THEN 1 ELSE 0)
    <3>1. CASE p = line
      BY <3>1, <2>4, <2>5, <1>5, FromIsFinite, FS_CardinalityType
         DEF LibsPart, LibsCounted, Base
    <3>2. CASE p # line
      BY <3>2, <2>2, <1>5 DEF LibsPart, LibsCounted, Base
    <3> QED  BY <3>1, <3>2
  <2> QED  BY <2>6 DEF LibsPart, LibsCounted, Base
<1> QED  BY <1>6, <1>7

\* dlopen takes a count for the load that starts
LEMMA LibsUp ==
  ASSUME Base, NEW q \in Plugins,
         libs' = [libs EXCEPT ![q] = @ + 1],
         live' = live, shared' = shared, plugin' = plugin,
         ~InFlight(q), InFlight(q)',
         \A p : p # q => ~InFlight(p) /\ ~InFlight(p)'
  PROVE  LibsPart'
<1>1. \A p : From(p)' = From(p)
  BY DEF From
<1>2. \A p \in Plugins : Cardinality(From(p)) \in Int
  BY FromIsFinite, FS_CardinalityType DEF Base
<1>3. libs' \in [Plugins -> Int]
  BY DEF LibsPart, Base
<1>4. ASSUME NEW p \in Plugins
      PROVE libs'[p] = Cardinality(From(p)') + (IF InFlight(p)' THEN 1 ELSE 0)
  <2>1. CASE p = q
    BY <2>1, <1>1, <1>2 DEF LibsPart, LibsCounted, Base
  <2>2. CASE p # q
    BY <2>2, <1>1 DEF LibsPart, LibsCounted, Base
  <2> QED  BY <2>1, <2>2
<1> QED  BY <1>3, <1>4 DEF LibsPart, LibsCounted

\* dlclose gives back the count of a load or of a module that is gone
LEMMA LibsDown ==
  ASSUME Base, NEW q \in Plugins,
         libs' = [libs EXCEPT ![q] = @ - 1],
         live' = live, shared' = shared, plugin' = plugin,
         InFlight(q), ~InFlight(q)',
         \A p : p # q => ~InFlight(p) /\ ~InFlight(p)'
  PROVE  LibsPart'
<1>1. \A p : From(p)' = From(p)
  BY DEF From
<1>2. \A p \in Plugins : Cardinality(From(p)) \in Int
  BY FromIsFinite, FS_CardinalityType DEF Base
<1>3. libs' \in [Plugins -> Int]
  BY DEF LibsPart, Base
<1>4. ASSUME NEW p \in Plugins
      PROVE libs'[p] = Cardinality(From(p)') + (IF InFlight(p)' THEN 1 ELSE 0)
  <2>1. CASE p = q
    BY <2>1, <1>1, <1>2 DEF LibsPart, LibsCounted, Base
  <2>2. CASE p # q
    BY <2>2, <1>1 DEF LibsPart, LibsCounted, Base
  <2> QED  BY <2>1, <2>2
<1> QED  BY <1>3, <1>4 DEF LibsPart, LibsCounted

\* fini frees a module; its count waits for dlclose
LEMMA LibsOnFini ==
  ASSUME Base, Fini PROVE LibsPart'
<1>1. CASE cursor \notin live
  BY <1>1, LibsUntouched DEF Fini, Base
<1>2. CASE cursor \in live /\ cursor \notin shared
  <2>1. \A p : From(p)' = From(p)
    BY <1>2 DEF Fini, From
  <2>2. \A p : ~InFlight(p) /\ ~InFlight(p)'
    BY <1>2 DEF Fini, InFlight
  <2> QED  BY <2>1, <2>2 DEF Fini, LibsPart, LibsCounted, Base
<1>3. CASE cursor \in live /\ cursor \in shared
  <2>1. PICK q \in Plugins : q = plugin[cursor]
    BY <1>3 DEF Base, FieldsOK
  <2>2. live' = live \ {cursor} /\ pc' = "dlclose" /\ cursor' = cursor
        /\ plugin' = plugin /\ shared' = shared /\ libs' = libs /\ pc = "fini"
    BY <1>3 DEF Fini
  <2>3. From(q) = From(q)' \cup {cursor} /\ cursor \notin From(q)'
    BY <2>1, <2>2, <1>3 DEF From
  <2>4. IsFiniteSet(From(q)')
    BY <2>3, FromIsFinite, FS_Subset DEF Base
  <2>5. Cardinality(From(q)) = Cardinality(From(q)') + 1
        /\ Cardinality(From(q)') \in Int
    BY <2>3, <2>4, FS_AddElement, FS_CardinalityType
  <2>6. ASSUME NEW p \in Plugins, p # q
        PROVE  From(p)' = From(p) /\ ~InFlight(p)'
    BY <2>1, <2>2, <2>6 DEF From, InFlight
  <2>7. \A p : ~InFlight(p)
    BY <2>2 DEF InFlight
  <2>8. InFlight(q)'
    BY <2>1, <2>2 DEF InFlight
  <2>9. ASSUME NEW p \in Plugins
        PROVE libs[p] = Cardinality(From(p)') + (IF InFlight(p)' THEN 1 ELSE 0)
    <3>1. CASE p = q
      BY <3>1, <2>5, <2>7, <2>8 DEF LibsPart, LibsCounted, Base
    <3>2. CASE p # q
      BY <3>2, <2>6, <2>7 DEF LibsPart, LibsCounted, Base
    <3> QED  BY <3>1, <3>2
  <2> QED  BY <2>9, <2>2 DEF LibsPart, LibsCounted, Base
<1> QED  BY <1>1, <1>2, <1>3

LEMMA LibsKept == Base /\ [Next]_vars => LibsPart'
<1> SUFFICES ASSUME Base, [Next]_vars PROVE LibsPart'
  OBVIOUS
<1>0. LibsPart
  BY DEF Base
<1>1. CASE Open  BY <1>0, <1>1, LibsUntouched DEF Open, heap
<1>2. CASE OpenConf  BY <1>0, <1>2, LibsUntouched DEF OpenConf, heap
<1>3. CASE MissingConf  BY <1>0, <1>3, LibsUntouched DEF MissingConf, heap
<1>4. ASSUME NEW p \in Plugins, ModuleLine(p) PROVE LibsPart'
  BY <1>0, <1>4, LibsUntouched DEF ModuleLine, heap
<1>5. ASSUME LeaveFile PROVE LibsPart'
  BY <1>0, <1>5, LibsUntouched DEF LeaveFile, heap
<1>6. born < MaxLoads \/ ~Loading
  BY DEF Base, HeapSound
<1>7. CASE LoadStatic
  BY <1>6, <1>7, LibsOnAttach DEF LoadStatic, Loading
<1>8. CASE TryShared  BY <1>0, <1>8, LibsUntouched DEF TryShared, heap
<1>9. CASE DlOpen
  <2>1. PICK q \in Plugins : q = line
    BY DEF Base, FieldsOK
  <2>2. libs' = [libs EXCEPT ![q] = @ + 1] /\ pc = "dlopen" /\ pc' = "init"
        /\ line' = q /\ live' = live /\ shared' = shared /\ plugin' = plugin
    BY <1>9, <2>1 DEF DlOpen, heap
  <2>3. \A p : ~InFlight(p)
    BY <2>2 DEF InFlight
  <2>4. InFlight(q)' /\ \A p : p # q => ~InFlight(p)'
    BY <2>2 DEF InFlight
  <2> QED  BY ONLY Base, <2>1, <2>2, <2>3, <2>4, LibsUp
<1>10. CASE LoadShared
  BY <1>6, <1>10, LibsOnAttach DEF LoadShared, Loading
<1>11. CASE LoadFails
  <2>1. CASE pc = "dlopen"
    BY <1>0, <1>11, <2>1, LibsUntouched DEF LoadFails, heap
  <2>2. CASE pc = "init"
    <3>1. PICK q \in Plugins : q = line
      BY DEF Base, FieldsOK
    <3>2. libs' = [libs EXCEPT ![q] = @ - 1] /\ pc' = "ready"
          /\ live' = live /\ shared' = shared /\ plugin' = plugin
      BY <1>11, <2>2, <3>1 DEF LoadFails, heap
    <3>4. InFlight(q) /\ \A p : p # q => ~InFlight(p)
      BY <2>2, <3>1 DEF InFlight
    <3>5. \A p : ~InFlight(p)'
      BY <3>2 DEF InFlight
    <3> QED  BY ONLY Base, <3>1, <3>2, <3>4, <3>5, LibsDown
  <2> QED  BY <1>11, <2>1, <2>2 DEF LoadFails
<1>12. CASE Read \/ ReadRaw  BY <1>0, <1>12, LibsUntouched DEF Read, ReadRaw, Ask, heap
<1>13. CASE Descend  BY <1>0, <1>13, LibsUntouched DEF Descend, heap
<1>14. CASE Answer  BY <1>0, <1>14, LibsUntouched DEF Answer, heap
<1>15. ASSUME NEW j \in {"close", "reconfig"}, Walk(j) PROVE LibsPart'
  BY <1>0, <1>15, LibsUntouched DEF Walk, heap
<1>16. CASE Fini  BY <1>16, LibsOnFini
<1>17. CASE DlClose
  <2>1. PICK q \in Plugins : q = plugin[cursor]
    BY <1>17 DEF DlClose, Base, HeapSound, FieldsOK
  <2>2. libs' = [libs EXCEPT ![q] = @ - 1] /\ pc = "dlclose" /\ pc' = "fini"
        /\ live' = live /\ shared' = shared /\ plugin' = plugin
    BY <1>17, <2>1 DEF DlClose, heap
  <2>4. InFlight(q) /\ \A p : p # q => ~InFlight(p)
    BY <2>1, <2>2 DEF InFlight
  <2>5. \A p : ~InFlight(p)'
    BY <2>2 DEF InFlight
  <2> QED  BY ONLY Base, <2>1, <2>2, <2>4, <2>5, LibsDown
<1>18. CASE EndWalk  BY <1>0, <1>18, LibsUntouched DEF EndWalk, heap
<1>19. CASE UNCHANGED vars
  <2>1. \A p : From(p)' = From(p) /\ (InFlight(p)' <=> InFlight(p))
    BY <1>19 DEF vars, From, InFlight
  <2> QED  BY <1>0, <1>19, <2>1 DEF vars, LibsPart, LibsCounted
<1> QED
  BY <1>1, <1>2, <1>3, <1>4, <1>5, <1>7, <1>8, <1>9, <1>10, <1>11, <1>12,
     <1>13, <1>14, <1>15, <1>16, <1>17, <1>18, <1>19 DEF Next

LEMMA AlwaysBase == Spec => []Base
<1>1. Init => Base
  BY FieldsInit, LibsInit DEF Base
<1>2. Base /\ [Next]_vars => Base'
  BY FieldsKept, HeapKept, LibsKept DEF Base
<1> QED  BY <1>1, <1>2, PTL DEF Spec

-----------------------------------------------------------------------------
LEMMA ChainInit == Init => ChainSound
  BY DEF Init, ChainSound, FirstLoadedFirst, IsTop, Rest, Walking, RawPart,
         Raws, Filters, Loading, NothingLeaks, NULL

\* the program moves on and the chain stays as it is
LEMMA ChainUntouched ==
  ASSUME ChainSound, UNCHANGED <<dev, heap>>, Rest' = Rest,
         Walking' => Walking \/ pc' = "fini",
         ~Walking' => ~Walking,
         Loading' /\ line' \in RawPlugins => Filters = {},
         pc' \in {"ready", "reading"} /\ ret' = 0 => listRaw # NULL,
         pc' = "reading" => ret' = 0 /\ cursor' \in live /\ listRaw <= cursor',
         pc' # "crashed",
         pc' \in {"none", "opened", "config"} => live = {}
  PROVE  ChainSound'
<1>1. live' = live /\ next' = next /\ plugin' = plugin
      /\ list' = list /\ listRaw' = listRaw
  BY DEF dev, heap
<1>2. Raws' = Raws /\ Filters' = Filters
  BY <1>1 DEF Raws, Filters, Raw
<1>3. FirstLoadedFirst'
  BY <1>1 DEF ChainSound, FirstLoadedFirst
<1>4. ~Walking' => RawPart'
  BY <1>1, <1>2 DEF ChainSound, RawPart, IsTop
<1>5. IsTop(Rest', live')
  BY <1>1 DEF ChainSound
<1> QED  BY <1>1, <1>2, <1>3, <1>4, <1>5 DEF ChainSound, NothingLeaks, Loading, IsTop

\* a module comes on top of the chain
LEMMA ChainGrows ==
  ASSUME Base, ChainSound, RawFirst, NEW s \in BOOLEAN, Attach(born + 1, s),
         Loading
  PROVE  ChainSound'
<1> DEFINE i == born + 1
<1>0. i \in Id /\ i # NULL /\ born \in Nat /\ \A j \in live : j < i /\ j \in Nat
  BY IdsAreNaturals DEF Base, HeapSound, FieldsOK, Id, NULL, Loading
<1>1. live' = live \cup {i} /\ plugin' = [plugin EXCEPT ![i] = line]
  BY DEF Attach
<1>2. plugin'[i] = line /\ \A j \in live : plugin'[j] = plugin[j]
  BY <1>0, <1>1 DEF Base, FieldsOK
<1>3. IsTop(list, live) /\ RawPart /\ listRaw \in Pointer /\ list \in Pointer
  BY DEF ChainSound, Loading, Rest, Walking, Base, FieldsOK
<1>4. next' = [next EXCEPT ![i] = list] /\ list' = i /\ pc' = "lines"
      /\ listRaw' = IF line \in RawPlugins THEN i ELSE listRaw
  <2>1. CASE line \notin RawPlugins
    BY <2>1 DEF Attach, AttachFilter
  <2>2. CASE line \in RawPlugins
    <3>1. Filters = {}
      BY <2>2 DEF ChainSound
    <3>2. Raws = live
      BY <3>1 DEF Raws, Filters
    <3>3. list = listRaw
      BY <1>3, <3>2, IdsAreNaturals DEF RawPart, IsTop, NULL
    <3> QED  BY <2>2, <3>3 DEF Attach, AttachRaw
  <2> QED  BY <2>1, <2>2
<1>5. next'[i] = list /\ \A j \in live : next'[j] = next[j]
  BY <1>0, <1>4 DEF Base, FieldsOK
<1>6. FirstLoadedFirst'
  <2>1. ASSUME NEW k \in live
        PROVE /\ next'[k] = NULL => \A j \in live' : k <= j
              /\ next'[k] # NULL => /\ next'[k] \in live' /\ next'[k] < k
                                    /\ \A j \in live' : j < k => j <= next'[k]
    <3>1. k < i /\ next'[k] = next[k] /\ ~(i < k) /\ k <= i
      BY <1>0, <1>5
    <3> QED  BY <3>1, <1>1 DEF ChainSound, FirstLoadedFirst
  <2>2. /\ next'[i] = NULL => \A j \in live' : i <= j
        /\ next'[i] # NULL => /\ next'[i] \in live' /\ next'[i] < i
                              /\ \A j \in live' : j < i => j <= next'[i]
    BY <1>0, <1>1, <1>3, <1>5 DEF IsTop
  <2> QED  BY <2>1, <2>2, <1>1 DEF FirstLoadedFirst
<1>7. IsTop(list', live')
  BY <1>0, <1>1, <1>4 DEF IsTop
<1>8. RawPart'
  <2>1. CASE line \notin RawPlugins
    <3>1. Raws' = Raws /\ Filters' = Filters \cup {i}
      BY <2>1, <1>0, <1>1, <1>2 DEF Raws, Filters, Raw
    <3>2. \A a \in Raws : a < i
      BY <1>0 DEF Raws
    <3> QED  BY <2>1, <3>1, <3>2, <1>3, <1>4 DEF RawPart, IsTop
  <2>2. CASE line \in RawPlugins
    <3>1. Filters' = {} /\ Raws' = live'
      BY <2>2, <1>0, <1>1, <1>2 DEF ChainSound, Raws, Filters, Raw
    <3> QED  BY <2>2, <3>1, <1>4, <1>7 DEF RawPart
  <2> QED  BY <2>1, <2>2
<1> QED
  BY <1>4, <1>6, <1>7, <1>8 DEF ChainSound, Walking, Rest, Loading, NothingLeaks

\* the descent of a read stays above the raw module until it gets there
LEMMA ChainRead ==
  ASSUME Base, ChainSound, Descend
  PROVE  cursor' \in live /\ listRaw <= cursor' /\ pc' = "reading"
<1>1. cursor \in live /\ listRaw <= cursor /\ listRaw # NULL /\ RawPart
  BY DEF Descend, ChainSound, Walking
<1>2. cursor' = next[cursor] /\ pc' = "reading" /\ cursor \in Filters
  BY <1>1 DEF Descend, Filters
<1>3. listRaw \in Raws /\ listRaw \in live
  BY <1>1 DEF RawPart, IsTop, Raws
<1>4. listRaw < cursor
  BY <1>1, <1>2, <1>3 DEF RawPart
<1>5. listRaw \in Nat /\ cursor \in Nat
  BY <1>1, IdsAreNaturals DEF Base, FieldsOK
<1>6. next[cursor] # NULL
  BY <1>1, <1>3, <1>4, <1>5 DEF ChainSound, FirstLoadedFirst
<1> QED  BY <1>1, <1>2, <1>3, <1>4, <1>6 DEF ChainSound, FirstLoadedFirst

\* fini takes the youngest module off, and the pointer leads to the next one
LEMMA ChainShrinks ==
  ASSUME Base, ChainSound, Fini
  PROVE  ChainSound'
<1>1. IsTop(cursor, live) /\ cursor # NULL /\ cursor \in live
  BY DEF ChainSound, Fini, Rest, IsTop
<1>2. live' = live \ {cursor} /\ next' = next /\ Rest' = next[cursor]
      /\ pc' \in {"fini", "dlclose"}
  BY <1>1 DEF Fini, Rest
<1>3. \A k \in live : k \in Nat
  BY IdsAreNaturals DEF Base, FieldsOK
<1>4. \A k \in live' : k \in live /\ k < cursor
  BY <1>1, <1>2, <1>3 DEF IsTop
<1>5. ASSUME NEW k \in live'
      PROVE /\ next'[k] = NULL => \A j \in live' : k <= j
            /\ next'[k] # NULL => /\ next'[k] \in live' /\ next'[k] < k
                                  /\ \A j \in live' : j < k => j <= next'[k]
  <2>1. k \in live /\ k < cursor /\ cursor \in Nat
    BY ONLY k \in live', <1>1, <1>3, <1>4
  <2>2. next[k] # NULL => next[k] \in live /\ next[k] < k /\ next[k] # cursor
    BY <2>1, <1>3 DEF ChainSound, FirstLoadedFirst
  <2> QED  BY <2>1, <2>2, <1>2, <1>4 DEF ChainSound, FirstLoadedFirst
<1>6. IsTop(next[cursor], live')
  <2>1. CASE next[cursor] = NULL
    <3>1. \A j \in live : cursor <= j
      BY <2>1, <1>1 DEF ChainSound, FirstLoadedFirst
    <3>2. live' = {}
      BY ONLY <3>1, <1>1, <1>3, <1>4
    <3> QED  BY <2>1, <3>2 DEF IsTop
  <2>2. CASE next[cursor] # NULL
    <3>1. next[cursor] \in live /\ next[cursor] < cursor
          /\ \A j \in live : j < cursor => j <= next[cursor]
      BY <2>2, <1>1 DEF ChainSound, FirstLoadedFirst
    <3> QED  BY <2>2, <3>1, <1>1, <1>2, <1>3, <1>4 DEF IsTop
  <2> QED  BY <2>1, <2>2
<1>7. FirstLoadedFirst'
  BY <1>5 DEF FirstLoadedFirst
<1>8. IsTop(Rest', live')
  BY <1>2, <1>6
<1> QED
  BY <1>2, <1>7, <1>8 DEF ChainSound, Walking, Loading, NothingLeaks, IsTop

LEMMA ChainKept == RawFirst /\ Base /\ ChainSound /\ [Next]_vars => ChainSound'
<1> SUFFICES ASSUME RawFirst, Base, ChainSound, [Next]_vars PROVE ChainSound'
  OBVIOUS
<1> USE DEF Walking, Loading, Rest
<1>1. CASE Open
  <2>1. live = {}
    BY <1>1 DEF Open, ChainSound, NothingLeaks
  <2>2. live' = {} /\ list' = NULL /\ listRaw' = NULL /\ pc' = "opened"
    BY <1>1, <2>1 DEF Open, heap
  <2> QED
    BY <2>2 DEF ChainSound, FirstLoadedFirst, IsTop, RawPart, Raws, Filters,
                NothingLeaks
<1>2. CASE OpenConf
  <2>1. UNCHANGED <<dev, heap>> /\ pc \in {"opened", "config"} /\ pc' = "lines"
    BY <1>2 DEF OpenConf
  <2> QED  BY <2>1, ChainUntouched DEF dev
<1>3. CASE MissingConf
  <2>1. UNCHANGED <<dev, heap>> /\ pc \in {"opened", "config"} /\ pc' = "ready"
        /\ ret' = -1
    BY <1>3 DEF MissingConf
  <2> QED  BY <2>1, ChainUntouched DEF dev
<1>4. ASSUME NEW p \in Plugins, ModuleLine(p) PROVE ChainSound'
  <2>1. UNCHANGED <<dev, heap>> /\ pc = "lines" /\ pc' = "static"
        /\ (line' \in RawPlugins => Filters = {})
    BY <1>4 DEF ModuleLine
  <2> QED  BY <2>1, ChainUntouched DEF dev
<1>5. ASSUME LeaveFile PROVE ChainSound'
  <2>1. UNCHANGED <<dev, heap>> /\ pc = "lines" /\ pc' = "ready"
        /\ (ret' = 0 => listRaw # NULL)
    BY <1>5 DEF LeaveFile, Result
  <2> QED  BY <2>1, ChainUntouched DEF dev
<1>6. CASE LoadStatic  BY <1>6, ChainGrows DEF LoadStatic
<1>7. CASE TryShared
  <2>1. UNCHANGED <<dev, heap>> /\ pc = "static" /\ pc' = "dlopen" /\ line' = line
    BY <1>7 DEF TryShared
  <2>2. line \in RawPlugins => Filters = {}
    BY <2>1 DEF ChainSound
  <2> QED  BY <2>1, <2>2, ChainUntouched DEF dev
<1>8. CASE DlOpen
  <2>1. UNCHANGED <<dev, heap>> /\ pc = "dlopen" /\ pc' = "init" /\ line' = line
    BY <1>8 DEF DlOpen
  <2>2. line \in RawPlugins => Filters = {}
    BY <2>1 DEF ChainSound
  <2> QED  BY <2>1, <2>2, ChainUntouched DEF dev
<1>9. CASE LoadShared  BY <1>9, ChainGrows DEF LoadShared
<1>10. CASE LoadFails
  <2>1. UNCHANGED <<dev, heap>> /\ pc \in {"dlopen", "init"} /\ pc' = "ready"
        /\ ret' = -1
    BY <1>10 DEF LoadFails
  <2> QED  BY <2>1, ChainUntouched DEF dev
<1>11. CASE Read \/ ReadRaw
  <2>1. UNCHANGED <<dev, heap>> /\ pc = "ready" /\ pc' = "reading" /\ ret = 0
        /\ ret' = 0 /\ cursor' \in {list, listRaw}
    BY <1>11 DEF Read, ReadRaw, Ask
  <2>2. listRaw # NULL /\ IsTop(list, live) /\ IsTop(listRaw, Raws)
    BY <2>1 DEF ChainSound, RawPart
  <2>3. listRaw \in live /\ list \in live /\ listRaw <= list
    BY <2>2 DEF IsTop, Raws
  <2>4. cursor' \in live /\ listRaw <= cursor'
    BY <2>1, <2>3, IdsAreNaturals DEF Base, FieldsOK
  <2> QED  BY <2>1, <2>2, <2>4, ChainUntouched DEF dev
<1>12. CASE Descend
  <2>1. UNCHANGED <<dev, heap>> /\ pc = "reading" /\ ret' = ret
    BY <1>12 DEF Descend
  <2>2. cursor' \in live /\ listRaw <= cursor' /\ pc' = "reading"
    BY <1>12, ChainRead
  <2>3. ret = 0 /\ listRaw # NULL
    BY <2>1 DEF ChainSound
  <2> QED  BY <2>1, <2>2, <2>3, ChainUntouched DEF dev
<1>13. CASE Answer
  <2>1. UNCHANGED <<dev, heap>> /\ pc = "reading" /\ pc' = "ready" /\ ret' = ret
    BY <1>13 DEF Answer
  <2>2. ret = 0 /\ listRaw # NULL
    BY <2>1 DEF ChainSound
  <2> QED  BY <2>1, <2>2, ChainUntouched DEF dev
<1>14. ASSUME NEW j \in {"close", "reconfig"}, Walk(j) PROVE ChainSound'
  <2>1. UNCHANGED <<dev, heap>> /\ pc \in {"opened", "ready"} /\ pc' = "fini"
        /\ cursor' = list
    BY <1>14 DEF Walk
  <2> QED  BY <2>1, ChainUntouched DEF dev
<1>15. CASE Fini  BY <1>15, ChainShrinks
<1>16. CASE DlClose
  <2>1. UNCHANGED <<dev, heap>> /\ pc = "dlclose" /\ pc' = "fini"
        /\ cursor' = next[cursor]
    BY <1>16 DEF DlClose
  <2> QED  BY <2>1, ChainUntouched DEF dev
<1>17. CASE EndWalk
  <2>1. live = {}
    BY <1>17 DEF EndWalk, ChainSound, IsTop
  <2>2. live' = {} /\ list' = NULL /\ listRaw' = NULL /\ pc' \in {"none", "config"}
    BY <1>17, <2>1 DEF EndWalk, heap
  <2> QED
    BY <2>2 DEF ChainSound, FirstLoadedFirst, IsTop, RawPart, Raws, Filters,
                NothingLeaks
<1>18. CASE UNCHANGED vars
  BY <1>18 DEF vars, ChainSound, FirstLoadedFirst, IsTop, RawPart, Raws,
               Filters, Raw, NothingLeaks
<1> QED
  BY <1>1, <1>2, <1>3, <1>4, <1>5, <1>6, <1>7, <1>8, <1>9, <1>10, <1>11, <1>12,
     <1>13, <1>14, <1>15, <1>16, <1>17, <1>18 DEF Next

LEMMA AlwaysChain == RawFirst => (Spec => []ChainSound)
<1> SUFFICES ASSUME RawFirst PROVE Spec => []ChainSound
  OBVIOUS
<1>1. Base /\ ChainSound /\ [Next]_vars => ChainSound'
  BY ChainKept
<1> QED  BY <1>1, ChainInit, AlwaysBase, PTL DEF Spec

-----------------------------------------------------------------------------
(***************************************************************************)
(* Every variable keeps to its type, in whatever order the file names the  *)
(* modules; the counts of dlopen never fall below zero.                    *)
(***************************************************************************)
THEOREM TypeCorrect == Spec => []TypeOK
<1>1. Base => TypeOK
  <2> SUFFICES ASSUME Base PROVE TypeOK
    OBVIOUS
  <2>1. ASSUME NEW p \in Plugins PROVE libs[p] \in Nat
    <3>1. Cardinality(From(p)) \in Nat
      BY FromIsFinite, FS_CardinalityType DEF Base
    <3> QED  BY <3>1 DEF Base, LibsPart, LibsCounted
  <2>2. libs \in [Plugins -> Nat]
    BY <2>1 DEF Base, LibsPart
  <2> QED  BY <2>2 DEF Base, FieldsOK, TypeOK
<1> QED  BY <1>1, AlwaysBase, PTL

(***************************************************************************)
(* Shared objects are open exactly as often as modules need them, also     *)
(* when a load fails half way and whatever the order of the file.          *)
(***************************************************************************)
THEOREM LibsSound == Spec => []LibsCounted
<1>1. Base => LibsCounted
  BY DEF Base, LibsPart
<1> QED  BY <1>1, AlwaysBase, PTL

(***************************************************************************)
(* Raw modules first: no call ever follows a pointer to NULL or to freed   *)
(* memory.                                                                 *)
(***************************************************************************)
THEOREM CrashFree == RawFirst => (Spec => []NeverCrashes)
<1> SUFFICES ASSUME RawFirst PROVE Spec => []NeverCrashes
  OBVIOUS
<1>1. ChainSound => NeverCrashes
  BY DEF ChainSound, NeverCrashes
<1> QED  BY <1>1, AlwaysChain, PTL

(***************************************************************************)
(* Raw modules first: the chain passes samples on in the file's order.     *)
(***************************************************************************)
THEOREM OrderSound == RawFirst => (Spec => []FirstLoadedFirst)
<1> SUFFICES ASSUME RawFirst PROVE Spec => []FirstLoadedFirst
  OBVIOUS
<1>1. ChainSound => FirstLoadedFirst
  BY DEF ChainSound
<1> QED  BY <1>1, AlwaysChain, PTL

(***************************************************************************)
(* Raw modules first: ts_close and ts_reconfig free every module.          *)
(***************************************************************************)
THEOREM AllFreed == RawFirst => (Spec => []NothingLeaks)
<1> SUFFICES ASSUME RawFirst PROVE Spec => []NothingLeaks
  OBVIOUS
<1>1. ChainSound => NothingLeaks
  BY DEF ChainSound
<1> QED  BY <1>1, AlwaysChain, PTL

(***************************************************************************)
(* Raw modules first: once ts_config has returned 0, both kinds of read    *)
(* end at the same live raw module.                                        *)
(***************************************************************************)
THEOREM ReadsSound == RawFirst => (Spec => []ConfiguredCanRead)
<1> SUFFICES ASSUME RawFirst PROVE Spec => []ConfiguredCanRead
  OBVIOUS
<1>1. Base /\ ChainSound => ConfiguredCanRead
  <2> SUFFICES ASSUME Base, ChainSound PROVE ConfiguredCanRead
    OBVIOUS
  <2>1. CASE pc = "ready" /\ ret = 0
    BY <2>1 DEF ChainSound, RawPart, IsTop, Raws, Walking, ConfiguredCanRead
  <2>2. CASE pc = "reading" /\ cursor \in live /\ Raw(cursor)
    <3>1. listRaw <= cursor /\ listRaw # NULL /\ IsTop(listRaw, Raws)
      BY <2>2 DEF ChainSound, RawPart, Walking
    <3>2. cursor <= listRaw
      BY <2>2, <3>1 DEF IsTop, Raws
    <3> QED
      BY <2>2, <3>1, <3>2, IdsAreNaturals DEF Base, FieldsOK, ConfiguredCanRead
  <2> QED  BY <2>1, <2>2 DEF ConfiguredCanRead
<1> QED  BY <1>1, AlwaysBase, AlwaysChain, PTL
=============================================================================
