---------------------------- MODULE ModuleChain ----------------------------
(***************************************************************************)
(* The core of tslib: one program opens a touch screen, lets ts_config     *)
(* load the modules of its configuration file into a linked chain, reads   *)
(* through the chain, reconfigures and closes.  A module's structure       *)
(* (struct tslib_module_info) is a number, and numbers are never given out *)
(* twice, so a pointer to freed memory is always recognised as one.        *)
(***************************************************************************)
EXTENDS Integers, FiniteSets

CONSTANTS
  Plugins,     \* names a line of the file may load
  RawPlugins,  \* those of them that read the device (module_raw lines)
  Static,      \* those of them linked into the library
  MaxLoads,    \* bound: modules loaded in one behaviour
  RawFirst     \* whether the file names its raw modules before its filters

ASSUME ChainAssumption ==
  /\ Plugins # {} /\ RawPlugins \subseteq Plugins /\ Static \subseteq Plugins
  /\ MaxLoads \in Nat /\ RawFirst \in BOOLEAN

NULL == 0
Id == 1..MaxLoads
Pointer == Id \cup {NULL}

VARIABLES
  pc,       \* where the program is
  fd,       \* whether the device is open
  list, listRaw,               \* the fields of struct tsdev
  live, next, plugin, shared,  \* the structures not freed, and their fields
  born,     \* how many structures were ever allocated
  libs,     \* how often each shared object is open (the counts of dlopen)
  line,     \* the plugin of the line that is being loaded
  ret,      \* ts_config's result
  cursor,   \* the local pointer of ts_read's descent, or of the walk
  job       \* what the walk over the chain is for: "close" or "reconfig"

vars == <<pc, fd, list, listRaw, live, next, plugin, shared, born, libs,
          line, ret, cursor, job>>
heap == <<live, next, plugin, shared, born>>
dev  == <<list, listRaw>>

Raw(i) == plugin[i] \in RawPlugins
Filters == {i \in live : ~Raw(i)}

\* what a plugin field or line holds before anything looks at it
Unset == CHOOSE p \in Plugins : TRUE

Init ==
  /\ pc = "none" /\ fd = FALSE /\ list = NULL /\ listRaw = NULL
  /\ live = {} /\ shared = {} /\ born = 0
  /\ next = [i \in Id |-> NULL]
  /\ plugin = [i \in Id |-> Unset]
  /\ libs = [p \in Plugins |-> 0]
  /\ line = Unset
  /\ ret = 0 /\ cursor = NULL /\ job = "close"

-----------------------------------------------------------------------------
\* ts_open; when it fails nothing is left behind
Open ==
  /\ pc = "none"
  /\ pc' = "opened" /\ fd' = TRUE /\ list' = NULL /\ listRaw' = NULL
  /\ UNCHANGED <<heap, libs, line, ret, cursor, job>>

\* ts_config, called by the program or by ts_reconfig, opens the file...
OpenConf ==
  /\ pc \in {"opened", "config"}
  /\ pc' = "lines" /\ ret' = 0
  /\ UNCHANGED <<fd, dev, heap, libs, line, cursor, job>>

\* ...or cannot
MissingConf ==
  /\ pc \in {"opened", "config"}
  /\ pc' = "ready" /\ ret' = -1
  /\ UNCHANGED <<fd, dev, heap, libs, line, cursor, job>>

\* a line the loop acts on; blank lines and comments change nothing
ModuleLine(p) ==
  /\ pc = "lines" /\ born < MaxLoads
  /\ RawFirst /\ p \in RawPlugins => Filters = {}
  /\ pc' = "static" /\ line' = p
  /\ UNCHANGED <<fd, dev, heap, libs, ret, cursor, job>>

\* Mutant: ts_config forgets to look for a raw module.
ResultNoRaw(r) == r

\* the end of ts_config: what is returned once the loop is left
Result(r) == IF listRaw = NULL THEN -1 ELSE r

\* the end of the file, or a line too long or with an unknown option: break,
\* with the result of the line before
LeaveFile ==
  /\ pc = "lines"
  /\ pc' = "ready" /\ ret' = Result(ret)
  /\ UNCHANGED <<fd, dev, heap, libs, line, cursor, job>>

-----------------------------------------------------------------------------
\* Mutant: __ts_attach sets ts->list before info->next.
AttachFilterSwapped(i) ==
  /\ next' = [next EXCEPT ![i] = i]
  /\ list' = i
  /\ pc' = "lines"
  /\ UNCHANGED listRaw

\* __ts_attach: the filter goes on top of the chain
AttachFilter(i) ==
  /\ next' = [next EXCEPT ![i] = list]
  /\ list' = i
  /\ pc' = "lines"
  /\ UNCHANGED listRaw

(***************************************************************************)
(* __ts_attach_raw.  Its loop moves prev along with next, so prev ends     *)
(* where next ends: at the old raw module, which is always on the chain,   *)
(* or at NULL, which the assignment behind the loop dereferences.          *)
(***************************************************************************)
AttachRaw(i) ==
  /\ listRaw' = i
  /\ IF list \in {NULL, listRaw}
     THEN /\ next' = [next EXCEPT ![i] = listRaw]
          /\ list' = i
          /\ pc' = "lines"
     ELSE /\ next' = [j \in Id |-> IF j = i THEN listRaw
                                   ELSE IF j = listRaw THEN i ELSE next[j]]
          /\ list' = list
          /\ pc' = IF listRaw = NULL THEN "crashed" ELSE "lines"

\* the plugin's mod_init returned a structure
Attach(i, isShared) ==
  /\ live' = live \cup {i}
  /\ born' = i
  /\ plugin' = [plugin EXCEPT ![i] = line]
  /\ shared' = IF isShared THEN shared \cup {i} ELSE shared
  /\ IF line \in RawPlugins THEN AttachRaw(i) ELSE AttachFilter(i)
  /\ ret' = 0
  /\ UNCHANGED <<fd, line, cursor, job>>

LoadStatic ==
  /\ pc = "static" /\ line \in Static
  /\ Attach(born + 1, FALSE)
  /\ UNCHANGED libs

\* not linked in, or its mod_init failed: look for a shared object
TryShared ==
  /\ pc = "static"
  /\ pc' = "dlopen"
  /\ UNCHANGED <<fd, dev, heap, libs, line, ret, cursor, job>>

DlOpen ==
  /\ pc = "dlopen"
  /\ pc' = "init" /\ libs' = [libs EXCEPT ![line] = @ + 1]
  /\ UNCHANGED <<fd, dev, heap, line, ret, cursor, job>>

LoadShared ==
  /\ pc = "init"
  /\ Attach(born + 1, TRUE)
  /\ UNCHANGED libs

\* Mutant: no dlclose behind a failed mod_init.
LoadFailsKeepLib ==
  /\ pc \in {"dlopen", "init"}
  /\ pc' = "ready" /\ ret' = -1
  /\ UNCHANGED <<fd, dev, heap, libs, line, cursor, job>>

\* dlopen failed, or dlsym or mod_init did after it: ts_config breaks off
LoadFails ==
  /\ pc \in {"dlopen", "init"}
  /\ libs' = IF pc = "init" THEN [libs EXCEPT ![line] = @ - 1] ELSE libs
  /\ pc' = "ready" /\ ret' = -1
  /\ UNCHANGED <<fd, dev, heap, line, cursor, job>>

-----------------------------------------------------------------------------
\* a read that asks module top, called once ts_config has returned 0
Ask(top) ==
  /\ pc = "ready" /\ ret = 0
  /\ pc' = "reading" /\ cursor' = top
  /\ UNCHANGED <<fd, dev, heap, libs, line, ret, job>>

Read == Ask(list)

ReadRaw == Ask(listRaw)

\* a filter's read asks the next module; a bad pointer ends the program
Descend ==
  /\ pc = "reading"
  /\ IF cursor \in live
     THEN ~Raw(cursor) /\ cursor' = next[cursor] /\ pc' = pc
     ELSE cursor' = cursor /\ pc' = "crashed"
  /\ UNCHANGED <<fd, dev, heap, libs, line, ret, job>>

\* the device answers
Answer ==
  /\ pc = "reading" /\ cursor \in live /\ Raw(cursor)
  /\ pc' = "ready" /\ cursor' = NULL
  /\ UNCHANGED <<fd, dev, heap, libs, line, ret, job>>

\* Mutant: the walk starts at list_raw.
WalkFromRaw(j) ==
  /\ pc \in {"opened", "ready"}
  /\ pc' = "fini" /\ cursor' = listRaw /\ job' = j
  /\ UNCHANGED <<fd, dev, heap, libs, line, ret>>

\* ts_close and ts_reconfig start to walk the chain
Walk(j) ==
  /\ pc \in {"opened", "ready"}
  /\ pc' = "fini" /\ cursor' = list /\ job' = j
  /\ UNCHANGED <<fd, dev, heap, libs, line, ret>>

\* one module's fini, which frees it; next and handle were read before it
Fini ==
  /\ pc = "fini" /\ cursor # NULL
  /\ IF cursor \in live
     THEN /\ live' = live \ {cursor}
          /\ IF cursor \in shared THEN pc' = "dlclose" /\ cursor' = cursor
             ELSE pc' = "fini" /\ cursor' = next[cursor]
     ELSE live' = live /\ pc' = "crashed" /\ cursor' = cursor
  /\ UNCHANGED <<fd, dev, next, plugin, shared, born, libs, line, ret, job>>

DlClose ==
  /\ pc = "dlclose"
  /\ libs' = [libs EXCEPT ![plugin[cursor]] = @ - 1]
  /\ pc' = "fini" /\ cursor' = next[cursor]
  /\ UNCHANGED <<fd, dev, heap, line, ret, job>>

\* close(fd) and free(ts), or memset of everything but fd and a new ts_config
EndWalk ==
  /\ pc = "fini" /\ cursor = NULL
  /\ list' = NULL /\ listRaw' = NULL
  /\ pc' = IF job = "close" THEN "none" ELSE "config"
  /\ fd' = (job # "close")
  /\ UNCHANGED <<heap, libs, line, ret, cursor, job>>

Next ==
  \/ Open \/ OpenConf \/ MissingConf
  \/ \E p \in Plugins : ModuleLine(p)
  \/ LeaveFile
  \/ LoadStatic \/ TryShared \/ DlOpen \/ LoadShared \/ LoadFails
  \/ Read \/ ReadRaw \/ Descend \/ Answer
  \/ \E j \in {"close", "reconfig"} : Walk(j)
  \/ Fini \/ DlClose \/ EndWalk

Spec == Init /\ [][Next]_vars

-----------------------------------------------------------------------------
From(p) == {i \in live \cap shared : plugin[i] = p}

InFlight(p) == \/ pc = "init" /\ line = p
               \/ pc = "dlclose" /\ plugin[cursor] = p

Walking == pc \in {"fini", "dlclose"}

TypeOK ==
  /\ pc \in {"none", "opened", "config", "lines", "static", "dlopen", "init",
             "ready", "reading", "fini", "dlclose", "crashed"}
  /\ fd \in BOOLEAN /\ ret \in {0, -1}
  /\ list \in Pointer /\ listRaw \in Pointer /\ cursor \in Pointer
  /\ live \in SUBSET Id /\ shared \in SUBSET Id /\ born \in 0 .. MaxLoads
  /\ next \in [Id -> Pointer] /\ plugin \in [Id -> Plugins]
  /\ libs \in [Plugins -> Nat] /\ line \in Plugins
  /\ job \in {"close", "reconfig"}

(***************************************************************************)
(* With a file whose raw modules come first, no call of ts_config,         *)
(* ts_read, ts_reconfig or ts_close follows a pointer that is NULL or      *)
(* points to a module that fini has freed, whatever fails on the way.      *)
(***************************************************************************)
NeverCrashes == pc # "crashed"

(***************************************************************************)
(* README.markdown:26-28: modules are loaded in order, the first one       *)
(* processing the data first.  Every module asks the one loaded just       *)
(* before it that is still there, so a sample passes them in file order.   *)
(***************************************************************************)
FirstLoadedFirst ==
  \A i \in live : /\ next[i] = NULL => \A j \in live : i <= j
                  /\ next[i] # NULL => /\ next[i] \in live /\ next[i] < i
                                       /\ \A j \in live : j < i => j <= next[i]

(***************************************************************************)
(* A walk over the chain leaves nothing: when ts_close has freed the       *)
(* device, or ts_reconfig starts on the new file, every module structure   *)
(* of the old configuration is freed, whether or not that one had loaded   *)
(* completely.                                                             *)
(***************************************************************************)
NothingLeaks == pc \in {"none", "opened", "config"} => live = {}

(***************************************************************************)
(* A shared object is open exactly as often as there are modules that came *)
(* from it, one more while it is being initialised or unloaded: nobody     *)
(* runs unmapped code and no count is left when a step of the load fails.  *)
(***************************************************************************)
LibsCounted ==
  \A p \in Plugins : libs[p] = Cardinality(From(p)) + (IF InFlight(p) THEN 1 ELSE 0)

(***************************************************************************)
(* When ts_config has returned 0 there is a device to read: list_raw is a  *)
(* live module that reads it, and the one at which ts_read's descent ends. *)
(***************************************************************************)
ConfiguredCanRead ==
  /\ pc = "ready" /\ ret = 0 => listRaw \in live /\ Raw(listRaw)
  /\ pc = "reading" /\ cursor \in live /\ Raw(cursor) => cursor = listRaw

(***************************************************************************)
(* The comment in __ts_attach_raw: "ensure the last item in the normal     *)
(* list now points to the top of the raw list".  Checked for files in any  *)
(* order, where the loop that looks for the last item loses it.            *)
(***************************************************************************)
RawOnTop ==
  pc = "lines" => \A i \in Filters : next[i] \notin Filters => next[i] = listRaw
=============================================================================
