------------------------------- MODULE Plugins ------------------------------
(***************************************************************************)
(* The plugins of a context (src/core/common/gfal_plugin.c, gfal_common.c):*)
(* gfal2_context_new loads the modules of the plugin directory one by one, *)
(* gfal2_register_plugin adds one of the client, gfal_find_plugin picks    *)
(* the one that serves a URL and gfal2_context_free deletes them all.      *)
(*                                                                         *)
(* A module is entered through the symbol gfal_plugin_init, which          *)
(* gfal_module_init keeps in a variable that all threads share.  What a    *)
(* directory holds may change between two loads.                           *)
(***************************************************************************)
EXTENDS Integers, Sequences, SequencesExt

CONSTANTS
    Threads,       \* each has a context of its own
    Dirs,          \* what the plugin directory may hold: sequences of files
    Kind,          \* of a file: "text", "broken", "nosymbol", "plugin"
    Fallible,      \* plugins whose constructor may fail
    Clients,       \* plugins a client may register
    Name,          \* getName of a plugin
    Priority,      \* of a plugin
    Serves,        \* the operations and URLs a plugin's checker accepts
    Confused,      \* pairs of a plugin and a URL its checker fails on
    MaxPluginList, \* MAX_PLUGIN_LIST
    MaxLoads       \* bound: loads of the directory by a thread

ASSUME MaxPluginListAssumption == MaxPluginList \in Nat \ {0}

Makeable == {f \in DOMAIN Kind : Kind[f] = "plugin"}

ASSUME KindOK == Kind \in [DOMAIN Kind -> {"text", "broken", "nosymbol", "plugin"}]
ASSUME DirsOK == Dirs \subseteq Seq(DOMAIN Kind)
ASSUME PriorityOK == \A p \in Makeable \cup Clients : Priority[p] \in Int

VARIABLES
    pc,          \* of a thread
    context,     \* the thread has a gfal2_context_t
    plugins,     \* plugin_list, as far as it was filled
    number,      \* plugin_number
    sorted,      \* sorted_plugin: positions in plugin_list
    modules,     \* the modules still to be loaded
    constructor, \* static variable of gfal_module_init
    mine,        \* the module whose symbol the thread has looked up
    loads,       \* how often the thread has read the directory
    alive,       \* ghost: plugin instances made and not deleted
    listed,      \* ghost: the directory that plugins were listed from, and the
                 \* first of its plugins that went into the list
    raced,       \* ghost: the shared constructor was changed under the thread
    halted,      \* ghost: a load of the thread failed half way
    outside      \* ghost: a plugin was written outside plugin_list

registry == <<context, plugins, number, sorted, modules, constructor, mine, loads,
              alive, listed, raced, halted, outside>>

Nothing == [dir |-> <<>>, from |-> 1]

PluginsInit ==
    /\ context = [t \in Threads |-> FALSE]
    /\ plugins = [t \in Threads |-> <<>>]
    /\ number = [t \in Threads |-> 0]
    /\ sorted = [t \in Threads |-> <<>>]
    /\ modules = [t \in Threads |-> <<>>]
    /\ constructor = "none"
    /\ mine = [t \in Threads |-> "none"]
    /\ loads = [t \in Threads |-> 0]
    /\ alive = [t \in Threads |-> 0]
    /\ listed = [t \in Threads |-> Nothing]
    /\ raced = [t \in Threads |-> FALSE]
    /\ halted = [t \in Threads |-> FALSE]
    /\ outside = [t \in Threads |-> FALSE]

GoTo(t, where) == pc' = [pc EXCEPT ![t] = where]

-----------------------------------------------------------------------------
\* gfal_plugins_sort and gfal_plugin_compare: by priority, and in the order of
\* plugin_list among equals.
SortedByPriority(list) ==
    LET Before(i, j) ==
            \/ Priority[list[i]] > Priority[list[j]]
            \/ Priority[list[i]] = Priority[list[j]] /\ i < j
    IN  CHOOSE order \in [DOMAIN list -> DOMAIN list] :
            /\ \A i \in DOMAIN list : \E k \in DOMAIN list : order[k] = i
            /\ \A k, l \in DOMAIN list : k < l => Before(order[k], order[l])

\* The files of some kinds, in their order.
OfKind(dir, kinds) ==
    LET kept[i \in 0 .. Len(dir)] ==
            IF i = 0 THEN <<>>
            ELSE IF Kind[dir[i]] \in kinds THEN Append(kept[i - 1], dir[i])
            ELSE kept[i - 1]
    IN  kept[Len(dir)]

\* gfal_list_directory_plugins: the files that look like a shared library.
ModuleFiles(dir) == OfKind(dir, {"broken", "nosymbol", "plugin"})

\* Nothing stops a load at the end of plugin_list: that the directory does not
\* hold more modules is assumed.
ASSUME DirsFit == \A d \in Dirs : Len(ModuleFiles(d)) <= MaxPluginList

\* A load ends; gfal_plugins_instance keeps the outcome.
EndLoad(t, n, where) ==
    /\ number' = [number EXCEPT ![t] = n]
    /\ sorted' = IF n > 0
                 THEN [sorted EXCEPT ![t] = SortedByPriority(plugins[t])] ELSE sorted
    /\ GoTo(t, where)

\* gfal_plugins_instance with no plugin yet: gfal_localize_plugins reads the
\* directory.  A directory without a module is no error.  plugin_number stays
\* what it was, which is -1 after a load that failed.
StartLoad(t) ==
    /\ pc[t] \in {"new", "instance"}
    /\ IF number[t] > 0
       THEN /\ GoTo(t, "dispatch")
            /\ UNCHANGED registry
       ELSE /\ loads[t] < MaxLoads[t]
            /\ loads' = [loads EXCEPT ![t] = @ + 1]
            /\ \/ \E d \in Dirs :
                    /\ modules' = [modules EXCEPT ![t] = ModuleFiles(d)]
                    /\ plugins' = [plugins EXCEPT ![t] = <<>>]
                    /\ listed' = [listed EXCEPT ![t] =
                                    [dir |-> d, from |-> IF number[t] < 0 THEN 2 ELSE 1]]
                    /\ GoTo(t, IF pc[t] = "new" THEN "load" ELSE "reload")
                    /\ UNCHANGED <<number, halted>>
               \/ /\ number' = [number EXCEPT ![t] = -1]
                  /\ GoTo(t, IF pc[t] = "new" THEN "refused" ELSE "failed")
                  /\ halted' = [halted EXCEPT ![t] = TRUE]
                  /\ UNCHANGED <<modules, plugins, listed>>
            /\ UNCHANGED <<context, sorted, constructor, mine, alive, raced, outside>>

\* Mutant: a library that cannot be opened ends the load.
SkipBrokenAndRest(t) ==
    /\ pc[t] \in {"load", "reload"}
    /\ modules[t] # <<>> /\ Kind[Head(modules[t])] = "broken"
    /\ modules' = [modules EXCEPT ![t] = <<>>]
    /\ UNCHANGED <<pc, context, plugins, number, sorted, constructor, mine, loads,
                   alive, listed, raced, halted, outside>>

\* gfal_module_load: a library that cannot be opened is passed over.
SkipBroken(t) ==
    /\ pc[t] \in {"load", "reload"}
    /\ modules[t] # <<>> /\ Kind[Head(modules[t])] = "broken"
    /\ modules' = [modules EXCEPT ![t] = Tail(@)]
    /\ UNCHANGED <<pc, context, plugins, number, sorted, constructor, mine, loads,
                   alive, listed, raced, halted, outside>>

\* gfal_module_init: the symbol is looked up and stored where every thread
\* stores it; without one plugin_number is 0 again and the load stops.
LookUpSymbol(t) ==
    /\ pc[t] \in {"load", "reload"}
    /\ modules[t] # <<>> /\ Kind[Head(modules[t])] # "broken"
    /\ IF Kind[Head(modules[t])] = "nosymbol"
       THEN /\ constructor' = "none"
            /\ number' = [number EXCEPT ![t] = -1]
            /\ halted' = [halted EXCEPT ![t] = TRUE]
            /\ GoTo(t, IF pc[t] = "load" THEN "refused" ELSE "failed")
            /\ UNCHANGED mine
       ELSE /\ constructor' = Head(modules[t])
            /\ mine' = [mine EXCEPT ![t] = Head(modules[t])]
            /\ GoTo(t, IF pc[t] = "load" THEN "construct" ELSE "reconstruct")
            /\ UNCHANGED <<number, halted>>
    /\ raced' = [u \in Threads |->
                   raced[u] \/ (u # t /\ pc[u] \in {"construct", "reconstruct"})]
    /\ UNCHANGED <<context, plugins, sorted, modules, loads, alive, listed, outside>>

\* gfal_module_init: the constructor is called: the one looked up, or the one
\* another thread has stored since, whichever the compiled code reads.  (When
\* the other stored NULL the process ends, or the own one is called.)  After a
\* load that failed the first plugin is written in front of plugin_list.
Construct(t) ==
    /\ pc[t] \in {"construct", "reconstruct"}
    /\ \E made \in ({mine[t]} \cup IF raced[t] THEN {constructor} ELSE {}) \ {"none"} :
         \/ /\ plugins' = [plugins EXCEPT ![t] =
                              IF number[t] < 0 THEN <<>> ELSE Append(@, made)]
            /\ number' = [number EXCEPT ![t] = @ + 1]
            /\ alive' = [alive EXCEPT ![t] = @ + 1]
            /\ modules' = [modules EXCEPT ![t] = Tail(@)]
            /\ GoTo(t, IF pc[t] = "construct" THEN "load" ELSE "reload")
            /\ UNCHANGED halted
         \/ /\ made \in Fallible
            /\ number' = [number EXCEPT ![t] = -1]
            /\ halted' = [halted EXCEPT ![t] = TRUE]
            /\ GoTo(t, IF pc[t] = "construct" THEN "refused" ELSE "failed")
            /\ UNCHANGED <<plugins, alive, modules>>
    /\ outside' = [outside EXCEPT ![t] = @ \/ number[t] < 0]
    /\ mine' = [mine EXCEPT ![t] = "none"]
    /\ UNCHANGED <<context, sorted, constructor, loads, listed, raced>>

\* gfal_plugins_instance: all modules are loaded; gfal2_context_new, if it was
\* the caller, returns the context.
FinishLoad(t) ==
    /\ pc[t] \in {"load", "reload"} /\ modules[t] = <<>>
    /\ EndLoad(t, number[t], IF pc[t] = "load" THEN "instance" ELSE "dispatch")
    /\ context' = [context EXCEPT ![t] = TRUE]
    /\ UNCHANGED <<plugins, modules, constructor, mine, loads, alive, listed, raced, halted,
                   outside>>

\* gfal2_context_new: the context is freed, the plugins it has made are not.
Forsake(t) ==
    /\ plugins' = [plugins EXCEPT ![t] = <<>>]
    /\ number' = [number EXCEPT ![t] = 0]
    /\ modules' = [modules EXCEPT ![t] = <<>>]
    /\ listed' = [listed EXCEPT ![t] = Nothing]

-----------------------------------------------------------------------------
\* Mutant: the list is not sorted again.
RegisterUnsorted(t, p) ==
    /\ number[t] \in 0..(MaxPluginList - 1)
    /\ plugins' = [plugins EXCEPT ![t] = Append(@, p)]
    /\ number' = [number EXCEPT ![t] = @ + 1]
    /\ sorted' = [sorted EXCEPT ![t] = Append(@, number[t] + 1)]
    /\ alive' = [alive EXCEPT ![t] = @ + 1]
    /\ UNCHANGED <<listed, outside>>

\* gfal2_register_plugin with room in the list.  A load that failed has left
\* plugin_number at -1, and the plugin is written in front of the list.
Register(t, p) ==
    /\ number[t] < MaxPluginList
    /\ number' = [number EXCEPT ![t] = @ + 1]
    /\ outside' = [outside EXCEPT ![t] = @ \/ number[t] < 0]
    /\ plugins' = [plugins EXCEPT ![t] = IF number[t] < 0 THEN <<>> ELSE Append(@, p)]
    /\ sorted' = [sorted EXCEPT ![t] = SortedByPriority(plugins'[t])]
    /\ alive' = [alive EXCEPT ![t] = IF number[t] < 0 THEN @ ELSE @ + 1]
    /\ listed' = [listed EXCEPT ![t] = IF number[t] < 0 THEN Nothing ELSE @]

\* Mutant: the last plugin of the list is forgotten.
DeletePluginsButOne(t) ==
    /\ alive' = [alive EXCEPT ![t] = @ - (IF number[t] > 1 THEN number[t] - 1 ELSE 0)]
    /\ number' = [number EXCEPT ![t] = 0]

\* gfal_plugins_delete
DeletePlugins(t) ==
    /\ alive' = [alive EXCEPT ![t] = @ - (IF number[t] > 0 THEN number[t] ELSE 0)]
    /\ number' = [number EXCEPT ![t] = 0]

\* gfal2_context_free
FreeContext(t) ==
    /\ context' = [context EXCEPT ![t] = FALSE]
    /\ IF context[t] THEN DeletePlugins(t) ELSE UNCHANGED <<alive, number>>
    /\ plugins' = [plugins EXCEPT ![t] = <<>>]
    /\ sorted' = [sorted EXCEPT ![t] = <<>>]
    /\ listed' = [listed EXCEPT ![t] = Nothing]

-----------------------------------------------------------------------------
\* gfal_plugin_checker_safe
Accepts(p, op, u) == u \in Serves[p].urls /\ op \in Serves[p].ops

\* gfal_find_plugin: the position of the first plugin in the sorted list whose
\* checker accepts, 0 if there is none or a checker before it fails.
FindPlugin(t, op, u) ==
    LET Stops(i) == \/ Accepts(plugins[t][i], op, u)
                    \/ <<plugins[t][i], u>> \in Confused
        k == SelectInSeq(sorted[t], Stops)
    IN  IF number[t] <= 0 \/ k = 0 THEN 0
        ELSE IF <<plugins[t][sorted[t][k]], u>> \in Confused THEN 0
        ELSE sorted[t][k]

\* gfal_plugin_map_file_handle: the first of plugin_list with the name that the
\* handle has kept, 0 for EBADF.
MapFileHandle(t, name) ==
    IF number[t] <= 0 THEN 0
    ELSE SelectInSeq(plugins[t], LAMBDA p : Name[p] = name)

=============================================================================
