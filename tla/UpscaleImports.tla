----------------------------- MODULE UpscaleImports ----------------------------
(***************************************************************************)
(* How UpscaleGL's functions get into the program's modules                *)
(* (wine/pe/upscalegl.c): modules already loaded are patched when the DLL  *)
(* starts, later ones by a loader notification before their DllMain, and a *)
(* module is known by the address it is loaded at. Loads, unloads and the  *)
(* DLL's own start are serial: each happens under the loader lock.         *)
(***************************************************************************)
EXTENDS UpscaleGL

CONSTANTS
    Modules,     \* modules of the program, and of Wine
    Builtin,     \* those of them that are Wine's builtin DLLs
    Bases,       \* addresses a module may be loaded at
    PatchedSize  \* entries of patched[]

\* "none" is no module.
ImportsAssumption == "none" \notin Modules

VARIABLES
    at,          \* the module loaded at each address, or NoModule
    hooked,      \* the loaded modules whose imports are the hooks
    patched,     \* patched[]: addresses seen
    enabled,     \* the DLL has started
    unloaded     \* history: addresses modules were unloaded from since

importsVars == <<at, hooked, patched, enabled, unloaded>>

NoModule == "none"
Loaded == {at[b] : b \in Bases} \ {NoModule}

\* Both patch_modules and dll_loaded: an address that is not in the table is
\* added while there is room, and its module patched unless it is Wine's.
New(bases) == bases \ patched
Noted(bases) ==
    {s \in SUBSET New(bases) :
        Cardinality(s) = IF Cardinality(New(bases)) + Cardinality(patched) <= PatchedSize
                         THEN Cardinality(New(bases)) ELSE PatchedSize - Cardinality(patched)}

ImportsInit ==
    /\ at = [b \in Bases |-> NoModule]
    /\ hooked = {}
    /\ patched = {}
    /\ enabled = FALSE
    /\ unloaded = {}

\* The loader maps a module; dll_loaded runs if it is registered.
Load(m, b) ==
    /\ at[b] = NoModule /\ m \notin Loaded
    /\ at' = [at EXCEPT ![b] = m]
    /\ IF enabled
       THEN /\ patched' \in {patched \cup s : s \in Noted({b})}
            /\ hooked' = hooked \cup (IF b \notin patched THEN {m} \ Builtin ELSE {})
       ELSE UNCHANGED <<hooked, patched>>
    /\ UNCHANGED <<enabled, unloaded>>

\* dll_loaded does nothing for the unloading of a module.
Unload(b) ==
    /\ at[b] # NoModule
    /\ at' = [at EXCEPT ![b] = NoModule]
    /\ hooked' = hooked \ {at[b]}
    /\ unloaded' = IF enabled THEN unloaded \cup {b} ELSE unloaded
    /\ UNCHANGED <<patched, enabled>>

\* upscalegl_init: the modules loaded already are patched.
Start ==
    /\ ~enabled
    /\ enabled' = TRUE
    /\ LET bases == {b \in Bases : at[b] # NoModule} IN
       /\ patched' \in {patched \cup s : s \in Noted(bases)}
       /\ hooked' = hooked \cup ({at[b] : b \in New(bases)} \ Builtin)
    /\ UNCHANGED <<at, unloaded>>

ImportsNext ==
    \/ \E m \in Modules, b \in Bases : Load(m, b)
    \/ \E b \in Bases : Unload(b)
    \/ Start

ImportsSpec == ImportsInit /\ [][ImportsNext]_importsVars

-----------------------------------------------------------------------------
\* The functions are replaced in the program's modules, those loaded already
\* and the ones it loads later as they load (upscalegl.c:20), and never in
\* Wine's own, also when patched[] is full. Not so for a module loaded where
\* one was unloaded: its address is in patched[] and it keeps its imports.
LoadedArePatched ==
    enabled => \A b \in Bases \ unloaded :
        at[b] # NoModule => (at[b] \in hooked <=> at[b] \notin Builtin)

\* What the program asked for is what it sees, through the functions its
\* modules call.
UpscaleSound == ScalingSound /\ LoadedArePatched

-----------------------------------------------------------------------------
\* A module is loaded once; hooks are in modules of the program that are
\* loaded; an address in patched[] has a module, or had one.
ImportsIInv ==
    /\ at \in [Bases -> Modules \cup {NoModule}]
    /\ \A b, c \in Bases : at[b] = at[c] /\ at[b] # NoModule => b = c
    /\ hooked \subseteq Loaded \ Builtin
    /\ patched \subseteq {b \in Bases : at[b] # NoModule} \cup unloaded
    /\ ~enabled => patched = {}
    /\ enabled \in BOOLEAN
    /\ LoadedArePatched
=============================================================================
