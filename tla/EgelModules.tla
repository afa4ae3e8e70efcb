------------------------------ MODULE EgelModules ------------------------------
(***************************************************************************)
(* The module manager of src/src/modules.hpp, as an interactive session    *)
(* uses it: every import statement calls load, which collects the          *)
(* transitive closure of imports, compiles it phase by phase, evaluates    *)
(* its val declarations and moves it to the loaded modules.  An error      *)
(* leaves load wherever it is; the session prints it and goes on, and the  *)
(* user may edit the files.                                                *)
(*                                                                         *)
(* A path stands for what search finds for a file name.  Two names of one  *)
(* file give two paths with equal contents, since path_absolute does not   *)
(* normalise.  The modules built into the interpreter are loaded before    *)
(* the model starts, and the names they declare are left out.              *)
(***************************************************************************)
EXTENDS Sequences, SequencesExt, Naturals

CONSTANTS
    Paths,       \* where module files may be
    Names,       \* global names
    Absent,      \* contents of a file that is not there, or of no known type
    Disks,       \* what the files may contain when the session starts
    Editable     \* those of them, one file apart, the user may go between

Contents ==
    [good : BOOLEAN,            \* it is syntactically correct
     dynamic : BOOLEAN,         \* a compiled module (.ego)
     imports : Seq(Paths),
     defs : SUBSET Names,       \* the names it declares
     uses : SUBSET Names,       \* the names its code refers to
     vals : Seq(Names)]         \* its val declarations

\* What a source file contains after _source = "".
Empty == [good |-> TRUE, dynamic |-> FALSE, imports |-> <<>>, defs |-> {},
          uses |-> {}, vals |-> <<>>]

ASSUME ModulesAssumption ==
    /\ Absent \notin Contents
    /\ Disks \subseteq [Paths -> Contents \cup {Absent}]
    /\ Editable \subseteq [Paths -> Contents \cup {Absent}]

VARIABLES
    disk,        \* the files
    modules,     \* _modules
    loading,     \* _loading
    source,      \* _source of each module
    ast,         \* _ast of each module, as the contents it was parsed from
    env,         \* the names declared in _environment
    code,        \* the names the machine has code for
    evaluated,   \* the vals that were evaluated
    phase,       \* where load is
    n,           \* the index of its loop over _loading
    pending,     \* the rest of its inner loop over imports or values
    root,        \* the path last asked for
    status,      \* how that load ended
    failed,      \* some load has failed
    undefined    \* _loading[0] of an empty vector did harm

vars == <<disk, modules, loading, source, ast, env, code, evaluated,
          phase, n, pending, root, status, failed, undefined>>

tables == <<env, code, evaluated>>
request == <<root, status, failed, undefined>>

Phases == {"idle", "parse", "preload", "declare", "semantical", "codegen",
           "values", "eval"}

Loaded == Range(modules) \cup Range(loading)

TypeOK ==
    /\ disk \in [Paths -> Contents \cup {Absent}]
    /\ modules \in Seq(Paths)
    /\ loading \in Seq(Paths)
    /\ source \in [Paths -> Contents]
    /\ ast \in [Paths -> Contents]
    /\ env \subseteq Names
    /\ code \subseteq Names
    /\ evaluated \subseteq Names
    /\ phase \in Phases
    /\ n \in Nat
    /\ pending \in Seq(Paths) \cup Seq(Names)
    /\ root \in Paths \cup {Absent}
    /\ status \in {"none", "loading", "ok", "error"}
    /\ failed \in BOOLEAN
    /\ undefined \in BOOLEAN

Init ==
    /\ disk \in Disks
    /\ modules = <<>>
    /\ loading = <<>>
    /\ source = [p \in Paths |-> Empty]
    /\ ast = [p \in Paths |-> Empty]
    /\ env = {}
    /\ code = {}
    /\ evaluated = {}
    /\ phase = "idle"
    /\ n = 1
    /\ pending = <<>>
    /\ root = Absent
    /\ status = "none"
    /\ failed = FALSE
    /\ undefined = FALSE

-----------------------------------------------------------------------------
\* The user edits a file between two imports.
Edit(p) ==
    /\ phase = "idle"
    /\ disk \in Editable
    /\ disk' \in {d \in Editable : d = [disk EXCEPT ![p] = d[p]]}
    /\ UNCHANGED <<modules, loading, source, ast, tables, phase, n, pending, request>>

\* An error is thrown: load is left as it is, flush is never reached.
Throw ==
    /\ phase' = "idle"
    /\ pending' = <<>>
    /\ status' = "error"
    /\ failed' = TRUE
    /\ UNCHANGED <<n, undefined>>

\* Fault: already_loaded forgets the modules that are being loaded.
AlreadyLoadedInModules(q) == q \in Range(modules)

AlreadyLoaded(q) == q \in Range(modules) \/ q \in Range(loading)

\* The part of preload after the file was found.
Preload(q) ==
    IF AlreadyLoaded(q)
    THEN UNCHANGED <<loading, source, ast>>
    ELSE /\ loading' = Append(loading, q)
         /\ source' = [source EXCEPT ![q] = disk[q]]
         /\ ast' = [ast EXCEPT ![q] = IF disk[q].dynamic THEN disk[q] ELSE Empty]

\* ModuleManager::load, up to the transitive closure: _loading[0] is there
\* unless the module was loaded before and nothing is left in _loading.  The
\* vector's buffer then holds what flush left behind, which most builds get
\* away with.
Load(p) ==
    /\ phase = "idle" /\ ~undefined
    /\ root' = p
    /\ IF disk[p] = Absent
       THEN Throw /\ UNCHANGED <<loading, source, ast>>
       ELSE /\ Preload(p)
            /\ phase' = "parse"
            /\ status' = "loading"
            /\ n' = 1
            /\ \/ UNCHANGED undefined
               \/ loading' = <<>> /\ undefined' = TRUE
            /\ UNCHANGED <<pending, failed>>
    /\ UNCHANGED <<disk, modules, tables>>

\* syntactical and imports of the next module of the closure
Parse ==
    /\ phase = "parse" /\ n <= Len(loading)
    /\ LET p == loading[n] IN
          IF ~source[p].good
          THEN Throw /\ UNCHANGED <<source, ast>>
          ELSE /\ ast' = [ast EXCEPT ![p] = IF @.dynamic THEN @ ELSE source[p]]
               /\ source' = [source EXCEPT ![p] = IF ast[p].dynamic THEN @ ELSE Empty]
               /\ pending' = ast'[p].imports
               /\ phase' = "preload"
               /\ UNCHANGED <<n, status, failed, undefined>>
    /\ UNCHANGED <<disk, modules, loading, tables, root>>

\* Fault: an import that is not found is skipped.
PreloadNextSkips ==
    /\ phase = "preload" /\ pending # <<>>
    /\ IF disk[Head(pending)] = Absent
       THEN UNCHANGED <<loading, source, ast>>
       ELSE Preload(Head(pending))
    /\ pending' = Tail(pending)
    /\ UNCHANGED <<disk, modules, tables, phase, n, request>>

\* preload of the next import of the module
PreloadNext ==
    /\ phase = "preload" /\ pending # <<>>
    /\ IF disk[Head(pending)] = Absent
       THEN Throw /\ UNCHANGED <<loading, source, ast>>
       ELSE /\ Preload(Head(pending))
            /\ pending' = Tail(pending)
            /\ UNCHANGED <<phase, n, status, failed, undefined>>
    /\ UNCHANGED <<disk, modules, tables, root>>

\* Fault: the loop over _loading starts again with every module.
PreloadDoneRestarts ==
    /\ phase = "preload" /\ pending = <<>>
    /\ phase' = "parse"
    /\ n' = 1
    /\ UNCHANGED <<disk, modules, loading, source, ast, tables, pending, request>>

PreloadDone ==
    /\ phase = "preload" /\ pending = <<>>
    /\ phase' = "parse"
    /\ n' = n + 1
    /\ UNCHANGED <<disk, modules, loading, source, ast, tables, pending, request>>

\* Fault: the modules are processed in the order they were found.
ReverseForgotten ==
    /\ phase = "parse" /\ n > Len(loading)
    /\ phase' = "declare"
    /\ n' = 1
    /\ UNCHANGED <<disk, modules, loading, source, ast, tables, pending, request>>

\* transitive_closure returns; reverse
ReverseLoading ==
    /\ phase = "parse" /\ n > Len(loading)
    /\ loading' = Reverse(loading)
    /\ phase' = "declare"
    /\ n' = 1
    /\ UNCHANGED <<disk, modules, source, ast, tables, pending, request>>

\* declarations: a redeclaration throws after some names were declared.
Declare ==
    /\ phase = "declare" /\ n <= Len(loading)
    /\ LET defs == ast[loading[n]].defs IN
          IF defs \cap env = {}
          THEN /\ env' = env \cup defs
               /\ n' = n + 1
               /\ UNCHANGED <<phase, pending, status, failed, undefined>>
          ELSE /\ \E declared \in SUBSET (defs \ env) : env' = env \cup declared
               /\ Throw
    /\ UNCHANGED <<disk, modules, loading, source, ast, code, evaluated, root>>

\* Fault: names that have no binding pass.
SemanticalLax ==
    /\ phase = "semantical" /\ n <= Len(loading)
    /\ n' = n + 1
    /\ UNCHANGED <<disk, modules, loading, source, ast, tables, phase, pending, request>>

\* semantical: every name must have a binding
Semantical ==
    /\ phase = "semantical" /\ n <= Len(loading)
    /\ IF ast[loading[n]].uses \subseteq env
       THEN n' = n + 1 /\ UNCHANGED <<phase, pending, status, failed, undefined>>
       ELSE Throw
    /\ UNCHANGED <<disk, modules, loading, source, ast, tables, root>>

\* desugar, datagen, lift, codegen and jit
Codegen ==
    /\ phase = "codegen" /\ n <= Len(loading)
    /\ code' = code \cup ast[loading[n]].defs
    /\ n' = n + 1
    /\ UNCHANGED <<disk, modules, loading, source, ast, env, evaluated,
                   phase, pending, request>>

Following == [declare |-> "semantical", semantical |-> "codegen", codegen |-> "values"]

NextPhase ==
    /\ phase \in DOMAIN Following /\ n > Len(loading)
    /\ phase' = Following[phase]
    /\ n' = 1
    /\ UNCHANGED <<disk, modules, loading, source, ast, tables, pending, request>>

Values ==
    /\ phase = "values" /\ n <= Len(loading)
    /\ pending' = ast[loading[n]].vals
    /\ phase' = "eval"
    /\ UNCHANGED <<disk, modules, loading, source, ast, tables, n, request>>

\* Eval::eval_value; its result, or its exception, becomes the value.
EvalValue ==
    /\ phase = "eval" /\ pending # <<>>
    /\ evaluated' = evaluated \cup {Head(pending)}
    /\ pending' = Tail(pending)
    /\ UNCHANGED <<disk, modules, loading, source, ast, env, code, phase, n, request>>

EvalDone ==
    /\ phase = "eval" /\ pending = <<>>
    /\ phase' = "values"
    /\ n' = n + 1
    /\ UNCHANGED <<disk, modules, loading, source, ast, tables, pending, request>>

\* flush
Flush ==
    /\ phase = "values" /\ n > Len(loading)
    /\ modules' = modules \o loading
    /\ loading' = <<>>
    /\ phase' = "idle"
    /\ status' = "ok"
    /\ UNCHANGED <<disk, source, ast, tables, n, pending, root, failed, undefined>>

Working ==
    /\ ~undefined
    /\ \/ Parse \/ PreloadNext \/ PreloadDone \/ ReverseLoading
       \/ Declare \/ Semantical \/ Codegen \/ NextPhase
       \/ Values \/ EvalValue \/ EvalDone \/ Flush

Next ==
    \/ \E p \in Paths : Load(p) \/ Edit(p)
    \/ Working

Spec == Init /\ [][Next]_vars

\* load is a sequential program: it runs until it ends.
FairSpec == Spec /\ WF_vars(Working)
-----------------------------------------------------------------------------
(* Properties.                                                             *)

\* already_loaded: no module is loaded twice, whatever imports what, which
\* loads fail where and what is edited between them.
LoadedOnce == IsInjective(modules \o loading)

\* A loaded module has all its imports loaded, even after failures.
ImportsLoaded ==
    \A i \in 1..Len(modules) :
        Range(ast[modules[i]].imports) \subseteq Range(modules)

\* As long as no load failed, whenever code may run it finds the code of
\* every name it refers to.
CodeBehindBindings ==
    ~failed /\ phase \in {"idle", "values", "eval"} =>
        \A p \in Loaded : ast[p].uses \subseteq code

\* The values of a module are evaluated before those of some module that
\* imports it: the module asked for comes last.
ImportersLast ==
    ~failed /\ phase \in {"values", "eval"} =>
        \A i \in 1..(Len(loading) - 1) :
            \E j \in (i + 1)..Len(loading) :
                loading[i] \in Range(ast[loading[j]].imports)

\* Imports may be cyclic: a load still ends.
LoadEnds == phase # "idle" ~> phase = "idle" \/ undefined

\* `implements incremental loading for interactive mode' (modules.hpp:849):
\* an import that succeeds has defined what the module declares.
ImportDefines ==
    status = "ok" => disk[root] # Absent /\ disk[root].defs \subseteq code

=============================================================================
