---------------------------- MODULE SharedLoader -----------------------------
(***************************************************************************)
(* The loader of modules (pkg/module/loader.go) and the sessions that      *)
(* share it.  The firmware has one loader for the REPL on its serial line  *)
(* and the one on its network (target/esp32s3/main.go:115, 125); a command *)
(* line has one session.  Nothing locks the loader.                        *)
(*                                                                         *)
(* A Load that finds an import in the module it reads calls itself; a step *)
(* is what a Load does between one read of a file, one import, and the     *)
(* next, and the sessions take steps in any order.  What a module contains *)
(* besides imports is left out: it may fail to parse or to compile.        *)
(*                                                                         *)
(* What BlockLink has as well is named apart: a module may extend both.    *)
(***************************************************************************)
EXTENDS Integers, Sequences, FiniteSets

CONSTANTS
  Sessions,
  Names,   (* import paths                                                  *)
  Paths,   (* resolved paths                                                *)
  Found,   (* where a name may be found, as the card is at the moment       *)
  Texts    (* what files contain: the names a module imports, in order      *)

WellFormed == Found \in [Names -> SUBSET Paths] /\ Texts \subseteq Seq(Names)
ASSUME LoaderAssumption == WellFormed

VARIABLES
  text,        (* the file at each path                                     *)
  cached,      (* the domain of l.cache                                     *)
  globals,     (* Globals of each module in it: whose declarations it has   *)
  importCache, (* where each name was found last                            *)
  loading,     (* l.loading                                                 *)
  stack,       (* the modules each session is loading, the innermost last   *)
  call,        (* what each session's innermost Load is doing               *)
  made,        (* history: how many modules were made of each path          *)
  refused      (* history: the imports called circular                      *)

loaderVars == <<text, cached, globals, importCache, loading, stack, call, made, refused>>

Loads == [at : Paths, next : Nat \ {0}, globals : SUBSET Paths]
Resting == [phase : {"idle", "collects", "fails"}]
Looking == [phase : {"asks", "reads"}, name : Names]

LoaderTypeOK ==
  /\ text \in [Paths -> Texts]
  /\ cached \subseteq Paths /\ loading \subseteq Paths
  /\ globals \in [Paths -> SUBSET Paths]
  /\ importCache \in [Names -> SUBSET Paths]
  /\ stack \in [Sessions -> Seq(Loads)]
  /\ call \in [Sessions -> Resting \cup Looking]
  /\ made \in [Paths -> Nat]
  /\ refused \subseteq [at : Paths, alone : BOOLEAN]

LoaderInit ==
  /\ text \in [Paths -> Texts]
  /\ cached = {} /\ loading = {} /\ refused = {}
  /\ globals = [p \in Paths |-> {}]
  /\ importCache = [n \in Names |-> {}]
  /\ stack = [s \in Sessions |-> <<>>]
  /\ call = [s \in Sessions |-> [phase |-> "idle"]]
  /\ made = [p \in Paths |-> 0]

-----------------------------------------------------------------------------
Top(s) == stack[s][Len(stack[s])]
Below(s) == SubSeq(stack[s], 1, Len(stack[s]) - 1)

Goes(s, phase) == call' = [call EXCEPT ![s] = [phase |-> phase]]
Looks(s, phase, n) == call' = [call EXCEPT ![s] = [phase |-> phase, name |-> n]]

(* The globals of a nested module are merged (113-115).                     *)
Merged(load, brought) ==
  [at |-> load.at, next |-> load.next + 1, globals |-> load.globals \cup brought]

(* A Load answers a module, with the Loads around it in frames.             *)
Answers(s, frames, brought) ==
  IF frames = <<>>
  THEN stack' = [stack EXCEPT ![s] = <<>>] /\ Goes(s, "idle")
  ELSE /\ stack' = [stack EXCEPT ![s] =
                      [frames EXCEPT ![Len(frames)] = Merged(@, brought)]]
       /\ Goes(s, "collects")

-----------------------------------------------------------------------------
(* A command's import declaration (compileImport, evalImport).              *)
Import(s, n) ==
  /\ call[s].phase = "idle"
  /\ Looks(s, "asks", n)
  /\ UNCHANGED <<text, cached, globals, importCache, loading, stack, made, refused>>

(* The name was resolved before, and the module is in the cache (43-48).    *)
Hit(s) ==
  /\ call[s].phase = "asks"
  /\ \E p \in importCache[call[s].name] \cap cached : Answers(s, stack[s], globals[p])
  /\ UNCHANGED <<text, cached, globals, importCache, loading, made, refused>>

(* It is looked for on the card (51), while others go on.                   *)
Read(s) ==
  /\ call[s].phase = "asks" /\ importCache[call[s].name] \cap cached = {}
  /\ Looks(s, "reads", call[s].name)
  /\ UNCHANGED <<text, cached, globals, importCache, loading, stack, made, refused>>

NotFound(s) ==
  /\ call[s].phase = "reads"
  /\ Goes(s, "fails")
  /\ UNCHANGED <<text, cached, globals, importCache, loading, stack, made, refused>>

(* The file is read, and its name's path noted (57).                        *)
Resolved(s, p) ==
  /\ call[s].phase = "reads" /\ p \in Found[call[s].name]
  /\ importCache' = [importCache EXCEPT ![call[s].name] = {p}]

(* The module is in the cache, under another name, or by now (60-62).       *)
InCache(s, p) ==
  /\ Resolved(s, p) /\ p \in cached
  /\ Answers(s, stack[s], globals[p])
  /\ UNCHANGED <<text, cached, globals, loading, made, refused>>

(* A mutant of Circular: it is enough to have been met before.              *)
Circular_Mutant(p) == p \notin cached /\ \E n \in Names : p \in importCache[n]
Circular(p) == p \notin cached /\ p \in loading

(* It is being loaded (65-67).                                              *)
Refuse(s, p) ==
  /\ Resolved(s, p) /\ Circular(p)
  /\ refused' = refused \cup {[at |-> p, alone |-> \A t \in Sessions \ {s} : stack[t] = <<>>]}
  /\ Goes(s, "fails")
  /\ UNCHANGED <<text, cached, globals, loading, stack, made>>

(* A mutant of New: the cache is not looked at again after the read.        *)
New_Mutant(p) == p \notin loading
New(p) == p \notin cached /\ p \notin loading

(* Its loading begins (70).                                                 *)
Mark(s, p) ==
  /\ Resolved(s, p) /\ New(p)
  /\ loading' = loading \cup {p}
  /\ stack' = [stack EXCEPT ![s] = Append(@, [at |-> p, next |-> 1, globals |-> {p}])]
  /\ Goes(s, "collects")
  /\ UNCHANGED <<text, cached, globals, made, refused>>

(* The next import of the module being loaded (106-108).                    *)
Nested(s) ==
  /\ call[s].phase = "collects" /\ Top(s).next <= Len(text[Top(s).at])
  /\ Looks(s, "asks", text[Top(s).at][Top(s).next])
  /\ UNCHANGED <<text, cached, globals, importCache, loading, stack, made, refused>>

(* The module does not parse (79), or does not compile (122).               *)
Broken(s) ==
  /\ call[s].phase = "collects"
  /\ Top(s).next \in {1, Len(text[Top(s).at]) + 1}
  /\ Goes(s, "fails")
  /\ UNCHANGED <<text, cached, globals, importCache, loading, stack, made, refused>>

(* It is loaded: cached, and its mark removed (127-137, 72).                *)
Loaded(s) ==
  LET load == Top(s)
  IN  /\ call[s].phase = "collects" /\ load.next = Len(text[load.at]) + 1
      /\ cached' = cached \cup {load.at}
      /\ globals' = [globals EXCEPT ![load.at] = load.globals]
      /\ made' = [made EXCEPT ![load.at] = @ + 1]
      /\ loading' = loading \ {load.at}
      /\ Answers(s, Below(s), load.globals)
      /\ UNCHANGED <<text, importCache, refused>>

(* A mutant of Unwind: the mark is removed on the way out that succeeds.    *)
Unwind_Mutant(s) ==
  /\ call[s].phase = "fails"
  /\ IF stack[s] = <<>>
     THEN Goes(s, "idle") /\ UNCHANGED <<stack, loading>>
     ELSE /\ stack' = [stack EXCEPT ![s] = Below(s)]
          /\ UNCHANGED <<loading, call>>
  /\ UNCHANGED <<text, cached, globals, importCache, made, refused>>
(* A mutant of Unwind: an import that fails is tried again.                 *)
Unwind_Mutant2(s) ==
  /\ call[s].phase = "fails"
  /\ IF stack[s] = <<>>
     THEN Goes(s, "idle") /\ UNCHANGED <<stack, loading>>
     ELSE Goes(s, "collects") /\ UNCHANGED <<stack, loading>>
  /\ UNCHANGED <<text, cached, globals, importCache, made, refused>>
(* A failed Load removes its mark (72) and its caller fails (110).          *)
Unwind(s) ==
  /\ call[s].phase = "fails"
  /\ IF stack[s] = <<>>
     THEN Goes(s, "idle") /\ UNCHANGED <<stack, loading>>
     ELSE /\ loading' = loading \ {Top(s).at}
          /\ stack' = [stack EXCEPT ![s] = Below(s)]
          /\ UNCHANGED call
  /\ UNCHANGED <<text, cached, globals, importCache, made, refused>>

-----------------------------------------------------------------------------
Proceed(s) ==
  \/ Hit(s) \/ Read(s) \/ NotFound(s)
  \/ \E p \in Paths : InCache(s, p) \/ Refuse(s, p) \/ Mark(s, p)
  \/ Nested(s) \/ Broken(s) \/ Loaded(s) \/ Unwind(s)

LoaderNext == \E s \in Sessions : Proceed(s) \/ \E n \in Names : Import(s, n)

LoaderSpec == LoaderInit /\ [][LoaderNext]_loaderVars

(* Every goroutine that can run does, and a read of the card comes back.    *)
FairSpec == LoaderSpec /\ \A s \in Sessions : WF_loaderVars(Proceed(s))

-----------------------------------------------------------------------------
(* A path is marked as long as one session is loading it, and no longer:    *)
(* every way out of a Load, errors in it and under it included, removes the *)
(* mark it made and no other (loader.go:70-73).                             *)
MarksOwned ==
  /\ LoaderTypeOK
  /\ \A s \in Sessions : \A i \in 1 .. Len(stack[s]) : stack[s][i].at \in loading
  /\ \A p \in loading : \E s \in Sessions : \E i \in 1 .. Len(stack[s]) : stack[s][i].at = p
  /\ \A s, t \in Sessions : \A i \in 1 .. Len(stack[s]), j \in 1 .. Len(stack[t]) :
       stack[s][i].at = stack[t][j].at => s = t /\ i = j

(* "Module loaded only once even if imported from multiple files"           *)
(* (docs/IMPLEMENTATION_PLAN.md:481), under however many names and by       *)
(* however many sessions at once: all importers get the same objects.       *)
OneModule == \A p \in Paths : made[p] = IF p \in cached THEN 1 ELSE 0

(* A module in the cache has the declarations of all that it imports.       *)
ModuleWhole ==
  \A p \in cached : \A i \in 1 .. Len(text[p]) :
    \E q \in cached \cap Found[text[p][i]] : globals[q] \subseteq globals[p]

(* So whoever imports a module gets the same, and all of it.                *)
CacheSound == OneModule /\ ModuleWhole

(* p imports itself, by way of others: it is in every set of modules that   *)
(* has what p imports and what its members import.                          *)
Imports(p) == UNION {Found[text[p][i]] : i \in 1 .. Len(text[p])}
OnCycle(p) ==
  \A closed \in SUBSET Paths :
    Imports(p) \subseteq closed /\ (\A q \in closed : Imports(q) \subseteq closed)
      => p \in closed

(* An import that is refused as circular while no other session is loading  *)
(* is (loader.go:64-67; LANGUAGE_SPEC.md:806, "Circular imports are         *)
(* detected").                                                              *)
CyclesReal == \A r \in refused : r.alone => OnCycle(r.at)

(* An import comes to its end, whatever imports what, and whatever fails.   *)
ImportsEnd ==
  \A s \in Sessions : call[s].phase = "asks" ~> call[s].phase = "idle"
=============================================================================
