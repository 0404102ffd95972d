----------------------------- MODULE ModuleLoader -----------------------------
(***************************************************************************)
(* Imports: the resolver and the loader of modules (pkg/module), and what  *)
(* the compiler does with a module (compileImport, compiler.go).           *)
(*                                                                         *)
(* A loader is a record: the modules loaded, by resolved path (cache),     *)
(* where an import path was found (importCache), the paths whose loading   *)
(* is under way (loading), and the files that can be read at the moment.   *)
(* A module has its declarations as prototype objects, which live in the   *)
(* importing session's heap, and its blocks.                               *)
(***************************************************************************)
EXTENDS Compiler
LOCAL INSTANCE Parser
LOCAL INSTANCE SequencesExt

CONSTANT BuiltinModules  (* import path |-> source text *)

SDCardRoot == <<"/sdcard/picoceci/libs/">>
Extension  == <<".", "pc">>
NewLoader(files) == [cache |-> NoFields, importCache |-> NoFields, loading |-> {}, files |-> files]

\* Resolve: the path a module is cached under and its text; <<>> when there is
\* no such module.
ResolvePath(path, files) ==
  LET suffixed == IF IsSuffix(Extension, path) THEN path ELSE path \o Extension
      tried == IF IsPrefix(<<"/">>, path) THEN <<suffixed, path>> ELSE <<SDCardRoot \o path \o Extension>>
      there == SelectSeq(tried, LAMBDA p : p \in DOMAIN files)
  IN  IF path \in DOMAIN BuiltinModules
      THEN <<[at |-> <<"builtin:">> \o path, text |-> BuiltinModules[path]]>>
      ELSE IF there = <<>> THEN <<>> ELSE <<[at |-> there[1], text |-> files[there[1]]]>>

\* What the declarations of a module leave in its globals: an object without a
\* method, so one that does not even understand new.
Prototype == ObjectRecord(<<>>, NoFields, NoFields, NoFields, NoFields)

Loaded(err, mod, heap, loader) == [err |-> err, mod |-> mod, heap |-> heap, loader |-> loader]
NoModule == [globals |-> NoFields, blocks |-> <<>>]

RECURSIVE Load(_, _, _)

\* The declarations and nested imports of a module, in order.
Collect(statements, heap, loader) ==
  FoldLeft(LAMBDA acc, n :
    LET nested == Load(n.path, acc.heap, acc.loader) IN
    IF acc.err # "none" THEN acc
    ELSE CASE n.node \in {"Object", "Interface"} ->
                [acc EXCEPT !.heap = Append(@, Prototype),
                            !.mod.globals = Put(@, n.name, ObjectRef(Len(acc.heap) + 1))]
           [] n.node = "Import" ->
                [nested EXCEPT !.mod = [acc.mod EXCEPT !.globals = nested.mod.globals @@ @]]
           [] OTHER -> acc,
    Loaded("none", NoModule, heap, loader), statements)

\* A module is marked while it is read and compiled, and unmarked whatever
\* comes of that; only a module without an error is cached.
Unmark(at, loader) == [loader EXCEPT !.loading = @ \ {at}]
Abandon(err, at, r) == Loaded(err, NoModule, r.heap, Unmark(at, r.loader))

Settle(at, read, code) ==
  LET mod == [read.mod EXCEPT !.blocks = code.blocks] IN
  IF Broken(code) THEN Abandon(code.err, at, read)
  ELSE Loaded("none", mod, read.heap, [Unmark(at, read.loader) EXCEPT !.cache = Put(@, at, mod)])
LoadCode(at, statements, read) ==
  IF read.err # "none" THEN Abandon(read.err, at, read)
  ELSE Settle(at, read, Compile(statements, NewCompiler(NoFields, NoFields, <<>>, read.heap, FALSE)))
LoadProgram(at, program, heap, loader) ==
  LET marked == [loader EXCEPT !.loading = @ \cup {at}] IN
  LoadCode(at, program.statements,
           IF program.errors # <<>> THEN Loaded("parse", NoModule, heap, marked)
           ELSE Collect(program.statements, heap, marked))
LoadNew(found, heap, loader) == LoadProgram(found.at, ParseProgram(found.text), heap, loader)

Load(path, heap, loader) ==
  LET found == ResolvePath(path, loader.files)
      noted == [loader EXCEPT !.importCache = Put(@, path, found[1].at)]
      InCache(at) == at \in DOMAIN loader.cache
  IN CASE path \in DOMAIN loader.importCache /\ InCache(loader.importCache[path]) ->
            Loaded("none", loader.cache[loader.importCache[path]], heap, loader)
       [] OTHER ->
            IF found = <<>> THEN Loaded("not found", NoModule, heap, loader)
            ELSE IF InCache(found[1].at) THEN Loaded("none", loader.cache[found[1].at], heap, noted)
            ELSE IF found[1].at \in loader.loading THEN Loaded("circular", NoModule, heap, noted)
            ELSE LoadNew(found[1], heap, noted)

-----------------------------------------------------------------------------
\* compileImport: the prototypes become globals, the blocks are appended.
Imported(c, r) ==
  LET types == [name \in DOMAIN r.mod.globals |-> KindTypeName(r.mod.globals[name], [heap |-> r.heap])]
  IN  [loader |-> r.loader,
       c |-> IF r.err # "none" THEN [c EXCEPT !.err = r.err, !.heap = r.heap]
             ELSE [c EXCEPT !.globals = r.mod.globals @@ @, !.gtypes = types @@ @,
                            !.blocks = @ \o r.mod.blocks, !.heap = r.heap]]
CompileImport(n, c, loader) == Imported(c, Load(n.path, c.heap, loader))

\* Compile, with a loader.
CompileProgram(nodes, c0, loader) ==
  LET all == FoldLeft(LAMBDA acc, n :
               IF Broken(acc.c) THEN acc
               ELSE IF n.node = "Import" THEN CompileImport(n, acc.c, acc.loader)
               ELSE [acc EXCEPT !.c = CompileNode(n, @)],
               [c |-> c0, loader |-> loader], nodes)
  IN  [all EXCEPT !.c = Finish(@)]
=============================================================================
