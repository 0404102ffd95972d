-------------------------------- MODULE Language --------------------------------
(***************************************************************************)
(* Two sessions, one command at a time: the REPL of the virtual machine    *)
(* (execSourceVM, cmd/picoceci/main.go) and the tree-walking interpreter   *)
(* (Interpreter.Eval and evalSourceWithIO).  Both are given the same       *)
(* commands, each parsed from its text, so that their answers can be       *)
(* compared; between commands the card with the module files may be put in *)
(* or taken out.                                                           *)
(***************************************************************************)
EXTENDS ModuleLoader
LOCAL INSTANCE SequencesExt

CONSTANTS Programs,      (* name |-> source text of a command                         *)
          Prelude,       (* sequence of the names of the commands a session starts with *)
          Card,          (* the files on the card: path |-> source text               *)
          MaxCommands,   (* bound: commands of a session, the prelude not counted     *)
          Fuel,          (* bound: calls of blocks and methods in one command         *)
          MaxStackSize, MaxFrameCount, StepsLog

P  == INSTANCE Parser
VM == INSTANCE Machine
TW == INSTANCE TreeWalker

VARIABLES vm,        (* what execSourceVM keeps: globals, types, blocks; heap and loader *)
          tree,      (* the interpreter's state                                          *)
          card,      (* is the card in?                                                  *)
          history    (* the commands and their answers                                   *)
vars == <<vm, tree, card, history>>

Parsed == [name \in DOMAIN Programs |-> P!ParseProgram(Programs[name])]

-----------------------------------------------------------------------------
\* execSourceVM: compile with the session's globals, types and blocks, run in
\* a new VM, and keep what the program made of them if nothing failed.  What
\* it did to objects that were there before is kept in any case.
CompilerFor(s) == NewCompiler(s.globals, s.gtypes, s.blocks, s.heap, TRUE)

\* Bug: the block table starts from what it was again.
Kept_Mutant(s, m, blocks) == [s EXCEPT !.globals = m.globals, !.gtypes = m.gtypes]

Kept(s, m, blocks) == [s EXCEPT !.globals = m.globals, !.gtypes = m.gtypes, !.blocks = blocks]

Outcome(r, blocks, s) ==
  LET ran == [s EXCEPT !.heap = r.st.heap]
  IN  [answer |-> Answer(r), sp |-> r.st.sp, raised |-> r.st.raised,
       s |-> IF Failed(r) THEN ran ELSE Kept(ran, r.st, blocks)]
Refusal(err, s) == [answer |-> [error |-> err], sp |-> 0, raised |-> 0, s |-> s]

RunCompiled(c, s) ==
  IF Broken(c) THEN Refusal("compile", s)
  ELSE Outcome(VM!RunChunk(c.code, [i \in DOMAIN Locals(c) |-> Locals(c)[i].type],
                           VM!NewVM(c.globals, c.gtypes, c.blocks, c.heap, Fuel)),
               c.blocks, s)

Run(compiled, s) == RunCompiled(compiled.c, [s EXCEPT !.heap = compiled.c.heap, !.loader = compiled.loader])

ExecSourceVM(program, s) ==
  IF program.errors # <<>> THEN Refusal("parse", s)
  ELSE Run(CompileProgram(program.statements, CompilerFor(s), s.loader), s)

\* evalImport: the prototypes are bound, whatever was bound to their names.
BindModule(r, st) ==
  LET s == [st EXCEPT !.heap = r.heap, !.loader = r.loader]
  IN  IF r.err # "none" THEN Fail("IOError", s)
      ELSE Ok(Nil, [s EXCEPT !.envs[TW!Globals].vars = r.mod.globals @@ @])
EvalImport(n, st) == BindModule(Load(n.path, st.heap, st.loader), st)

\* Interpreter.Eval: nothing is undone by a failure.
Eval(nodes, st) ==
  FoldLeft(LAMBDA acc, n :
             IF Failed(acc) THEN acc
             ELSE IF n.node = "Import" THEN EvalImport(n, acc.st)
             ELSE TW!EvalTop(n, acc.st),
           Ok(Nil, st), nodes)
Answered(r) == [answer |-> Answer(r), st |-> r.st]
EvalProgram(program, st) ==
  IF program.errors # <<>> THEN [answer |-> [error |-> "parse"], st |-> st]
  ELSE Answered(Eval(program.statements, [st EXCEPT !.fuel = Fuel, !.raised = 0]))

-----------------------------------------------------------------------------
NewSession(files) == [globals |-> NoFields, gtypes |-> NoFields, blocks |-> <<>>, heap |-> <<>>,
                      loader |-> NewLoader(files)]
NewInterpreter(files) == [envs |-> <<TW!Env(0, Nil)>>, heap |-> <<>>, templates |-> NoFields,
                          loader |-> NewLoader(files), fuel |-> Fuel, raised |-> 0]

\* What the two made of a command.
Record(name, v, t) ==
  /\ vm' = v.s
  /\ tree' = t.st
  /\ history' = Append(history, [command |-> name, vm |-> v.answer, tree |-> t.answer,
                                 sp |-> v.sp, raised |-> v.raised])
Both(name, program) == Record(name, ExecSourceVM(program, vm), EvalProgram(program, tree))

Init == /\ card = TRUE
        /\ vm = NewSession(Card)
        /\ tree = NewInterpreter(Card)
        /\ history = <<>>

\* The commands of the prelude come first, in order, then any others.
Starting == Len(history) < Len(Prelude)
More     == ~Starting /\ Len(history) < Len(Prelude) + MaxCommands

Command(name) ==
  /\ IF Starting THEN name = Prelude[Len(history) + 1] ELSE More /\ name \notin ToSet(Prelude)
  /\ Both(name, Parsed[name])
  /\ UNCHANGED card

\* The card is put in or taken out.
Swap == /\ More
        /\ card' = ~card
        /\ LET files == IF card' THEN Card ELSE NoFields
           IN  vm' = [vm EXCEPT !.loader.files = files] /\ tree' = [tree EXCEPT !.loader.files = files]
        /\ UNCHANGED history

Next == (\E name \in DOMAIN Programs : Command(name)) \/ Swap
Spec == Init /\ [][Next]_vars
=============================================================================
