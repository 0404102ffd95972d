------------------------------ MODULE Agreement ------------------------------
(***************************************************************************)
(* What the two sessions of Language have in common, and what keeps each   *)
(* of them in order.                                                       *)
(*                                                                         *)
(* The virtual machine and the tree-walker differ on purpose or by known   *)
(* gaps in a number of ways; Portable says of a command's syntax that it   *)
(* stays clear of all of them.  For sessions of such commands they have to *)
(* agree.                                                                  *)
(***************************************************************************)
EXTENDS Language
LOCAL INSTANCE SequencesExt

-----------------------------------------------------------------------------
\* Syntax trees.

Children(n) ==
  CASE n.node = "Array"      -> n.elements
    [] n.node = "AnonObject" -> [i \in DOMAIN n.slots |-> n.slots[i].value]
    [] n.node = "Block"      -> n.body
    [] n.node \in {"Let", "Assign", "Return"} -> <<n.value>>
    [] n.node = "Message"    -> <<n.receiver>> \o n.args
    [] n.node = "Cascade"    -> <<n.receiver>> \o n.messages
    [] n.node = "Object"     -> FlattenSeq([i \in DOMAIN n.methods |-> n.methods[i].body])
    [] OTHER                 -> <<>>
RECURSIVE Nodes(_)
Nodes(n) == LET cs == Children(n) IN <<n>> \o FlattenSeq([i \in DOMAIN cs |-> Nodes(cs[i])])

Has(n, Is(_)) == \E k \in ToSet(Nodes(n)) : Is(k)
Every(n, Is(_)) == ~Has(n, LAMBDA k : ~Is(k))
NamesOf(n, kinds) == {k.name : k \in {j \in ToSet(Nodes(n)) : j.node \in kinds}}
Mentioned(n) == NamesOf(n, {"Ident", "Assign"})
DeclaredIn(n) ==
  UNION {ToSet(b.params) \cup ToSet(b.locals) : b \in {k \in ToSet(Nodes(n)) : k.node = "Block"}}
    \cup NamesOf(n, {"Let"})

\* The messages that call their blocks before they answer and keep none, with
\* the number of arguments each gives its last block.
Calls == [sel \in {<<"value">>, <<"ifTrue", ":">>, <<"ifFalse", ":">>, <<"ifTrue", ":", "ifFalse", ":">>,
                   <<"ifFalse", ":", "ifTrue", ":">>, <<"whileTrue", ":">>, <<"whileFalse", ":">>,
                   <<"timesRepeat", ":">>, <<"ensure", ":">>, <<"on", ":", "do", ":">>, <<"do", ":">>, <<"collect", ":">>,
                   <<"select", ":">>, <<"detect", ":">>, <<"to", ":", "do", ":">>, <<"value", ":">>,
                   <<"inject", ":", "into", ":">>, <<"withIndexDo", ":">>, <<"value", ":", "value", ":">>} |->
            CASE sel \in {<<"on", ":", "do", ":">>, <<"do", ":">>, <<"collect", ":">>, <<"select", ":">>,
                          <<"detect", ":">>, <<"to", ":", "do", ":">>, <<"value", ":">>} -> 1
              [] sel \in {<<"inject", ":", "into", ":">>, <<"withIndexDo", ":">>, <<"value", ":", "value", ":">>} -> 2
              [] OTHER -> 0]
Valued == {<<"value">>, <<"value", ":">>, <<"value", ":", "value", ":">>}

\* A block that gets as many arguments as it has parameters; valueWithArguments:
\* takes them from an array, which need not be as long.
GivenAll(n) ==
  n.node = "Message" =>
    /\ n.selector # <<"valueWithArguments", ":">>
    /\ n.selector \in DOMAIN Calls =>
         LET blk == IF n.selector \in Valued THEN n.receiver ELSE n.args[Len(n.args)]
         IN  blk.node = "Block" => Len(blk.params) = Calls[n.selector]

\* Under inner: the variables of the blocks and the method around; in place: is
\* the block of this node called where it stands?
RECURSIVE Contained(_, _, _, _)
ContainedBlock(n, free, outer, inMethod, inPlace) ==
  /\ ~inPlace => free \cap outer = {}
  /\ inMethod => free \subseteq outer /\ ~Has(n, LAMBDA k : k.node \in {"Self", "Super"})
  /\ Len(n.params) + Len(n.locals) <= ByteLimit
AllContained(ns, inner, inMethod, called) ==
  \A i \in DOMAIN ns : Contained(ns[i], inner, inMethod, called)
Contained(n, outer, inMethod, inPlace) ==
  LET block == n.node = "Block" IN
  /\ block => ContainedBlock(n, Mentioned(n) \ DeclaredIn(n), outer, inMethod, inPlace)
  /\ AllContained(Children(n), IF block THEN outer \cup DeclaredIn(n) ELSE outer, inMethod,
                  n.node = "Message" /\ n.selector \in DOMAIN Calls)

GoodMethod(m) ==
  /\ m.body # <<>> /\ m.body[Len(m.body)].node = "Return"
  /\ Len(m.params) + Len(m.locals) <= ByteLimit
  /\ \A i \in DOMAIN m.body : Contained(m.body[i], ToSet(m.params) \cup ToSet(m.locals), TRUE, FALSE)

Declares(n) == CASE n.node = "VarDecl" -> ToSet(n.names)
                 [] n.node \in {"Let", "Object", "Interface"} -> {n.name}
                 [] OTHER -> {}
Declarations == {"Object", "Interface", "Import"}

\* A command free of what the two treat differently: a ^ outside blocks and
\* methods; a declaration as the last statement (its value is nil for one and
\* the value before it for the other); a name used before its declaration, or
\* declared before an import; an anonymous object; a block that outlives the variables it captures, or that
\* reads self or a slot; a block given more or fewer arguments than it takes;
\* more variables than a byte numbers; a method that does not end in ^.
Portable(program) ==
  LET ns == program.statements IN
  /\ program.errors = <<>>
  /\ ns # <<>> => ns[Len(ns)].node \notin Declarations
  /\ \A i \in DOMAIN ns :
       /\ ns[i].node # "Return"
       /\ Every(ns[i], GivenAll)
       /\ ~Has(ns[i], LAMBDA k : k.node = "AnonObject")
       /\ ns[i].node = "Let" => Declares(ns[i]) \cap Mentioned(ns[i]) = {}
       /\ \A j \in 1..(i - 1) : Declares(ns[i]) \cap (Mentioned(ns[j]) \cup Declares(ns[j])) = {}
       /\ ns[i].node = "Import" => \A j \in 1..(i - 1) : Declares(ns[j]) = {}
       /\ IF ns[i].node = "Object" THEN \A k \in DOMAIN ns[i].methods : GoodMethod(ns[i].methods[k])
          ELSE Contained(ns[i], {}, FALSE, FALSE)

PortableCommand == [name \in DOMAIN Programs |-> Portable(Parsed[name])]

-----------------------------------------------------------------------------
\* Sessions.

IsError(answer) == "error" \in DOMAIN answer
Last1 == history[Len(history)]

\* Nothing has driven the two apart: an error undoes the bindings of one and
\* not of the other, and one that was caught leaves frames behind in the VM.
Harmless(e) == PortableCommand[e.command] /\ ~IsError(e.vm) /\ ~IsError(e.tree) /\ e.raised = 0
Together == \A i \in 1..(Len(history) - 1) : Harmless(history[i])
Comparable(e) == PortableCommand[e.command] /\ (e.raised > 0 => IsError(e.vm) /\ IsError(e.tree))

\* A name bound nowhere is nil for the VM, or the command does not compile.
Unbound(e) == IsError(e.tree) /\ e.tree.error = "UndefinedVariable"

Refused(e) == IsError(e.vm) /\ IsError(e.tree) /\ e.vm.error = "compile"

\* In a session of portable commands without an error both machines answer the
\* next portable command with the same value, or with the same error.
SameAnswers ==
  history # <<>> /\ Together /\ Comparable(Last1) =>
    Last1.vm = Last1.tree \/ Refused(Last1) \/ Unbound(Last1)

\* A value with all that can be reached from it, to a depth.
RECURSIVE Image(_, _, _)
Image(v, st, depth) ==
  CASE v.kind = "Array" /\ depth > 0 ->
         [array |-> [i \in DOMAIN Items(v, st) |-> Image(Items(v, st)[i], st, depth - 1)]]
    [] v.kind = "Object" /\ depth > 0 ->
         LET o == Object(v, st)
         IN  [type |-> o.type, understands |-> DOMAIN o.methods,
              slots |-> [s \in DOMAIN o.slots |-> Image(o.slots[s], st, depth - 1)]]
    [] v.kind = "Block" -> [kind |-> "Block"]
    [] OTHER -> IF v.kind \in {"Array", "Object"} THEN [kind |-> v.kind] ELSE v

\* Such a session also leaves both with the same global variables, holding the
\* same values, down to the slots of objects and the items of arrays.
SameBindings ==
  history # <<>> /\ Together /\ Harmless(Last1) =>
    LET vars1 == tree.envs[1].vars IN
    /\ DOMAIN vars1 = DOMAIN vm.globals
    /\ \A name \in DOMAIN vars1 : Image(vars1[name], tree, 3) = Image(vm.globals[name], vm, 3)

\* Whatever the commands were, and whether they failed or not, a variable and a
\* slot hold a value of their declared type; a name the tree-walker imported
\* over a variable is not checked by it.
SlotsHold(heap) ==
  \A r \in DOMAIN heap : "slots" \in DOMAIN heap[r] =>
    \A s \in DOMAIN heap[r].slots :
      s \in DOMAIN heap[r].slotTypes => TypeMatches(heap[r].slotTypes[s], heap[r].slots[s], [heap |-> heap])
IsPrototype(v, heap) == v.kind = "Object" /\ heap[v.ref] = Prototype
TypesHold ==
  /\ SlotsHold(vm.heap) /\ SlotsHold(tree.heap)
  /\ \A name \in DOMAIN vm.globals : TypeMatches(vm.gtypes[name], vm.globals[name], vm)
  /\ \A name \in DOMAIN tree.envs[1].types :
       TypeMatches(tree.envs[1].types[name], tree.envs[1].vars[name], tree)
         \/ IsPrototype(tree.envs[1].vars[name], tree.heap)

\* Compiled code takes from the stack what it puts there: after a command no
\* error of which was caught, one value is left of every statement but the last.
\* And no session of portable commands brings the machine down, whatever errors
\* they make and catch: its stack runs neither over nor under, and no builtin is
\* given a slot nothing was stored in.  (A closure that has outlived its
\* variables does that: escape, then stale.)
Leaves(n) == n.node \notin Declarations
LeftBehind(ns, sp) ==
  (\A i \in DOMAIN ns : ns[i].node # "Return") => sp = (IF ns = <<>> THEN 0 ELSE Len(ns) - 1)
OperandsBalanced ==
  history # <<>> =>
    IF ~IsError(Last1.vm)
    THEN Last1.raised = 0 => LeftBehind(SelectSeq(Parsed[Last1.command].statements, Leaves), Last1.sp)
    ELSE (\A i \in DOMAIN history : PortableCommand[history[i].command]) =>
           Last1.vm.error # "panic"

-----------------------------------------------------------------------------
\* The compiled blocks a session can still run: those of the methods and of the
\* blocks in variables, slots and arrays.
Values(s) ==
  {s.globals[name] : name \in DOMAIN s.globals}
    \cup UNION {IF "items" \in DOMAIN s.heap[r] THEN ToSet(s.heap[r].items)
                ELSE {s.heap[r].slots[k] : k \in DOMAIN s.heap[r].slots} : r \in DOMAIN s.heap}
Code(s) ==
  {v.closure.block.code : v \in {x \in Values(s) : x.kind = "Block"}}
    \cup UNION {LET ms == s.heap[r].methods
                IN  {ms[sel].block.code : sel \in {x \in DOMAIN ms : ms[x].native = "none"}} :
                r \in {x \in DOMAIN s.heap : "methods" \in DOMAIN s.heap[x]}}
\* While no command has failed, every block literal in them is in the table: a
\* closure kept in a variable, a slot or an array can still make its inner blocks.
BlocksLinked ==
  (\A i \in DOMAIN history : ~IsError(history[i].vm)) =>
    \A code \in Code(vm) \cup {vm.blocks[b].code : b \in DOMAIN vm.blocks} :
      \A i \in DOMAIN code : code[i].op = "Closure" => code[i].block < Len(vm.blocks)

\* Between commands no module is being loaded, whatever went wrong with the
\* last import, and with a module its imports, and what they declare, are loaded.
Imports(nodes) == {nodes[i].path : i \in {j \in DOMAIN nodes : nodes[j].node = "Import"}}
ImportsOf(at) == Imports(P!ParseProgram(Card[at]).statements)
Settled(loader) ==
  /\ loader.loading = {}
  /\ \A at \in DOMAIN loader.cache \cap DOMAIN Card : \A path \in ImportsOf(at) :
       /\ path \in DOMAIN loader.importCache
       /\ loader.importCache[path] \in DOMAIN loader.cache
       /\ DOMAIN loader.cache[loader.importCache[path]].globals \subseteq DOMAIN loader.cache[at].globals
LoadersSettled == \A loader \in {vm.loader, tree.loader} : Settled(loader)

\* So a command leaves the next one nothing to trip over, in code or in modules.
NothingLeftOver == BlocksLinked /\ LoadersSettled
=============================================================================
