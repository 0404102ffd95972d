------------------------------ MODULE BlockLink ------------------------------
(***************************************************************************)
(* Which block an OpClosure instruction makes: the block tables of the     *)
(* compiler (pkg/bytecode/compiler.go) and of VMs (pkg/bytecode/vm.go),    *)
(* and how the REPLs (cmd/picoceci/main.go, target/esp32s3/main.go) carry  *)
(* them from one command to the next.                                      *)
(*                                                                         *)
(* An instruction names its block by an index into the table of the VM     *)
(* that executes it.  A command is compiled onto the session's table and   *)
(* run on a VM of its own; a file (File runContents:) is compiled onto an  *)
(* empty table, whose blocks are appended to those of the VM that runs it  *)
(* and whose indices are moved by as much.  Code of both outlives its run, *)
(* in global variables, and is executed by later commands and files.       *)
(*                                                                         *)
(* Every command and file is the same program: an object with a method     *)
(* that has a block ("argument") in it, then a block ("outer") with a      *)
(* block ("inner") in it.                                                  *)
(***************************************************************************)
EXTENDS Naturals, Sequences

CONSTANTS
  MaxUnits,  (* bound: commands and files compiled in one session           *)
  Indices    (* an OpClosure operand is less than this: 65536               *)

ASSUME LinkAssumption == MaxUnits \in Nat /\ Indices \in Nat \ {0}

VARIABLES
  host,     (* the REPL: on a command line, or the firmware's               *)
  units,    (* commands and files compiled so far: 1 .. units               *)
  files,    (* which of them are files                                      *)
  base,     (* where the blocks of each begin in the table they went to     *)
  session,  (* the session's blocks                                         *)
  running,  (* the command in progress, 0 for none                          *)
  compiled, (* the blocks its compiler ended with                           *)
  table,    (* vm.blocks: of the command's VM, and of the VM files run on   *)
            (* where that is another                                        *)
  relied    (* for each VM, the units whose code it may have to execute     *)

vars == <<host, units, files, base, session, running, compiled, table, relied>>

Units  == 1 .. MaxUnits
VMs    == {"command", "files"}
Block  == [unit : Units, name : {"argument", "inner", "outer", "imported"}]

TypeOK ==
  /\ host \in {"desktop", "firmware"}
  /\ units \in 0 .. MaxUnits /\ running \in 0 .. units
  /\ files \subseteq 1 .. units
  /\ base \in [Units -> Nat]
  /\ session \in Seq(Block) /\ compiled \in Seq(Block)
  /\ table \in [VMs -> Seq(Block)]
  /\ relied \in [VMs -> SUBSET (1 .. units)]

-----------------------------------------------------------------------------
(* What is compiled *)

(* compileBlock adds a block once those inside it are there (341-418).      *)
Program(u) == <<[unit |-> u, name |-> "argument"],
                [unit |-> u, name |-> "inner"],
                [unit |-> u, name |-> "outer"]>>

(* Where there are OpClosure instructions: the block each of them is for,   *)
(* and the position of the block in Program.                                *)
Makes == [method |-> "argument", outer |-> "inner", main |-> "outer"]
Place == [method |-> 0, outer |-> 1, main |-> 2]
Code  == DOMAIN Makes

(* The file's indices still fit when they are moved (148-151).              *)
Fits(u) == base[u] + Place["main"] < Indices

(* adjustClosureIndices (121-129) gets to the top chunk first, which has    *)
(* the largest index: it fails there or not at all, and EvalSource ignores  *)
(* it (217).  Methods are not among the blocks.                             *)
Moved(u, code) == code # "method" /\ Fits(u)

(* The operand of the OpClosure.                                            *)
Index(u, code) ==
  IF u \in files
  THEN Place[code] + IF Moved(u, code) THEN base[u] ELSE 0
  ELSE (base[u] + Place[code]) % Indices

-----------------------------------------------------------------------------
Init ==
  /\ host \in {"desktop", "firmware"}
  /\ units = 0 /\ files = {}
  /\ base = [u \in Units |-> 0]
  /\ session = <<>>
  /\ running = 0
  /\ compiled = <<>>
  /\ table = [v \in VMs |-> <<>>]
  /\ relied = [v \in VMs |-> {}]

(* The blocks of a module's own come first; its methods are not kept, so    *)
(* that no code refers to them (compileImport, 1109-1130).                  *)
Imported(u, imports) ==
  IF imports THEN <<[unit |-> u, name |-> "imported"]>> ELSE <<>>

(* A mutant of Seeded: the compiler begins with an empty table.             *)
Seeded_Mutant == <<>>
(* c.SetBlocks with the blocks of the session.                             *)
Seeded == session

(* A command is compiled and its VM made (execSourceVM, 327-352; execSource,*)
(* 347-373).                                                                *)
Command(imports) ==
  LET u     == units + 1
      start == Seeded \o Imported(u, imports)
  IN  /\ running = 0 /\ units < MaxUnits
      /\ units' = u /\ running' = u
      /\ base' = [base EXCEPT ![u] = Len(start)]
      /\ compiled' = start \o Program(u)
      /\ table' = [table EXCEPT !["command"] = compiled']
      /\ relied' = [relied EXCEPT !["command"] = @ \cup {u}]
      /\ UNCHANGED <<host, files, session>>

(* SetFileRunner: each VM of the firmware takes over the session's File     *)
(* object (esp32s3/main.go 369); on a command line the session's VM brings  *)
(* a File of its own, and AddGlobals puts back that of the seed VM (349).   *)
Runner == IF host = "firmware" THEN "command" ELSE "files"

(* EvalSource (186-219) *)
RunFile ==
  LET u == units + 1
  IN  /\ running # 0 /\ units < MaxUnits
      /\ units' = u /\ files' = files \cup {u}
      /\ base' = [base EXCEPT ![u] = Len(table[Runner])]
      /\ table' = [table EXCEPT ![Runner] = @ \o Program(u)]
      /\ relied' = [relied EXCEPT ![Runner] = @ \cup {u}]
      /\ UNCHANGED <<host, session, running, compiled>>

(* *blocks = c.GetBlocks(): the compiler's, not vm.blocks.                  *)
Kept == compiled

(* The command succeeds: its blocks and globals are kept (359-369).  Those  *)
(* of a file it ran on its own VM are not all: the file's globals are, and  *)
(* its blocks are not.                                                      *)
Succeed ==
  /\ running # 0
  /\ session' = Kept
  /\ running' = 0
  /\ relied' = [relied EXCEPT !["command"] = @ \ files]
  /\ UNCHANGED <<host, units, files, base, compiled, table>>

(* The command fails: neither its blocks nor its globals are kept (354-357).*)
Fail ==
  /\ running # 0
  /\ running' = 0
  /\ relied' = [relied EXCEPT !["command"] = @ \ (files \cup {running})]
  /\ UNCHANGED <<host, units, files, base, session, compiled, table>>

Next ==
  \/ \E imports \in BOOLEAN : Command(imports)
  \/ RunFile
  \/ Succeed
  \/ Fail

Spec == Init /\ [][Next]_vars

-----------------------------------------------------------------------------
(* Code this VM executes makes the block that stands in its source: that    *)
(* of the command itself, of every earlier command that succeeded           *)
(* ("persisted closures can continue to create nested block literals across *)
(* separate commands", compiler.go:63-64), and of the files run on the same *)
(* VM ("keeps previously persisted closures valid while making the newly    *)
(* compiled chunk point at the appended block segment", vm.go:114-116).     *)
(* Two sorts of code are left out, since their indices are wrong from the   *)
(* start: what lies beyond the last index, and the methods of a file that   *)
(* is not the first to add blocks to its VM.                                *)
Sound(u, code) ==
  Fits(u) /\ (u \in files /\ code = "method" => base[u] = 0)
Linked ==
  /\ TypeOK
  /\ running # 0 =>
       \A v \in VMs : \A u \in relied[v], code \in Code :
         Sound(u, code) =>
           LET at == Index(u, code) + 1
           IN  /\ at \in DOMAIN table[v]
               /\ table[v][at] = [unit |-> u, name |-> Makes[code]]
=============================================================================
