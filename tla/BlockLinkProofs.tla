--------------------------- MODULE BlockLinkProofs ---------------------------
(***************************************************************************)
(* Proofs about what sessions compile and import.  BlockLink: in a session *)
(* of any length, and for operands of any width, an instruction makes the  *)
(* block it was compiled for.  SharedLoader: however many sessions share a *)
(* loader, and whatever modules there are.                                 *)
(***************************************************************************)
EXTENDS BlockLink, SharedLoader, SequenceTheorems, NaturalsInduction, WellFoundedInduction, TLAPS

(* The blocks of unit u are in seq, from position b on.                     *)
Holds(seq, b, u) ==
  \A code \in Code :
    /\ b + Place[code] + 1 \in 1 .. Len(seq)
    /\ seq[b + Place[code] + 1] = [unit |-> u, name |-> Makes[code]]

Commands == relied["command"] \ files

(* While a command runs, the table of its VM holds what its compiler made,  *)
(* and the blocks of files it has run as well.                              *)
WhileRunning ==
  /\ \A u \in Commands : Holds(compiled, base[u], u)
  /\ \A u \in relied["command"] : Holds(table["command"], base[u], u)

(* The session's blocks are those of the commands that succeeded; between   *)
(* commands no code of a file is relied on.                                 *)
SessionHeld ==
  /\ \A u \in Commands : u # running => Holds(session, base[u], u)
  /\ running = 0 => relied["command"] \cap files = {}
  /\ running \notin files

FilesHeld ==
  /\ relied["files"] \subseteq files
  /\ \A u \in relied["files"] : Holds(table["files"], base[u], u)

Inv ==
  /\ TypeOK
  /\ (running # 0 => WhileRunning)
  /\ SessionHeld
  /\ FilesHeld

-----------------------------------------------------------------------------
(* The program is three blocks. *)
LEMMA ProgramType ==
  ASSUME NEW u \in Units
  PROVE  /\ Program(u) \in Seq(Block) /\ Len(Program(u)) = 3
         /\ \A code \in Code :
              Program(u)[Place[code] + 1] = [unit |-> u, name |-> Makes[code]]
         /\ \A code \in Code : Place[code] \in 0 .. 2
<1>1. Program(u) \in Seq(Block) /\ Len(Program(u)) = 3
  BY DEF Program, Block
<1>2. Code = {"method", "outer", "main"}
  BY DEF Code, Makes
<1>3. /\ Place["method"] = 0 /\ Place["outer"] = 1 /\ Place["main"] = 2
      /\ Makes["method"] = "argument" /\ Makes["outer"] = "inner"
      /\ Makes["main"] = "outer"
  BY DEF Place, Makes
<1> QED
  BY <1>1, <1>2, <1>3 DEF Program

(* What an import makes of a table is a table.                              *)
LEMMA ImportedType ==
  ASSUME NEW u \in Units, NEW imports \in BOOLEAN
  PROVE  Imported(u, imports) \in Seq(Block)
<1>1. [unit |-> u, name |-> "imported"] \in Block
  BY DEF Block
<1>2. CASE imports
  BY <1>1, <1>2 DEF Imported
<1>3. CASE ~ imports
  BY <1>3 DEF Imported
<1> QED
  BY <1>2, <1>3

(* Units that are relied on have been compiled.                             *)
LEMMA ReliedType ==
  ASSUME TypeOK, NEW v \in VMs, NEW w \in relied[v]
  PROVE  w \in 1 .. units /\ w \in Units /\ w # units + 1 /\ base[w] \in Nat
<1>1. w \in 1 .. units /\ units \in 0 .. MaxUnits
  BY DEF TypeOK
<1>2. w \in Units /\ w # units + 1
  BY <1>1, LinkAssumption DEF Units
<1> QED
  BY <1>1, <1>2 DEF TypeOK

(* Adding blocks to a table leaves those in it where they are.              *)
LEMMA HoldsLonger ==
  ASSUME NEW s \in Seq(Block), NEW t \in Seq(Block), NEW u \in Units,
         NEW b \in Nat, Holds(s, b, u)
  PROVE  Holds(s \o t, b, u)
<1> SUFFICES ASSUME NEW code \in Code
             PROVE  LET at == b + Place[code] + 1
                    IN  /\ at \in 1 .. Len(s \o t)
                        /\ (s \o t)[at] = [unit |-> u, name |-> Makes[code]]
  BY DEF Holds
<1> DEFINE at == b + Place[code] + 1
<1>1. at \in 1 .. Len(s) /\ s[at] = [unit |-> u, name |-> Makes[code]]
  BY DEF Holds
<1> HIDE DEF at
<1>2. Len(s \o t) = Len(s) + Len(t) /\ (s \o t)[at] = s[at]
  BY <1>1
<1> QED
  BY <1>1, <1>2 DEF at

(* What stands at each place of an extended table.                          *)
LEMMA AddedAt ==
  ASSUME NEW s \in Seq(Block), NEW t \in Seq(Block), NEW k \in 0 .. 2, Len(t) = 3
  PROVE  /\ Len(s) + k + 1 \in 1 .. Len(s \o t)
         /\ (s \o t)[Len(s) + k + 1] = t[k + 1]
<1>1. Len(s) \in Nat
  OBVIOUS
<1>2. Len(s \o t) = Len(s) + Len(t)
  BY ConcatProperties, Zenon
<1>3. \A i \in 1 .. Len(s) + Len(t) :
        (s \o t)[i] = IF i <= Len(s) THEN s[i] ELSE t[i - Len(s)]
  BY ConcatProperties, Zenon
<1>4. Len(s) + k + 1 \in 1 .. Len(s) + Len(t)
  BY <1>1
<1>5. (s \o t)[Len(s) + k + 1] = t[(Len(s) + k + 1) - Len(s)]
  <2> DEFINE at == Len(s) + k + 1
  <2>1. ~ (at <= Len(s))
    BY <1>1
  <2> HIDE DEF at
  <2>2. (s \o t)[at] = t[at - Len(s)]
    BY <1>3, <1>4, <2>1, Zenon DEF at
  <2> QED
    BY <2>2 DEF at
<1>6. (Len(s) + k + 1) - Len(s) = k + 1
  BY <1>1
<1> QED
  BY <1>2, <1>4, <1>5, <1>6

(* Blocks that are added are held from where they begin.                    *)
LEMMA HoldsAdded ==
  ASSUME NEW s \in Seq(Block), NEW u \in Units
  PROVE  Holds(s \o Program(u), Len(s), u)
<1>1. /\ Program(u) \in Seq(Block) /\ Len(Program(u)) = 3
      /\ \A code \in Code :
           Program(u)[Place[code] + 1] = [unit |-> u, name |-> Makes[code]]
      /\ \A code \in Code : Place[code] \in 0 .. 2
  BY ProgramType
<1>2. ASSUME NEW code \in Code
      PROVE  /\ Len(s) + Place[code] + 1 \in 1 .. Len(s \o Program(u))
             /\ (s \o Program(u))[Len(s) + Place[code] + 1]
                  = [unit |-> u, name |-> Makes[code]]
  BY <1>1, AddedAt, Zenon
<1> QED
  BY <1>2, Zenon DEF Holds

-----------------------------------------------------------------------------
(* A session without commands satisfies the invariant.                      *)
LEMMA InitInv == Init => Inv
BY LinkAssumption
   DEF Init, Inv, TypeOK, SessionHeld, FilesHeld, Commands, Units, VMs

(* A command is compiled: its table is the session's, and more.             *)
LEMMA CommandInv ==
  ASSUME Inv, NEW imports \in BOOLEAN, Command(imports)
  PROVE  Inv'
<1> DEFINE u == units + 1
           start == session \o Imported(u, imports)
<1>1. /\ u \in Units /\ running = 0 /\ running' = u /\ units' = u
      /\ base' = [base EXCEPT ![u] = Len(start)]
      /\ compiled' = start \o Program(u)
      /\ table' = [table EXCEPT !["command"] = compiled']
      /\ relied' = [relied EXCEPT !["command"] = @ \cup {u}]
      /\ UNCHANGED <<host, files, session>>
  BY LinkAssumption DEF Inv, TypeOK, Command, Seeded, Units
<1>2. start \in Seq(Block) /\ start \o Program(u) \in Seq(Block)
  BY <1>1, ImportedType, ProgramType DEF Inv, TypeOK
<1>3. TypeOK'
  BY <1>1, <1>2 DEF Inv, TypeOK, VMs, Units
<1>4. \A v \in VMs : \A w \in relied[v] : w # u /\ w \in Units /\ base'[w] = base[w]
                                          /\ base[w] \in Nat
  BY <1>1, ReliedType DEF Inv, TypeOK
<1>5. relied["command"] \cap files = {} /\ Commands = relied["command"]
  BY <1>1 DEF Inv, SessionHeld, Commands
<1>6. \A w \in relied["command"] : Holds(session, base[w], w)
  BY <1>1, <1>4, <1>5 DEF Inv, SessionHeld, TypeOK, VMs
<1>7. \A w \in relied["command"] : Holds(compiled', base'[w], w)
  <2> SUFFICES ASSUME NEW w \in relied["command"]
               PROVE  Holds(compiled', base'[w], w)
    OBVIOUS
  <2>1. Imported(u, imports) \in Seq(Block) /\ session \in Seq(Block)
    BY <1>1, ImportedType DEF Inv, TypeOK
  <2>2. w \in Units /\ base[w] \in Nat /\ base'[w] = base[w]
    BY <1>4 DEF VMs
  <2>3. Holds(start, base[w], w)
    BY <1>6, <2>1, <2>2, HoldsLonger
  <2> QED
    BY <1>1, <1>2, <2>2, <2>3, HoldsLonger, ProgramType
<1>8. Holds(compiled', base'[u], u)
  BY <1>1, <1>2, HoldsAdded DEF Inv, TypeOK
<1>9. relied'["command"] = relied["command"] \cup {u} /\ table'["command"] = compiled'
      /\ relied'["files"] = relied["files"] /\ table'["files"] = table["files"]
  BY <1>1 DEF Inv, TypeOK, VMs
<1>10. WhileRunning'
  BY <1>7, <1>8, <1>9 DEF WhileRunning, Commands
<1>11. SessionHeld'
  <2>1. u \notin files /\ running' # 0
    BY <1>1 DEF Inv, TypeOK
  <2> QED
    BY <1>1, <1>4, <1>6, <1>9, <2>1 DEF SessionHeld, Commands, VMs
<1>12. FilesHeld'
  BY <1>1, <1>4, <1>9 DEF FilesHeld, Inv, VMs
<1> QED
  BY <1>3, <1>10, <1>11, <1>12 DEF Inv

(* A file adds its blocks to the VM that runs it.                           *)
LEMMA RunFileInv ==
  ASSUME Inv, RunFile
  PROVE  Inv'
<1> DEFINE u == units + 1
           t == table[Runner]
<1>1. /\ u \in Units /\ running # 0 /\ running' = running /\ units' = u
      /\ files' = files \cup {u} /\ Runner \in VMs
      /\ base' = [base EXCEPT ![u] = Len(t)]
      /\ table' = [table EXCEPT ![Runner] = t \o Program(u)]
      /\ relied' = [relied EXCEPT ![Runner] = @ \cup {u}]
      /\ UNCHANGED <<host, session, compiled>>
  BY LinkAssumption DEF Inv, TypeOK, RunFile, Units, Runner, VMs
<1>2. t \in Seq(Block) /\ t \o Program(u) \in Seq(Block)
  BY <1>1, ProgramType DEF Inv, TypeOK
<1>3. TypeOK'
  BY <1>1, <1>2 DEF Inv, TypeOK, Units
<1>4. \A v \in VMs : \A w \in relied[v] : w # u /\ w \in Units /\ base'[w] = base[w]
                                          /\ base[w] \in Nat
  BY <1>1, ReliedType DEF Inv, TypeOK
<1>5. \A w \in relied[Runner] : Holds(t, base[w], w)
  BY <1>1 DEF Inv, WhileRunning, FilesHeld, VMs
<1>6. \A w \in relied[Runner] : Holds(table'[Runner], base'[w], w)
  BY <1>1, <1>2, <1>4, <1>5, HoldsLonger, ProgramType DEF Inv, TypeOK
<1>7. Holds(table'[Runner], base'[u], u)
  BY <1>1, <1>2, HoldsAdded DEF Inv, TypeOK
<1>8. /\ relied'[Runner] = relied[Runner] \cup {u}
      /\ \A v \in VMs \ {Runner} : relied'[v] = relied[v] /\ table'[v] = table[v]
  BY <1>1 DEF Inv, TypeOK
<1>9. Commands' = Commands /\ Commands \subseteq relied["command"]
  BY <1>1, <1>4, <1>8 DEF Commands, VMs
<1>10. WhileRunning'
  <2>1. \A w \in Commands' : Holds(compiled', base'[w], w)
    BY <1>1, <1>4, <1>9 DEF Inv, WhileRunning, VMs
  <2>2. \A w \in relied'["command"] : Holds(table'["command"], base'[w], w)
    BY <1>1, <1>4, <1>6, <1>7, <1>8 DEF Inv, WhileRunning, VMs
  <2> QED
    BY <2>1, <2>2 DEF WhileRunning
<1>11. SessionHeld'
  <2>1. u # running
    BY <1>1 DEF Inv, TypeOK
  <2> QED
    BY <1>1, <1>4, <1>9, <2>1 DEF Inv, SessionHeld, VMs
<1>12. FilesHeld'
  BY <1>1, <1>4, <1>6, <1>7, <1>8 DEF Inv, FilesHeld, VMs
<1> QED
  BY <1>3, <1>10, <1>11, <1>12 DEF Inv

(* What the session keeps is what the compiler ended with.                  *)
LEMMA SucceedInv ==
  ASSUME Inv, Succeed
  PROVE  Inv'
<1>1. /\ running # 0 /\ running' = 0 /\ session' = compiled
      /\ relied' = [relied EXCEPT !["command"] = @ \ files]
      /\ UNCHANGED <<host, units, files, base, compiled, table>>
  BY DEF Succeed, Kept
<1>2. TypeOK'
  <2>1. relied' \in [VMs -> SUBSET (1 .. units)]
    BY <1>1 DEF Inv, TypeOK, VMs
  <2> QED
    BY <1>1, <2>1 DEF Inv, TypeOK
<1>3. relied'["command"] = Commands /\ relied'["files"] = relied["files"]
      /\ Commands' = Commands
  BY <1>1 DEF Inv, TypeOK, VMs, Commands
<1>4. SessionHeld'
  BY <1>1, <1>3 DEF Inv, SessionHeld, WhileRunning, Commands, TypeOK
<1>5. FilesHeld'
  BY <1>1, <1>3 DEF Inv, FilesHeld
<1> QED
  BY <1>1, <1>2, <1>4, <1>5 DEF Inv

(* Nothing of a command that fails is relied on.                            *)
LEMMA FailInv ==
  ASSUME Inv, Fail
  PROVE  Inv'
<1>1. /\ running # 0 /\ running' = 0
      /\ relied' = [relied EXCEPT !["command"] = @ \ (files \cup {running})]
      /\ UNCHANGED <<host, units, files, base, session, compiled, table>>
  BY DEF Fail
<1>2. TypeOK'
  <2>1. relied' \in [VMs -> SUBSET (1 .. units)]
    BY <1>1 DEF Inv, TypeOK, VMs
  <2> QED
    BY <1>1, <2>1 DEF Inv, TypeOK
<1>3. relied'["command"] = Commands \ {running} /\ relied'["files"] = relied["files"]
      /\ Commands' = Commands \ {running}
  BY <1>1 DEF Inv, TypeOK, VMs, Commands
<1>4. SessionHeld'
  BY <1>1, <1>3 DEF Inv, SessionHeld, Commands, TypeOK
<1>5. FilesHeld'
  BY <1>1, <1>3 DEF Inv, FilesHeld
<1> QED
  BY <1>1, <1>2, <1>4, <1>5 DEF Inv

(* Every command keeps the invariant.                                       *)
LEMMA NextInv == Inv /\ [Next]_vars => Inv'
<1> SUFFICES ASSUME Inv, [Next]_vars
             PROVE  Inv'
  OBVIOUS
<1>1. ASSUME NEW imports \in BOOLEAN, Command(imports)
      PROVE  Inv'
  BY <1>1, CommandInv
<1>2. CASE RunFile
  BY <1>2, RunFileInv
<1>3. CASE Succeed
  BY <1>3, SucceedInv
<1>4. CASE Fail
  BY <1>4, FailInv
<1>5. CASE UNCHANGED vars
  BY <1>5 DEF vars, Inv, TypeOK, WhileRunning, SessionHeld, FilesHeld, Commands
<1> QED
  BY <1>1, <1>2, <1>3, <1>4, <1>5 DEF Next

(* Where the blocks are held, the indices lead.                             *)
LEMMA InvLinked == Inv => Linked
<1> SUFFICES ASSUME Inv, running # 0, NEW v \in VMs, NEW u \in relied[v],
                    NEW code \in Code, Sound(u, code)
             PROVE  LET at == Index(u, code) + 1
                    IN  /\ at \in DOMAIN table[v]
                        /\ table[v][at] = [unit |-> u, name |-> Makes[code]]
  BY DEF Linked, Inv
<1>1. Holds(table[v], base[u], u)
  BY DEF Inv, WhileRunning, FilesHeld, VMs
<1>2. u \in Units /\ base[u] \in Nat /\ table[v] \in Seq(Block)
  BY ReliedType DEF Inv, TypeOK
<1>3. Index(u, code) = base[u] + Place[code]
  <2>1. /\ Code = {"method", "outer", "main"}
        /\ Place["method"] = 0 /\ Place["outer"] = 1 /\ Place["main"] = 2
    BY DEF Code, Makes, Place
  <2>2. CASE u \in files
    BY <1>2, <2>1, <2>2 DEF Index, Moved, Sound
  <2>3. CASE u \notin files
    <3>1. base[u] + Place[code] \in 0 .. Indices - 1
      BY <1>2, <2>1, LinkAssumption DEF Sound, Fits
    <3>2. (base[u] + Place[code]) % Indices = base[u] + Place[code]
      BY <3>1, LinkAssumption
    <3> QED
      BY <2>3, <3>2 DEF Index
  <2> QED
    BY <2>2, <2>3
<1> QED
  BY <1>1, <1>2, <1>3 DEF Holds

-----------------------------------------------------------------------------
(* An OpClosure instruction of a command, of an earlier command that        *)
(* succeeded or of a file makes the block that stands in its source,        *)
(* through any number of commands, imports, files and failures.             *)
THEOREM BlocksLinked == Spec => []Linked
BY InitInv, NextInv, InvLinked, PTL DEF Spec

-----------------------------------------------------------------------------
(* The loader that sessions share *)

(* What a Load has brought in so far is whole, when the cache has have and  *)
(* the globals are globs.                                                   *)
Collected(load, txt, have, globs) ==
  \A i \in 1 .. load.next - 1 :
    \E q \in have \cap Found[txt[load.at][i]] : globs[q] \subseteq load.globals

(* A Load is of a marked module, between two of its imports.                *)
FrameSound(load, txt, marks, have, globs) ==
  /\ load.at \in marks
  /\ load.next <= Len(txt[load.at]) + 1
  /\ Collected(load, txt, have, globs)

(* The import a module has got to may be found at p.                        *)
Leads(load, txt, p) ==
  load.next <= Len(txt[load.at]) /\ p \in Found[txt[load.at][load.next]]

(* The Loads of a session, each called for an import of the one around it.  *)
StackSound(frames, txt, marks, have, globs) ==
  /\ \A k \in 1 .. Len(frames) : FrameSound(frames[k], txt, marks, have, globs)
  /\ \A k \in 1 .. Len(frames) - 1 : Leads(frames[k], txt, frames[k + 1].at)

(* What a session does is for its innermost Load.                           *)
CallSound(frames, txt, c) ==
  /\ c.phase = "idle" => frames = <<>>
  /\ c.phase = "collects" => frames # <<>>
  /\ c.phase \in {"asks", "reads"} /\ frames # <<>> =>
       LET load == frames[Len(frames)]
       IN  load.next <= Len(txt[load.at]) /\ c.name = txt[load.at][load.next]

(* A module is being loaded once, and marked while it is.                   *)
Apart ==
  \A s, t \in Sessions : \A i \in 1 .. Len(stack[s]), j \in 1 .. Len(stack[t]) :
    stack[s][i].at = stack[t][j].at => s = t /\ i = j

Accounted ==
  \A p \in loading : \E s \in Sessions : \E i \in 1 .. Len(stack[s]) : stack[s][i].at = p

LoaderInv ==
  /\ LoaderTypeOK
  /\ cached \cap loading = {}
  /\ \A n \in Names : importCache[n] \subseteq Found[n]
  /\ \A s \in Sessions : /\ StackSound(stack[s], text, loading, cached, globals)
                         /\ CallSound(stack[s], text, call[s])
  /\ Apart /\ Accounted
  /\ OneModule /\ ModuleWhole /\ CyclesReal

-----------------------------------------------------------------------------
(* A path's text is a list of names.                                        *)
LEMMA TextType ==
  ASSUME WellFormed, LoaderTypeOK, NEW p \in Paths
  PROVE  /\ text[p] \in Seq(Names) /\ Len(text[p]) \in Nat
         /\ \A i \in 1 .. Len(text[p]) : text[p][i] \in Names
<1>1. text[p] \in Seq(Names)
  BY DEF WellFormed, LoaderTypeOK
<1> QED
  BY <1>1, ElementOfSeq, LenProperties

(* The Loads of a session are a sequence of loads.                          *)
LEMMA StackType ==
  ASSUME LoaderTypeOK, NEW s \in Sessions
  PROVE  /\ stack[s] \in Seq(Loads) /\ Len(stack[s]) \in Nat
         /\ \A k \in 1 .. Len(stack[s]) :
              /\ stack[s][k] \in Loads /\ stack[s][k].at \in Paths
              /\ stack[s][k].next \in Nat \ {0} /\ stack[s][k].globals \in SUBSET Paths
         /\ stack[s] # <<>> => Len(stack[s]) \in 1 .. Len(stack[s])
<1>1. stack[s] \in Seq(Loads)
  BY DEF LoaderTypeOK
<1>2. Len(stack[s]) \in Nat /\ (stack[s] # <<>> => Len(stack[s]) # 0)
  BY <1>1, EmptySeq, LenProperties
<1>3. \A k \in 1 .. Len(stack[s]) : stack[s][k] \in Loads
  BY <1>1, ElementOfSeq
<1> QED
  BY <1>1, <1>2, <1>3 DEF Loads

(* What is left of a stack when its last Load ends.                         *)
LEMMA BelowFacts ==
  ASSUME LoaderTypeOK, NEW s \in Sessions, stack[s] # <<>>
  PROVE  /\ Below(s) \in Seq(Loads) /\ Len(Below(s)) = Len(stack[s]) - 1
         /\ \A k \in 1 .. Len(stack[s]) - 1 : Below(s)[k] = stack[s][k]
<1>1. stack[s] \in Seq(Loads) /\ Len(stack[s]) \in Nat /\ Len(stack[s]) - 1 \in Nat
  BY StackType
<1>2. 1 \in 1 .. Len(stack[s]) + 1 /\ Len(stack[s]) - 1 \in 0 .. Len(stack[s])
  BY <1>1
<1> QED
  BY <1>1, <1>2, SubSeqProperties DEF Below

(* What a Load becomes when one of its imports is answered.                 *)
LEMMA MergedFacts ==
  ASSUME NEW load \in Loads, NEW brought \in SUBSET Paths
  PROVE  /\ Merged(load, brought) \in Loads
         /\ Merged(load, brought).at = load.at
         /\ Merged(load, brought).next = load.next + 1
         /\ Merged(load, brought).globals = load.globals \cup brought
BY DEF Merged, Loads

(* The Load an import was for goes on to its next import.                   *)
LEMMA AnswersFacts ==
  ASSUME LoaderTypeOK, NEW s \in Sessions, NEW frames \in Seq(Loads), NEW brought \in SUBSET Paths,
         Answers(s, frames, brought)
  PROVE  /\ stack' \in [Sessions -> Seq(Loads)] /\ call' \in [Sessions -> Resting \cup Looking]
         /\ Len(stack'[s]) = Len(frames)
         /\ \A t \in Sessions \ {s} : stack'[t] = stack[t] /\ call'[t] = call[t]
         /\ \A k \in 1 .. Len(frames) - 1 : stack'[s][k] = frames[k]
         /\ frames # <<>> => stack'[s][Len(frames)] = Merged(frames[Len(frames)], brought)
         /\ call'[s] = [phase |-> IF frames = <<>> THEN "idle" ELSE "collects"]
<1>1. CASE frames = <<>>
  <2>1. frames \in Seq(Loads) /\ Len(frames) = 0
    BY <1>1, EmptySeq
  <2>2. stack' = [stack EXCEPT ![s] = frames] /\ call' = [call EXCEPT ![s] = [phase |-> "idle"]]
    BY <1>1 DEF Answers, Goes
  <2> QED
    BY <1>1, <2>1, <2>2 DEF LoaderTypeOK, Resting
<1>2. CASE frames # <<>>
  <2>1. Len(frames) \in Nat /\ Len(frames) \in 1 .. Len(frames) /\ frames[Len(frames)] \in Loads
    <3>1. Len(frames) \in Nat /\ Len(frames) # 0
      BY <1>2, EmptySeq, LenProperties
    <3> QED
      BY <3>1, ElementOfSeq
  <2>2. Merged(frames[Len(frames)], brought) \in Loads
    BY <2>1, MergedFacts
  <2> DEFINE above == [frames EXCEPT ![Len(frames)] = Merged(@, brought)]
  <2>3. /\ above \in Seq(Loads) /\ Len(above) = Len(frames)
        /\ \A k \in 1 .. Len(frames) - 1 : above[k] = frames[k]
        /\ above[Len(frames)] = Merged(frames[Len(frames)], brought)
    <3>1. /\ above \in Seq(Loads) /\ Len(above) = Len(frames)
          /\ \A k \in 1 .. Len(frames) :
               above[k] = IF k = Len(frames) THEN Merged(frames[Len(frames)], brought) ELSE frames[k]
      BY <2>1, <2>2, ExceptSeq
    <3> QED
      BY <2>1, <3>1
  <2>4. stack' = [stack EXCEPT ![s] = above] /\ call' = [call EXCEPT ![s] = [phase |-> "collects"]]
    BY <1>2 DEF Answers, Goes
  <2> HIDE DEF above
  <2> QED
    BY <1>2, <2>3, <2>4 DEF LoaderTypeOK, Resting
<1> QED
  BY <1>1, <1>2
-----------------------------------------------------------------------------
(* Loads *)

(* A sound stack stays sound while the cache grows and its marks stay.      *)
LEMMA StackKept ==
  ASSUME NEW frames, NEW txt, NEW marks, NEW have, NEW globs,
         NEW marks2, NEW have2, NEW globs2,
         StackSound(frames, txt, marks, have, globs),
         have \subseteq have2, \A q \in have : globs2[q] = globs[q],
         \A k \in 1 .. Len(frames) : frames[k].at \in marks2
  PROVE  StackSound(frames, txt, marks2, have2, globs2)
BY DEF StackSound, FrameSound, Collected

(* An import that is answered from the cache keeps its importer's promise.  *)
LEMMA StackAdvanced ==
  ASSUME NEW frames \in Seq(Loads), NEW frames2 \in Seq(Loads), NEW txt, NEW marks,
         NEW have, NEW globs, NEW p \in have, globs[p] \in SUBSET Paths,
         StackSound(frames, txt, marks, have, globs),
         Len(frames2) = Len(frames),
         \A k \in 1 .. Len(frames) - 1 : frames2[k] = frames[k],
         frames # <<>> =>
           /\ Len(txt[frames[Len(frames)].at]) \in Nat
           /\ Leads(frames[Len(frames)], txt, p)
           /\ frames2[Len(frames)] = Merged(frames[Len(frames)], globs[p])
  PROVE  StackSound(frames2, txt, marks, have, globs)
<1>1. CASE frames = <<>>
  <2>1. Len(frames2) = 0
    BY <1>1, EmptySeq
  <2> QED
    BY <2>1 DEF StackSound
<1>2. CASE frames # <<>>
  <2> DEFINE n == Len(frames)
             top == frames[n]
  <2>1. n \in Nat /\ n \in 1 .. n /\ top \in Loads
    BY <1>2, EmptySeq, ElementOfSeq
  <2>2. /\ Merged(top, globs[p]).at = top.at
        /\ Merged(top, globs[p]).next = top.next + 1
        /\ Merged(top, globs[p]).globals = top.globals \cup globs[p]
        /\ top.next \in Nat \ {0}
    BY <2>1, MergedFacts DEF Loads
  <2>3. FrameSound(top, txt, marks, have, globs) /\ Leads(top, txt, p)
    BY <1>2, <2>1 DEF StackSound
  <2>4. FrameSound(Merged(top, globs[p]), txt, marks, have, globs)
    <3>1. Collected(Merged(top, globs[p]), txt, have, globs)
      <4> SUFFICES ASSUME NEW i \in 1 .. top.next
                   PROVE  \E q \in have \cap Found[txt[top.at][i]] :
                            globs[q] \subseteq top.globals \cup globs[p]
        BY <2>2 DEF Collected
      <4>1. CASE i = top.next
        BY <4>1, <2>3 DEF Leads
      <4>2. CASE i # top.next
        <5>1. i \in 1 .. top.next - 1
          BY <4>2, <2>2
        <5> QED
          BY <5>1, <2>3 DEF FrameSound, Collected
      <4> QED
        BY <4>1, <4>2
    <3> QED
      BY <3>1, <2>2, <2>3, <1>2 DEF FrameSound, Leads
  <2>5. \A k \in 1 .. n : frames2[k].at = frames[k].at
    BY <1>2, <2>1, <2>2
  <2>6. \A k \in 1 .. n : FrameSound(frames2[k], txt, marks, have, globs)
    BY <1>2, <2>1, <2>4 DEF StackSound
  <2>7. \A k \in 1 .. n - 1 : Leads(frames2[k], txt, frames2[k + 1].at)
    <3> SUFFICES ASSUME NEW k \in 1 .. n - 1
                 PROVE  Leads(frames2[k], txt, frames2[k + 1].at)
      OBVIOUS
    <3>1. k + 1 \in 1 .. n
      BY <2>1
    <3>2. frames2[k] = frames[k] /\ frames2[k + 1].at = frames[k + 1].at
      BY <3>1, <2>5
    <3>3. Leads(frames[k], txt, frames[k + 1].at)
      BY DEF StackSound
    <3> QED
      BY <3>2, <3>3
  <2> QED
    BY <2>6, <2>7 DEF StackSound
<1> QED
  BY <1>1, <1>2

(* A nested Load has collected nothing yet.                                 *)
LEMMA StackPushed ==
  ASSUME NEW frames \in Seq(Loads), NEW txt, NEW marks, NEW have, NEW globs,
         NEW p \in Paths, Len(txt[p]) \in Nat, StackSound(frames, txt, marks, have, globs),
         frames # <<>> => Leads(frames[Len(frames)], txt, p)
  PROVE  LET load == [at |-> p, next |-> 1, globals |-> {p}]
         IN  /\ load \in Loads /\ Append(frames, load) \in Seq(Loads)
             /\ Len(Append(frames, load)) = Len(frames) + 1
             /\ \A k \in 1 .. Len(frames) : Append(frames, load)[k] = frames[k]
             /\ Append(frames, load)[Len(frames) + 1] = load
             /\ StackSound(Append(frames, load), txt, marks \cup {p}, have, globs)
<1> DEFINE load == [at |-> p, next |-> 1, globals |-> {p}]
           longer == Append(frames, load)
<1>1. load \in Loads
  BY DEF Loads
<1>2. /\ longer \in Seq(Loads) /\ Len(longer) = Len(frames) + 1
      /\ \A k \in 1 .. Len(frames) : longer[k] = frames[k]
      /\ longer[Len(frames) + 1] = load
  BY <1>1, AppendProperties
<1>3. Len(frames) \in Nat /\ (frames # <<>> => Len(frames) # 0) /\ (frames = <<>> => Len(frames) = 0)
  BY EmptySeq, LenProperties
<1>4. FrameSound(load, txt, marks \cup {p}, have, globs)
  BY DEF FrameSound, Collected
<1> HIDE DEF longer
<1>5. \A k \in 1 .. Len(frames) + 1 : FrameSound(longer[k], txt, marks \cup {p}, have, globs)
  <2> SUFFICES ASSUME NEW k \in 1 .. Len(frames) + 1
               PROVE  FrameSound(longer[k], txt, marks \cup {p}, have, globs)
    OBVIOUS
  <2>1. CASE k = Len(frames) + 1
    BY <2>1, <1>2, <1>4
  <2>2. CASE k # Len(frames) + 1
    <3>1. k \in 1 .. Len(frames)
      BY <2>2, <1>3
    <3> QED
      BY <3>1, <1>2 DEF StackSound, FrameSound
  <2> QED
    BY <2>1, <2>2
<1>6. \A k \in 1 .. Len(frames) : Leads(longer[k], txt, longer[k + 1].at)
  <2> SUFFICES ASSUME NEW k \in 1 .. Len(frames)
               PROVE  Leads(longer[k], txt, longer[k + 1].at)
    OBVIOUS
  <2>1. CASE k = Len(frames)
    BY <2>1, <1>2, <1>3
  <2>2. CASE k # Len(frames)
    <3>1. k \in 1 .. Len(frames) - 1 /\ k + 1 \in 1 .. Len(frames)
      BY <2>2, <1>3
    <3> QED
      BY <3>1, <1>2 DEF StackSound
  <2> QED
    BY <2>1, <2>2
<1>7. StackSound(longer, txt, marks \cup {p}, have, globs)
  <2>1. Len(longer) = Len(frames) + 1 /\ Len(longer) - 1 = Len(frames)
    BY <1>2, <1>3
  <2> QED
    BY ONLY <2>1, <1>5, <1>6 DEF StackSound
<1> QED
  BY <1>1, <1>2, <1>7 DEF longer

(* The Loads around one that ends are as sound as with it.                  *)
LEMMA StackShortened ==
  ASSUME NEW frames \in Seq(Loads), NEW shorter \in Seq(Loads), NEW txt, NEW marks,
         NEW have, NEW globs, frames # <<>>,
         StackSound(frames, txt, marks, have, globs),
         Len(shorter) = Len(frames) - 1,
         \A k \in 1 .. Len(frames) - 1 : shorter[k] = frames[k]
  PROVE  /\ StackSound(shorter, txt, marks, have, globs)
         /\ shorter # <<>> => Leads(shorter[Len(shorter)], txt, frames[Len(frames)].at)
<1>1. Len(frames) \in Nat \ {0} /\ (shorter # <<>> => Len(shorter) # 0)
  BY EmptySeq, LenProperties
<1>2. StackSound(shorter, txt, marks, have, globs)
  <2>1. \A k \in 1 .. Len(shorter) : FrameSound(shorter[k], txt, marks, have, globs)
    BY <1>1 DEF StackSound
  <2>2. \A k \in 1 .. Len(shorter) - 1 : Leads(shorter[k], txt, shorter[k + 1].at)
    <3> SUFFICES ASSUME NEW k \in 1 .. Len(shorter) - 1
                 PROVE  Leads(shorter[k], txt, shorter[k + 1].at)
      OBVIOUS
    <3>1. k \in 1 .. Len(frames) - 1 /\ k + 1 \in 1 .. Len(frames) - 1
      BY <1>1
    <3> QED
      BY <3>1 DEF StackSound
  <2> QED
    BY <2>1, <2>2 DEF StackSound
<1>3. ASSUME shorter # <<>>
      PROVE  Leads(shorter[Len(shorter)], txt, frames[Len(frames)].at)
  <2>1. Len(shorter) \in 1 .. Len(frames) - 1 /\ Len(shorter) + 1 = Len(frames)
    BY <1>1, <1>3
  <2> QED
    BY <2>1 DEF StackSound
<1> QED
  BY <1>2, <1>3
-----------------------------------------------------------------------------
(* Steps *)

(* Steps that load nothing leave the marks to their owners.                 *)
LEMMA SameModules ==
  ASSUME LoaderTypeOK, Apart, Accounted, loading' = loading,
         \A t \in Sessions :
           /\ Len(stack'[t]) = Len(stack[t])
           /\ \A k \in 1 .. Len(stack[t]) : stack'[t][k].at = stack[t][k].at
  PROVE  Apart' /\ Accounted'
<1>1. Apart'
  <2> SUFFICES ASSUME NEW s \in Sessions, NEW t \in Sessions,
                      NEW i \in 1 .. Len(stack'[s]), NEW j \in 1 .. Len(stack'[t]),
                      stack'[s][i].at = stack'[t][j].at
               PROVE  s = t /\ i = j
    BY DEF Apart
  <2> QED
    BY DEF Apart
<1>2. Accounted'
  <2> SUFFICES ASSUME NEW p \in loading
               PROVE  \E s \in Sessions : \E i \in 1 .. Len(stack'[s]) : stack'[s][i].at = p
    BY DEF Accounted
  <2>1. PICK s \in Sessions : \E i \in 1 .. Len(stack[s]) : stack[s][i].at = p
    BY DEF Accounted
  <2> QED
    BY <2>1
<1> QED
  BY <1>1, <1>2

(* Whether a module imports itself is a matter of the files.                *)
LEMMA SameCycles ==
  ASSUME text' = text, NEW r, OnCycle(r)
  PROVE  OnCycle(r)'
BY DEF OnCycle, Imports

(* A step in which a session only goes on to another call.                  *)
LEMMA CallStep ==
  ASSUME LoaderInv, NEW s \in Sessions, NEW c \in Resting \cup Looking,
         call' = [call EXCEPT ![s] = c], CallSound(stack[s], text, c),
         UNCHANGED <<text, cached, globals, loading, stack, made>>,
         importCache' \in [Names -> SUBSET Paths],
         \A n \in Names : importCache'[n] \subseteq Found[n],
         refused' \subseteq [at : Paths, alone : BOOLEAN],
         \A r \in refused' : r.alone => OnCycle(r.at)
  PROVE  LoaderInv'
<1>1. LoaderTypeOK'
  BY DEF LoaderInv, LoaderTypeOK
<1>2. (cached \cap loading = {})'
  BY DEF LoaderInv
<1>3. (\A t \in Sessions : /\ StackSound(stack[t], text, loading, cached, globals)
                           /\ CallSound(stack[t], text, call[t]))'
  <2> SUFFICES ASSUME NEW t \in Sessions
               PROVE  /\ StackSound(stack[t], text, loading, cached, globals)
                      /\ CallSound(stack[t], text, call'[t])
    OBVIOUS
  <2>1. call'[t] = IF t = s THEN c ELSE call[t]
    BY DEF LoaderInv, LoaderTypeOK
  <2> QED
    BY <2>1 DEF LoaderInv
<1>4. Apart' /\ Accounted'
  BY SameModules DEF LoaderInv
<1>5. OneModule' /\ ModuleWhole'
  BY DEF LoaderInv, OneModule, ModuleWhole
<1>6. CyclesReal'
  BY SameCycles DEF CyclesReal
<1> QED
  BY <1>1, <1>2, <1>3, <1>4, <1>5, <1>6 DEF LoaderInv

(* A step in which a module in the cache answers an import.                 *)
LEMMA AnswerStep ==
  ASSUME WellFormed, LoaderInv, NEW s \in Sessions, NEW p \in cached,
         call[s].phase \in {"asks", "reads"}, p \in Found[call[s].name],
         Answers(s, stack[s], globals[p]),
         UNCHANGED <<text, cached, globals, loading, made, refused>>,
         importCache' \in [Names -> SUBSET Paths],
         \A n \in Names : importCache'[n] \subseteq Found[n]
  PROVE  LoaderInv'
<1> DEFINE frames == stack[s]
           top == frames[Len(frames)]
<1>1. LoaderTypeOK /\ frames \in Seq(Loads) /\ globals[p] \in SUBSET Paths /\ p \in Paths
  BY StackType DEF LoaderInv, LoaderTypeOK
<1>2. /\ stack' \in [Sessions -> Seq(Loads)] /\ call' \in [Sessions -> Resting \cup Looking]
      /\ Len(stack'[s]) = Len(frames)
      /\ \A t \in Sessions \ {s} : stack'[t] = stack[t] /\ call'[t] = call[t]
      /\ \A k \in 1 .. Len(frames) - 1 : stack'[s][k] = frames[k]
      /\ frames # <<>> => stack'[s][Len(frames)] = Merged(top, globals[p])
      /\ call'[s] = [phase |-> IF frames = <<>> THEN "idle" ELSE "collects"]
  BY <1>1, AnswersFacts
<1>3. frames # <<>> => /\ Len(frames) \in 1 .. Len(frames) /\ top \in Loads /\ top.at \in Paths
                       /\ Len(text[top.at]) \in Nat /\ Leads(top, text, p)
                       /\ Merged(top, globals[p]).at = top.at
  <2> SUFFICES ASSUME frames # <<>>
               PROVE  /\ Len(frames) \in 1 .. Len(frames) /\ top \in Loads /\ top.at \in Paths
                      /\ Len(text[top.at]) \in Nat /\ Leads(top, text, p)
                      /\ Merged(top, globals[p]).at = top.at
    OBVIOUS
  <2>1. Len(frames) \in 1 .. Len(frames) /\ top \in Loads /\ top.at \in Paths
    BY <1>1, StackType
  <2>2. Leads(top, text, p)
    BY DEF LoaderInv, CallSound, Leads
  <2> QED
    BY <1>1, <2>1, <2>2, TextType, MergedFacts
<1>4. LoaderTypeOK'
  BY <1>2 DEF LoaderInv, LoaderTypeOK
<1>5. StackSound(stack'[s], text, loading, cached, globals)
  <2>1. StackSound(frames, text, loading, cached, globals)
    BY DEF LoaderInv
  <2>2. stack'[s] \in Seq(Loads)
    BY <1>2
  <2> HIDE DEF frames
  <2> QED
    BY <1>1, <1>2, <1>3, <2>1, <2>2, StackAdvanced
<1>6. CallSound(stack'[s], text, call'[s])
  <2>1. frames = <<>> <=> stack'[s] = <<>>
    BY <1>1, <1>2, EmptySeq
  <2> QED
    BY <1>2, <2>1 DEF CallSound
<1>7. (\A t \in Sessions : /\ StackSound(stack[t], text, loading, cached, globals)
                           /\ CallSound(stack[t], text, call[t]))'
  <2> SUFFICES ASSUME NEW t \in Sessions
               PROVE  /\ StackSound(stack'[t], text, loading, cached, globals)
                      /\ CallSound(stack'[t], text, call'[t])
    OBVIOUS
  <2> QED
    BY <1>2, <1>5, <1>6 DEF LoaderInv
<1>8. Apart' /\ Accounted'
  <2>1. \A k \in 1 .. Len(frames) : stack'[s][k].at = frames[k].at
    <3> SUFFICES ASSUME NEW k \in 1 .. Len(frames)
                 PROVE  stack'[s][k].at = frames[k].at
      OBVIOUS
    <3>1. Len(frames) \in Nat /\ frames # <<>>
      BY <1>1, EmptySeq, LenProperties
    <3> QED
      BY <3>1, <1>2, <1>3
  <2>2. \A t \in Sessions : /\ Len(stack'[t]) = Len(stack[t])
                            /\ \A k \in 1 .. Len(stack[t]) : stack'[t][k].at = stack[t][k].at
    BY <1>2, <2>1
  <2> QED
    BY <2>2, SameModules DEF LoaderInv
<1>9. OneModule' /\ ModuleWhole' /\ CyclesReal'
  BY SameCycles DEF LoaderInv, OneModule, ModuleWhole, CyclesReal
<1> QED
  BY <1>4, <1>7, <1>8, <1>9 DEF LoaderInv
(* The last of some positions that have a property.                         *)
LEMMA LastPosition ==
  ASSUME NEW n \in Nat, NEW S \in SUBSET (1 .. n), S # {}
  PROVE  \E m \in S : \A k \in S : k <= m
<1> DEFINE D == {n - k : k \in S}
<1>1. D \subseteq Nat /\ D # {}
  <2>1. PICK k \in S : TRUE
    OBVIOUS
  <2>2. n - k \in D
    BY <2>1
  <2>3. \A k1 \in S : n - k1 \in Nat
    OBVIOUS
  <2> QED
    BY <2>2, <2>3
<1>2. PICK d \in D : \A e \in D : ~ (<<e, d>> \in OpToRel(<, Nat))
  BY <1>1, NatLessThanWellFounded, WFMin
<1>3. \A e \in D : d <= e
  <2>1. \A e \in D : ~ (e < d)
    BY <1>1, <1>2 DEF OpToRel
  <2> QED
    BY <1>1, <2>1
<1>4. PICK m \in S : d = n - m
  OBVIOUS
<1>5. \A k \in S : n - m <= n - k
  BY <1>3, <1>4
<1> QED
  BY <1>5

(* An import refused while the others rest leads back to a module of its    *)
(* own session's stack, which therefore imports itself.                     *)
LEMMA RefusedOnCycle ==
  ASSUME WellFormed, LoaderInv, NEW s \in Sessions, call[s].phase = "reads",
         NEW p \in loading, p \in Found[call[s].name],
         \A t \in Sessions \ {s} : stack[t] = <<>>
  PROVE  OnCycle(p)
<1> DEFINE frames == stack[s]
           n == Len(frames)
<1>1. LoaderTypeOK /\ frames \in Seq(Loads) /\ n \in Nat
      /\ \A k \in 1 .. n : frames[k].at \in Paths /\ frames[k].next \in Nat \ {0}
  BY StackType DEF LoaderInv
<1>2. PICK i \in 1 .. n : frames[i].at = p
  <2>1. PICK t \in Sessions : \E j \in 1 .. Len(stack[t]) : stack[t][j].at = p
    BY DEF LoaderInv, Accounted
  <2>2. t = s
    <3>1. Len(<<>>) = 0
      OBVIOUS
    <3> QED
      BY <2>1, <3>1
  <2> QED
    BY <2>1, <2>2
<1>3. /\ StackSound(frames, text, loading, cached, globals)
      /\ CallSound(frames, text, call[s]) /\ n \in 1 .. n /\ frames # <<>>
  <2>1. frames # <<>>
    BY <1>1, <1>2, EmptySeq
  <2> QED
    BY <1>1, <1>2, <2>1 DEF LoaderInv
<1>4. ASSUME NEW k \in 1 .. n, NEW q, Leads(frames[k], text, q)
      PROVE  q \in Imports(frames[k].at)
  <2>1. Len(text[frames[k].at]) \in Nat
    BY <1>1, TextType
  <2>2. frames[k].next \in 1 .. Len(text[frames[k].at])
    BY <1>1, <1>4, <2>1 DEF Leads
  <2> QED
    BY <1>4, <2>2 DEF Imports, Leads
<1>5. p \in Imports(frames[n].at)
  <2>1. Leads(frames[n], text, p)
    BY <1>3 DEF CallSound, Leads
  <2> QED
    BY <1>3, <1>4, <2>1
<1> SUFFICES ASSUME NEW closed \in SUBSET Paths, Imports(p) \subseteq closed,
                    \A q \in closed : Imports(q) \subseteq closed
             PROVE  p \in closed
  BY DEF OnCycle
<1>6. \A k \in i .. n : Imports(frames[k].at) \subseteq closed
  <2> SUFFICES ASSUME NEW b \in i .. n, ~ (Imports(frames[b].at) \subseteq closed)
               PROVE  FALSE
    OBVIOUS
  <2> DEFINE Good == {k \in i .. b : Imports(frames[k].at) \subseteq closed}
  <2>1. i \in Good /\ Good \subseteq 1 .. n
    BY <1>1, <1>2
  <2>2. PICK m \in Good : \A k \in Good : k <= m
    <3> HIDE DEF Good
    <3> QED
      BY <1>1, <2>1, LastPosition
  <2>3. m # b /\ m \in i .. b
    BY <2>2
  <2>4. m \in 1 .. n - 1 /\ m + 1 \in i .. b /\ m + 1 \in 1 .. n
    BY <1>1, <2>3
  <2>5. Leads(frames[m], text, frames[m + 1].at)
    BY <1>3, <2>4 DEF StackSound
  <2>6. frames[m + 1].at \in Imports(frames[m].at)
    <3>1. m \in 1 .. n
      BY <1>1, <2>4
    <3> HIDE DEF n, frames, Good
    <3> QED
      BY <1>4, <3>1, <2>5
  <2>7. Imports(frames[m + 1].at) \subseteq closed
    BY <2>2, <2>6
  <2>8. m + 1 \in Good
    BY <2>4, <2>7
  <2> QED
    BY <2>2, <2>4, <2>8
<1> QED
  BY <1>1, <1>2, <1>5, <1>6

(* A session begins to load a module that nobody loads.                     *)
LEMMA MarkStep ==
  ASSUME WellFormed, LoaderInv, NEW s \in Sessions, NEW p \in Paths, Mark(s, p)
  PROVE  LoaderInv'
<1> DEFINE frames == stack[s]
           load == [at |-> p, next |-> 1, globals |-> {p}]
<1>1. LoaderTypeOK /\ frames \in Seq(Loads) /\ Len(frames) \in Nat /\ Len(text[p]) \in Nat
  BY StackType, TextType DEF LoaderInv
<1>2. StackSound(frames, text, loading, cached, globals)
      /\ (frames # <<>> => Leads(frames[Len(frames)], text, p))
  BY DEF LoaderInv, CallSound, Leads, Mark, Resolved
<1>3. /\ load \in Loads /\ Append(frames, load) \in Seq(Loads)
      /\ Len(Append(frames, load)) = Len(frames) + 1
      /\ \A k \in 1 .. Len(frames) : Append(frames, load)[k] = frames[k]
      /\ Append(frames, load)[Len(frames) + 1] = load
      /\ StackSound(Append(frames, load), text, loading \cup {p}, cached, globals)
  BY <1>1, <1>2, StackPushed
<1>4. /\ stack' = [stack EXCEPT ![s] = Append(frames, load)]
      /\ call' = [call EXCEPT ![s] = [phase |-> "collects"]]
      /\ loading' = loading \cup {p} /\ p \notin loading /\ p \notin cached
      /\ importCache' = [importCache EXCEPT ![call[s].name] = {p}]
      /\ p \in Found[call[s].name] /\ call[s].phase = "reads"
      /\ UNCHANGED <<text, cached, globals, made, refused>>
  BY DEF Mark, Resolved, New, Goes
<1>5. /\ stack' \in [Sessions -> Seq(Loads)]
      /\ Len(stack'[s]) = Len(frames) + 1
      /\ \A k \in 1 .. Len(frames) : stack'[s][k] = frames[k]
      /\ stack'[s][Len(frames) + 1].at = p
      /\ StackSound(stack'[s], text, loading', cached, globals)
      /\ \A t \in Sessions \ {s} : stack'[t] = stack[t]
  <2> HIDE DEF load
  <2>1. stack'[s] = Append(frames, load) /\ load.at = p
    BY <1>1, <1>4 DEF LoaderTypeOK, load
  <2> QED
    BY <1>1, <1>3, <1>4, <2>1 DEF LoaderTypeOK
<1>6. LoaderTypeOK'
  BY <1>1, <1>4, <1>5 DEF LoaderTypeOK, Resting
<1>7. (\A n \in Names : importCache[n] \subseteq Found[n])'
  BY <1>4 DEF LoaderInv, LoaderTypeOK
<1>8. (\A t \in Sessions : /\ StackSound(stack[t], text, loading, cached, globals)
                           /\ CallSound(stack[t], text, call[t]))'
  <2> SUFFICES ASSUME NEW t \in Sessions
               PROVE  /\ StackSound(stack'[t], text, loading', cached, globals)
                      /\ CallSound(stack'[t], text, call'[t])
    BY <1>4
  <2>1. CASE t = s
    <3>1. stack'[s] # <<>>
      BY <1>1, <1>5, EmptySeq
    <3>2. call'[s] = [phase |-> "collects"]
      BY <1>1, <1>4 DEF LoaderTypeOK
    <3> QED
      BY <2>1, <1>5, <3>1, <3>2 DEF CallSound
  <2>2. CASE t # s
    <3>1. call'[t] = call[t] /\ stack'[t] = stack[t]
      BY <2>2, <1>1, <1>4, <1>5 DEF LoaderTypeOK
    <3>2. StackSound(stack[t], text, loading, cached, globals)
      BY DEF LoaderInv
    <3>3. StackSound(stack[t], text, loading', cached, globals)
      <4>1. \A k \in 1 .. Len(stack[t]) : stack[t][k].at \in loading'
        BY <1>4, <3>2 DEF StackSound, FrameSound
      <4> QED
        BY <3>2, <4>1, StackKept
    <3> QED
      BY <3>1, <3>3 DEF LoaderInv
  <2> QED
    BY <2>1, <2>2
<1>9. Apart'
  <2> SUFFICES ASSUME NEW t \in Sessions, NEW u \in Sessions,
                      NEW i \in 1 .. Len(stack'[t]), NEW j \in 1 .. Len(stack'[u]),
                      stack'[t][i].at = stack'[u][j].at
               PROVE  t = u /\ i = j
    BY DEF Apart
  <2>1. \A v \in Sessions : \A k \in 1 .. Len(stack'[v]) :
          \/ k \in 1 .. Len(stack[v]) /\ stack'[v][k] = stack[v][k] /\ stack'[v][k].at # p
          \/ v = s /\ k = Len(frames) + 1 /\ stack'[v][k].at = p
    <3> SUFFICES ASSUME NEW v \in Sessions, NEW k \in 1 .. Len(stack'[v])
                 PROVE  \/ /\ k \in 1 .. Len(stack[v]) /\ stack'[v][k] = stack[v][k]
                           /\ stack'[v][k].at # p
                        \/ v = s /\ k = Len(frames) + 1 /\ stack'[v][k].at = p
      OBVIOUS
    <3>1. \A m \in 1 .. Len(stack[v]) : stack[v][m].at # p
      BY <1>4 DEF LoaderInv, StackSound, FrameSound
    <3>2. CASE v = s
      <4>1. CASE k = Len(frames) + 1
        BY <3>2, <4>1, <1>5
      <4>2. CASE k # Len(frames) + 1
        <5>1. k \in 1 .. Len(frames)
          BY <1>1, <1>5, <3>2, <4>2
        <5> QED
          BY <3>1, <3>2, <5>1, <1>5
      <4> QED
        BY <4>1, <4>2
    <3>3. CASE v # s
      BY <1>5, <3>1, <3>3
    <3> QED
      BY <3>2, <3>3
  <2>2. CASE stack'[t][i].at = p
    BY <2>1, <2>2
  <2>3. CASE stack'[t][i].at # p
    <3>1. /\ i \in 1 .. Len(stack[t]) /\ stack'[t][i] = stack[t][i]
          /\ j \in 1 .. Len(stack[u]) /\ stack'[u][j] = stack[u][j]
      BY <2>1, <2>3
    <3>2. Apart
      BY DEF LoaderInv
    <3> QED
      BY <3>1, <3>2 DEF Apart
  <2> QED
    BY <2>2, <2>3
<1>10. Accounted'
  <2> SUFFICES ASSUME NEW q \in loading'
               PROVE  \E t \in Sessions : \E k \in 1 .. Len(stack'[t]) : stack'[t][k].at = q
    BY DEF Accounted
  <2>1. CASE q = p
    <3>1. Len(frames) + 1 \in 1 .. Len(stack'[s])
      BY <1>1, <1>5
    <3> QED
      BY <2>1, <3>1, <1>5
  <2>2. CASE q # p
    <3>1. PICK t \in Sessions : \E k \in 1 .. Len(stack[t]) : stack[t][k].at = q
      BY <2>2, <1>4 DEF LoaderInv, Accounted
    <3>2. PICK k \in 1 .. Len(stack[t]) : stack[t][k].at = q
      BY <3>1
    <3>3. k \in 1 .. Len(stack'[t]) /\ stack'[t][k].at = q
      BY <1>1, <1>5, <3>2
    <3> QED
      BY <3>3
  <2> QED
    BY <2>1, <2>2
<1>11. OneModule' /\ ModuleWhole' /\ CyclesReal'
  BY <1>4, SameCycles DEF LoaderInv, OneModule, ModuleWhole, CyclesReal
<1>12. (cached \cap loading = {})'
  BY <1>4 DEF LoaderInv
<1> QED
  BY <1>6, <1>7, <1>8, <1>9, <1>10, <1>11, <1>12 DEF LoaderInv
(* A Load that ends takes its own mark with it and no other.                *)
LEMMA MarkRemoved ==
  ASSUME LoaderTypeOK, Apart, Accounted, NEW s \in Sessions, stack[s] # <<>>,
         \A t \in Sessions : \A k \in 1 .. Len(stack[t]) : stack[t][k].at \in loading,
         loading' = loading \ {Top(s).at},
         Len(stack'[s]) = Len(stack[s]) - 1,
         \A k \in 1 .. Len(stack[s]) - 1 : stack'[s][k].at = stack[s][k].at,
         \A t \in Sessions \ {s} : stack'[t] = stack[t]
  PROVE  /\ Apart' /\ Accounted'
         /\ \A t \in Sessions : \A k \in 1 .. Len(stack'[t]) : stack'[t][k].at \in loading'
<1> DEFINE n == Len(stack[s])
<1>1. n \in Nat /\ n \in 1 .. n
  BY StackType
<1>2. ASSUME NEW t \in Sessions, NEW k \in 1 .. Len(stack'[t])
      PROVE  /\ k \in 1 .. Len(stack[t]) /\ stack'[t][k].at = stack[t][k].at
             /\ ~ (t = s /\ k = n)
  <2>1. CASE t = s
    BY <1>1, <1>2, <2>1
  <2>2. CASE t # s
    BY <1>2, <2>2
  <2> QED
    BY <2>1, <2>2
<1>3. Apart'
  <2> SUFFICES ASSUME NEW t \in Sessions, NEW u \in Sessions,
                      NEW i \in 1 .. Len(stack'[t]), NEW j \in 1 .. Len(stack'[u]),
                      stack'[t][i].at = stack'[u][j].at
               PROVE  t = u /\ i = j
    BY DEF Apart
  <2>1. /\ i \in 1 .. Len(stack[t]) /\ stack'[t][i].at = stack[t][i].at
        /\ j \in 1 .. Len(stack[u]) /\ stack'[u][j].at = stack[u][j].at
    BY <1>2
  <2>2. stack[t][i].at = stack[u][j].at
    BY <2>1
  <2> QED
    BY ONLY <2>1, <2>2, Apart, t \in Sessions, u \in Sessions DEF Apart
<1>4. Accounted'
  <2> SUFFICES ASSUME NEW p \in loading'
               PROVE  \E t \in Sessions : \E k \in 1 .. Len(stack'[t]) : stack'[t][k].at = p
    BY DEF Accounted
  <2>1. p \in loading /\ p # stack[s][n].at
    BY DEF Top
  <2>2. PICK t \in Sessions : \E k \in 1 .. Len(stack[t]) : stack[t][k].at = p
    BY <2>1 DEF Accounted
  <2>3. PICK k \in 1 .. Len(stack[t]) : stack[t][k].at = p
    BY <2>2
  <2>4. k \in 1 .. Len(stack'[t]) /\ stack'[t][k].at = p
    <3>1. CASE t = s
      <4>1. k \in 1 .. n - 1
        BY <1>1, <2>1, <2>3, <3>1
      <4> QED
        BY <2>3, <3>1, <4>1
    <3>2. CASE t # s
      BY <2>3, <3>2
    <3> QED
      BY <3>1, <3>2
  <2> QED
    BY <2>4
<1>5. ASSUME NEW t \in Sessions, NEW k \in 1 .. Len(stack'[t])
      PROVE  stack'[t][k].at \in loading'
  <2>1. k \in 1 .. Len(stack[t]) /\ stack'[t][k].at = stack[t][k].at /\ ~ (t = s /\ k = n)
    BY <1>2, <1>5
  <2>2. stack[t][k].at \in loading
    BY <2>1
  <2>3. stack[t][k].at # stack[s][n].at
    BY <1>1, <2>1 DEF Apart
  <2> QED
    BY <2>1, <2>2, <2>3 DEF Top
<1> QED
  BY <1>3, <1>4, <1>5

(* A failed Load leaves the others as they were.                            *)
LEMMA UnwindStep ==
  ASSUME WellFormed, LoaderInv, NEW s \in Sessions, Unwind(s)
  PROVE  LoaderInv'
<1>1. CASE stack[s] = <<>>
  <2>1. call' = [call EXCEPT ![s] = [phase |-> "idle"]]
        /\ UNCHANGED <<text, cached, globals, loading, stack, made, importCache, refused>>
    BY <1>1 DEF Unwind, Goes
  <2>2. CallSound(stack[s], text, [phase |-> "idle"]) /\ [phase |-> "idle"] \in Resting \cup Looking
    BY <1>1 DEF CallSound, Resting
  <2> QED
    BY <2>1, <2>2, CallStep DEF LoaderInv, LoaderTypeOK, CyclesReal
<1>2. CASE stack[s] # <<>>
  <2> DEFINE frames == stack[s]
             n == Len(frames)
  <2>1. /\ LoaderTypeOK /\ frames \in Seq(Loads) /\ n \in Nat /\ n \in 1 .. n
        /\ Below(s) \in Seq(Loads) /\ Len(Below(s)) = n - 1
        /\ \A k \in 1 .. n - 1 : Below(s)[k] = frames[k]
    BY <1>2, StackType, BelowFacts DEF LoaderInv
  <2>2. /\ stack' = [stack EXCEPT ![s] = Below(s)] /\ loading' = loading \ {Top(s).at}
        /\ UNCHANGED <<text, cached, globals, importCache, made, refused, call>>
        /\ call[s].phase = "fails"
    BY <1>2 DEF Unwind
  <2>3. /\ stack' \in [Sessions -> Seq(Loads)] /\ stack'[s] = Below(s)
        /\ \A t \in Sessions \ {s} : stack'[t] = stack[t]
    BY <2>1, <2>2 DEF LoaderTypeOK
  <2>4. \A t \in Sessions : \A k \in 1 .. Len(stack[t]) : stack[t][k].at \in loading
    BY DEF LoaderInv, StackSound, FrameSound
  <2>5. /\ Apart' /\ Accounted'
        /\ \A t \in Sessions : \A k \in 1 .. Len(stack'[t]) : stack'[t][k].at \in loading'
    BY <1>2, <2>1, <2>2, <2>3, <2>4, MarkRemoved DEF LoaderInv
  <2>6. LoaderTypeOK'
    BY <2>1, <2>2, <2>3 DEF LoaderTypeOK
  <2>7. \A t \in Sessions : StackSound(stack'[t], text, loading', cached, globals)
    <3> SUFFICES ASSUME NEW t \in Sessions
                 PROVE  StackSound(stack'[t], text, loading', cached, globals)
      OBVIOUS
    <3>1. StackSound(stack[t], text, loading, cached, globals)
      BY DEF LoaderInv
    <3>2. StackSound(stack'[t], text, loading, cached, globals)
      <4>1. CASE t = s
        BY <1>2, <2>1, <2>3, <3>1, <4>1, StackShortened
      <4>2. CASE t # s
        BY <2>3, <3>1, <4>2
      <4> QED
        BY <4>1, <4>2
    <3> QED
      BY <2>5, <3>2, StackKept
  <2>8. \A t \in Sessions : CallSound(stack'[t], text, call[t])
    BY <2>2, <2>3 DEF LoaderInv, CallSound
  <2>9. OneModule' /\ ModuleWhole' /\ CyclesReal' /\ (cached \cap loading = {})'
    BY <2>2, SameCycles DEF LoaderInv, OneModule, ModuleWhole, CyclesReal
  <2>10. (\A name \in Names : importCache[name] \subseteq Found[name])'
    BY <2>2 DEF LoaderInv
  <2>11. (\A t \in Sessions : /\ StackSound(stack[t], text, loading, cached, globals)
                              /\ CallSound(stack[t], text, call[t]))'
    BY <2>2, <2>7, <2>8
  <2> QED
    BY <2>5, <2>6, <2>9, <2>10, <2>11 DEF LoaderInv
<1> QED
  BY <1>1, <1>2

(* A module goes to the cache with all it promised its importer.            *)
LEMMA LoadedStep ==
  ASSUME WellFormed, LoaderInv, NEW s \in Sessions, Loaded(s)
  PROVE  LoaderInv'
<1> DEFINE frames == stack[s]
           n == Len(frames)
           load == Top(s)
           below == Below(s)
           m == Len(below)
<1>1. frames # <<>> /\ call[s].phase = "collects"
  BY DEF LoaderInv, CallSound, Loaded
<1>2. /\ LoaderTypeOK /\ frames \in Seq(Loads) /\ n \in Nat /\ n \in 1 .. n
      /\ below \in Seq(Loads) /\ m = n - 1
      /\ \A k \in 1 .. n - 1 : below[k] = frames[k]
      /\ load = frames[n] /\ load \in Loads /\ load.at \in Paths /\ load.globals \in SUBSET Paths
  BY <1>1, StackType, BelowFacts DEF LoaderInv, Top
<1>3. /\ load.next = Len(text[load.at]) + 1
      /\ cached' = cached \cup {load.at}
      /\ globals' = [globals EXCEPT ![load.at] = load.globals]
      /\ made' = [made EXCEPT ![load.at] = @ + 1]
      /\ loading' = loading \ {load.at}
      /\ Answers(s, below, load.globals)
      /\ UNCHANGED <<text, importCache, refused>>
  BY DEF Loaded
<1> HIDE DEF load, below
<1>4. /\ stack' \in [Sessions -> Seq(Loads)] /\ call' \in [Sessions -> Resting \cup Looking]
      /\ Len(stack'[s]) = m
      /\ \A t \in Sessions \ {s} : stack'[t] = stack[t] /\ call'[t] = call[t]
      /\ \A k \in 1 .. m - 1 : stack'[s][k] = below[k]
      /\ below # <<>> => stack'[s][m] = Merged(below[m], load.globals)
      /\ call'[s] = [phase |-> IF below = <<>> THEN "idle" ELSE "collects"]
  BY <1>2, <1>3, AnswersFacts
<1>5. FrameSound(load, text, loading, cached, globals) /\ load.at \in loading /\ load.at \notin cached
  BY <1>2 DEF LoaderInv, StackSound, FrameSound
<1>6. LoaderTypeOK'
  BY <1>2, <1>3, <1>4 DEF LoaderTypeOK
<1>7. \A q \in cached : globals'[q] = globals[q]
  BY <1>2, <1>3, <1>5 DEF LoaderTypeOK
<1>8. load.at \in cached' /\ globals'[load.at] = load.globals /\ cached \subseteq cached'
  BY <1>2, <1>3 DEF LoaderTypeOK
<1>9. below # <<>> => /\ m \in 1 .. m /\ below[m] \in Loads /\ below[m].at \in Paths
                      /\ Len(text[below[m].at]) \in Nat
                      /\ Merged(below[m], load.globals).at = below[m].at
  <2> SUFFICES ASSUME below # <<>>
               PROVE  /\ m \in 1 .. m /\ below[m] \in Loads /\ below[m].at \in Paths
                      /\ Len(text[below[m].at]) \in Nat
                      /\ Merged(below[m], load.globals).at = below[m].at
    OBVIOUS
  <2>1. m \in 1 .. m /\ below[m] \in Loads
    <3>1. m # 0
      BY <1>2, EmptySeq
    <3>2. m \in 1 .. m
      BY <1>2, <3>1
    <3> QED
      BY <1>2, <3>2, ElementOfSeq
  <2>2. below[m].at \in Paths
    BY <2>1 DEF Loads
  <2> QED
    BY <1>2, <2>1, <2>2, TextType, MergedFacts
<1>10. \A k \in 1 .. m : stack'[s][k].at = below[k].at
  <2> SUFFICES ASSUME NEW k \in 1 .. m
               PROVE  stack'[s][k].at = below[k].at
    OBVIOUS
  <2>1. m \in Nat /\ below # <<>>
    BY <1>2, EmptySeq
  <2> QED
    BY <2>1, <1>4, <1>9
<1>11. /\ Apart' /\ Accounted'
       /\ \A t \in Sessions : \A k \in 1 .. Len(stack'[t]) : stack'[t][k].at \in loading'
  <2>1. \A t \in Sessions : \A k \in 1 .. Len(stack[t]) : stack[t][k].at \in loading
    BY DEF LoaderInv, StackSound, FrameSound
  <2>2. \A k \in 1 .. n - 1 : stack'[s][k].at = stack[s][k].at
    BY <1>2, <1>10
  <2>3. Len(stack'[s]) = Len(stack[s]) - 1 /\ loading' = loading \ {Top(s).at}
    BY <1>2, <1>3, <1>4 DEF load
  <2>4. \A t \in Sessions \ {s} : stack'[t] = stack[t]
    BY <1>4
  <2> QED
    BY <1>1, <1>2, <2>1, <2>2, <2>3, <2>4, MarkRemoved DEF LoaderInv
<1>12. StackSound(stack'[s], text, loading', cached', globals')
  <2>1. /\ StackSound(below, text, loading, cached, globals)
        /\ below # <<>> => Leads(below[m], text, load.at)
    <3>1. StackSound(frames, text, loading, cached, globals)
      BY DEF LoaderInv
    <3> QED
      BY <1>1, <1>2, <3>1, StackShortened
  <2>2. StackSound(below, text, loading', cached', globals')
    <3>1. \A k \in 1 .. m : below[k].at \in loading'
      BY <1>4, <1>10, <1>11
    <3> QED
      BY <1>7, <1>8, <2>1, <3>1, StackKept
  <2>3. stack'[s] \in Seq(Loads)
    BY <1>4
  <2>4. globals'[load.at] \in SUBSET Paths
    BY <1>2, <1>8
  <2>5. below # <<>> =>
          /\ Len(text[below[m].at]) \in Nat /\ Leads(below[m], text, load.at)
          /\ stack'[s][m] = Merged(below[m], globals'[load.at])
    BY <1>4, <1>8, <1>9, <2>1
  <2>6. /\ below \in Seq(Loads) /\ load.at \in cached' /\ Len(stack'[s]) = m
        /\ \A k \in 1 .. m - 1 : stack'[s][k] = below[k]
    BY <1>2, <1>4, <1>8
  <2> QED
    BY ONLY <2>2, <2>3, <2>4, <2>5, <2>6, StackAdvanced
<1>13. (\A t \in Sessions : /\ StackSound(stack[t], text, loading, cached, globals)
                            /\ CallSound(stack[t], text, call[t]))'
  <2> SUFFICES ASSUME NEW t \in Sessions
               PROVE  /\ StackSound(stack'[t], text, loading', cached', globals')
                      /\ CallSound(stack'[t], text, call'[t])
    BY <1>3
  <2>1. CASE t = s
    <3>1. below = <<>> <=> stack'[s] = <<>>
      BY <1>2, <1>4, EmptySeq
    <3> QED
      BY <2>1, <1>4, <1>12, <3>1 DEF CallSound
  <2>2. CASE t # s
    <3>1. stack'[t] = stack[t] /\ call'[t] = call[t]
      BY <2>2, <1>4
    <3>2. StackSound(stack[t], text, loading, cached, globals) /\ CallSound(stack[t], text, call[t])
      BY DEF LoaderInv
    <3>3. StackSound(stack'[t], text, loading', cached', globals')
      BY <1>7, <1>8, <1>11, <3>1, <3>2, StackKept
    <3> QED
      BY <3>1, <3>2, <3>3
  <2> QED
    BY <2>1, <2>2
<1>14. OneModule'
  BY <1>2, <1>3, <1>5 DEF LoaderInv, LoaderTypeOK, OneModule
<1>15. ModuleWhole'
  <2> SUFFICES ASSUME NEW p \in cached', NEW i \in 1 .. Len(text[p])
               PROVE  \E q \in cached' \cap Found[text[p][i]] : globals'[q] \subseteq globals'[p]
    BY <1>3 DEF ModuleWhole
  <2>1. CASE p = load.at
    <3>1. i \in 1 .. load.next - 1
      <4>1. Len(text[load.at]) \in Nat
        BY <1>2, TextType
      <4> QED
        BY <1>3, <2>1, <4>1
    <3>2. PICK q \in cached \cap Found[text[p][i]] : globals[q] \subseteq load.globals
      BY <1>5, <2>1, <3>1 DEF FrameSound, Collected
    <3> QED
      BY <1>7, <1>8, <2>1, <3>2
  <2>2. CASE p # load.at
    <3>1. p \in cached
      BY <1>3, <2>2
    <3>2. PICK q \in cached \cap Found[text[p][i]] : globals[q] \subseteq globals[p]
      BY <3>1 DEF LoaderInv, ModuleWhole
    <3> QED
      BY <1>7, <1>8, <3>1, <3>2
  <2> QED
    BY <2>1, <2>2
<1>16. CyclesReal' /\ (cached \cap loading = {})'
       /\ (\A name \in Names : importCache[name] \subseteq Found[name])'
  BY <1>3, SameCycles DEF LoaderInv, CyclesReal
<1> QED
  BY <1>6, <1>11, <1>13, <1>14, <1>15, <1>16 DEF LoaderInv
(* Nothing is loaded at first.                                              *)
LEMMA InitLoaderInv == WellFormed /\ LoaderInit => LoaderInv
<1> SUFFICES ASSUME WellFormed, LoaderInit PROVE LoaderInv
  OBVIOUS
<1>1. <<>> \in Seq(Loads) /\ Len(<<>>) = 0
  BY EmptySeq
<1>2. LoaderTypeOK
  BY <1>1 DEF LoaderInit, LoaderTypeOK, Resting
<1>3. Apart /\ Accounted
  BY <1>1 DEF LoaderInit, Apart, Accounted
<1>4. OneModule /\ ModuleWhole /\ CyclesReal
  BY DEF LoaderInit, OneModule, ModuleWhole, CyclesReal
<1>5. \A s \in Sessions : /\ StackSound(stack[s], text, loading, cached, globals)
                          /\ CallSound(stack[s], text, call[s])
  BY <1>1 DEF LoaderInit, StackSound, CallSound
<1> QED
  BY <1>2, <1>3, <1>4, <1>5 DEF LoaderInit, LoaderInv

(* Every step of every session keeps the invariant.                         *)
LEMMA NextLoaderInv == WellFormed /\ LoaderInv /\ [LoaderNext]_loaderVars => LoaderInv'
<1> SUFFICES ASSUME WellFormed, LoaderInv, [LoaderNext]_loaderVars PROVE LoaderInv'
  OBVIOUS
<1> USE DEF LoaderInv
<1>1. LoaderTypeOK
  OBVIOUS
<1>2. ASSUME NEW s \in Sessions, NEW c \in Resting \cup Looking,
             call' = [call EXCEPT ![s] = c], CallSound(stack[s], text, c),
             UNCHANGED <<text, cached, globals, importCache, loading, stack, made, refused>>
      PROVE  LoaderInv'
  <2>1. importCache' \in [Names -> SUBSET Paths] /\ refused' \subseteq [at : Paths, alone : BOOLEAN]
        /\ \A n \in Names : importCache'[n] \subseteq Found[n]
    BY <1>2 DEF LoaderTypeOK
  <2>2. \A r \in refused' : r.alone => OnCycle(r.at)
    BY <1>2 DEF CyclesReal
  <2> HIDE DEF LoaderInv
  <2> QED
    BY <1>2, <2>1, <2>2, CallStep
<1> HIDE DEF LoaderInv
<1>3. ASSUME NEW s \in Sessions, NEW n \in Names, Import(s, n)
      PROVE  LoaderInv'
  <2> DEFINE c == [phase |-> "asks", name |-> n]
  <2>1. c \in Resting \cup Looking
    BY DEF Looking
  <2>2. stack[s] = <<>>
    BY <1>3 DEF Import, LoaderInv, CallSound
  <2> QED
    BY <1>2, <1>3, <2>1, <2>2 DEF Import, Looks, CallSound
<1>4. ASSUME NEW s \in Sessions, Hit(s)
      PROVE  LoaderInv'
  <2>1. PICK p \in importCache[call[s].name] \cap cached : Answers(s, stack[s], globals[p])
    BY <1>4 DEF Hit
  <2>2. call[s].phase = "asks" /\ call[s].name \in Names
        /\ UNCHANGED <<text, cached, globals, importCache, loading, made, refused>>
    <3>1. call[s] \in Looking /\ call[s].phase = "asks"
      BY <1>1, <1>4 DEF Hit, LoaderTypeOK, Resting
    <3> QED
      BY <1>4, <3>1 DEF Hit, Looking
  <2>3. p \in Found[call[s].name]
    BY <2>2 DEF LoaderInv
  <2> QED
    BY <1>1, <2>1, <2>2, <2>3, AnswerStep DEF LoaderInv, LoaderTypeOK
<1>5. ASSUME NEW s \in Sessions, Read(s)
      PROVE  LoaderInv'
  <2> DEFINE c == [phase |-> "reads", name |-> call[s].name]
  <2>1. call[s] \in Looking /\ call[s].phase = "asks"
    BY <1>1, <1>5 DEF Read, LoaderTypeOK, Resting
  <2>2. c \in Resting \cup Looking
    BY <2>1 DEF Looking
  <2>3. CallSound(stack[s], text, c)
    BY <2>1 DEF LoaderInv, CallSound
  <2> QED
    BY <1>2, <1>5, <2>2, <2>3 DEF Read, Looks
<1>6. ASSUME NEW s \in Sessions, NotFound(s) \/ Broken(s)
      PROVE  LoaderInv'
  <2> DEFINE c == [phase |-> "fails"]
  <2>1. c \in Resting \cup Looking /\ CallSound(stack[s], text, c)
    BY DEF Resting, CallSound
  <2> QED
    BY <1>2, <1>6, <2>1 DEF NotFound, Broken, Goes
<1>7. ASSUME NEW s \in Sessions, Nested(s)
      PROVE  LoaderInv'
  <2> DEFINE top == Top(s)
             c == [phase |-> "asks", name |-> text[top.at][top.next]]
  <2>1. stack[s] # <<>>
    BY <1>7 DEF Nested, LoaderInv, CallSound
  <2>2. Len(stack[s]) \in 1 .. Len(stack[s]) /\ top = stack[s][Len(stack[s])]
        /\ top.at \in Paths /\ top.next \in Nat \ {0}
    BY <1>1, <2>1, StackType DEF Top
  <2> HIDE DEF top
  <2>3. Len(text[top.at]) \in Nat /\ top.next \in 1 .. Len(text[top.at])
    BY <1>1, <1>7, <2>2, TextType DEF Nested, top
  <2>4. text[top.at][top.next] \in Names
    BY <1>1, <2>2, <2>3, TextType
  <2>5. c \in Resting \cup Looking
    BY <2>4 DEF Looking
  <2>6. CallSound(stack[s], text, c)
    BY <2>1, <2>2, <2>3 DEF CallSound
  <2> QED
    BY <1>2, <1>7, <2>5, <2>6 DEF Nested, Looks, top
<1>8. ASSUME NEW s \in Sessions, NEW p \in Paths, Resolved(s, p)
      PROVE  /\ call[s] \in Looking /\ call[s].phase = "reads" /\ call[s].name \in Names
             /\ p \in Found[call[s].name]
             /\ importCache' \in [Names -> SUBSET Paths]
             /\ \A n \in Names : importCache'[n] \subseteq Found[n]
  <2>1. call[s] \in Looking /\ call[s].phase = "reads" /\ call[s].name \in Names
    BY <1>1, <1>8 DEF Resolved, LoaderTypeOK, Resting, Looking
  <2> QED
    BY <1>1, <1>8, <2>1 DEF Resolved, LoaderInv, LoaderTypeOK
<1>9. ASSUME NEW s \in Sessions, NEW p \in Paths, InCache(s, p)
      PROVE  LoaderInv'
  <2>1. Resolved(s, p) /\ p \in cached /\ Answers(s, stack[s], globals[p])
        /\ UNCHANGED <<text, cached, globals, loading, made, refused>>
    BY <1>9 DEF InCache
  <2> QED
    BY <1>8, <2>1, AnswerStep
<1>10. ASSUME NEW s \in Sessions, NEW p \in Paths, Refuse(s, p)
       PROVE  LoaderInv'
  <2> DEFINE c == [phase |-> "fails"]
             alone == \A t \in Sessions \ {s} : stack[t] = <<>>
  <2>1. Resolved(s, p) /\ p \in loading /\ call' = [call EXCEPT ![s] = c]
        /\ refused' = refused \cup {[at |-> p, alone |-> alone]}
        /\ UNCHANGED <<text, cached, globals, loading, stack, made>>
    BY <1>10 DEF Refuse, Circular, Goes
  <2>2. alone => OnCycle(p)
    BY <1>8, <2>1, RefusedOnCycle
  <2> HIDE DEF alone
  <2>3. alone \in BOOLEAN
    BY DEF alone
  <2>4. /\ refused' \subseteq [at : Paths, alone : BOOLEAN]
        /\ \A r \in refused' : r.alone => OnCycle(r.at)
    <3>1. /\ [at |-> p, alone |-> alone] \in [at : Paths, alone : BOOLEAN]
          /\ [at |-> p, alone |-> alone].at = p /\ [at |-> p, alone |-> alone].alone = alone
      BY <2>3
    <3>2. refused \subseteq [at : Paths, alone : BOOLEAN]
          /\ \A r \in refused : r.alone => OnCycle(r.at)
      BY <1>1 DEF LoaderTypeOK, LoaderInv, CyclesReal
    <3> QED
      BY <2>1, <2>2, <3>1, <3>2
  <2>5. c \in Resting \cup Looking /\ CallSound(stack[s], text, c)
    BY DEF Resting, CallSound
  <2> QED
    BY <1>8, <2>1, <2>4, <2>5, CallStep
<1>11. CASE UNCHANGED loaderVars
  BY <1>1, <1>11, SameCycles DEF loaderVars, LoaderInv, LoaderTypeOK, Apart, Accounted,
     OneModule, ModuleWhole, CyclesReal
<1>12. ASSUME NEW s \in Sessions, Proceed(s)
       PROVE  LoaderInv'
  <2>1. CASE \E p \in Paths : InCache(s, p) \/ Refuse(s, p) \/ Mark(s, p)
    BY <1>9, <1>10, <2>1, MarkStep
  <2>2. CASE Hit(s) \/ Read(s) \/ NotFound(s) \/ Nested(s) \/ Broken(s)
    BY <1>4, <1>5, <1>6, <1>7, <2>2
  <2>3. CASE Loaded(s) \/ Unwind(s)
    BY <2>3, LoadedStep, UnwindStep
  <2> QED
    BY <1>12, <2>1, <2>2, <2>3 DEF Proceed
<1> QED
  BY <1>3, <1>11, <1>12 DEF LoaderNext

(* What the theorems about the loader rest on.                              *)
LEMMA LoaderInductive == LoaderSpec => []LoaderInv
<1>1. LoaderInit => LoaderInv
  BY LoaderAssumption, InitLoaderInv
<1>2. LoaderInv /\ [LoaderNext]_loaderVars => LoaderInv'
  BY LoaderAssumption, NextLoaderInv
<1> QED
  BY <1>1, <1>2, PTL DEF LoaderSpec

(* Every way out of a Load removes the mark it made and no other: however   *)
(* many sessions import at once, a path is marked exactly while one of them *)
(* loads it, and no two load it.                                            *)
THEOREM MarksAreOwned == LoaderSpec => []MarksOwned
<1>1. LoaderInv => MarksOwned
  BY DEF LoaderInv, MarksOwned, StackSound, FrameSound, Apart, Accounted
<1> QED
  BY <1>1, LoaderInductive, PTL

(* A module is made once, under however many names and by however many      *)
(* sessions at once it is imported, and once in the cache it has the        *)
(* declarations of all that it imports.                                     *)
THEOREM CacheIsSound == LoaderSpec => []CacheSound
<1>1. LoaderInv => CacheSound
  BY DEF LoaderInv, CacheSound
<1> QED
  BY <1>1, LoaderInductive, PTL

(* An import that is refused as circular while no other session loads would *)
(* have led back to itself, by way of however many modules.                 *)
THEOREM CyclesAreReal == LoaderSpec => []CyclesReal
<1>1. LoaderInv => CyclesReal
  BY DEF LoaderInv
<1> QED
  BY <1>1, LoaderInductive, PTL
=============================================================================
