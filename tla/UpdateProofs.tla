----------------------------- MODULE UpdateProofs -----------------------------
(***************************************************************************)
(* The update transaction of the Linux helper: what is reported, what the   *)
(* journal covers, and what recovery touches, for any number of faults,     *)
(* kills, power losses and edits.                                           *)
(***************************************************************************)
EXTENDS AppImageUpdate, Integers, SequenceTheorems, TLAPS

(***************************************************************************)
(* Journals and instructions.                                               *)
(***************************************************************************)
Candidates == {"none", "new"}
Change == [name : Files, prior : Versions, candidate : Candidates]
Journals ==
  [stage : Nat \ {0}, replacing : BOOLEAN, previousActive : BOOLEAN,
   previousEnabled : BOOLEAN, start_attempted : BOOLEAN, enablement_attempted : BOOLEAN,
   candidate_stopped : BOOLEAN, enablement_reverted : BOOLEAN, complete : BOOLEAN,
   rolled_back : BOOLEAN, changes : Seq(Change)]

Plain == {"stop", "recoverState", "start", "sync", "clean", "validate", "begin",
          "published", "reload"}
Flags == {"start_attempted", "enablement_attempted", "candidate_stopped",
          "enablement_reverted", "complete", "rolled_back"}
Instructions ==
  [do : Plain] \cup [do : {"save"}, marks : SUBSET Flags] \cup [do : {"enable"}, to : BOOLEAN]
  \cup [do : {"intent", "put"}, name : Files, to : Candidates]
  \cup [do : {"syncFile"}, name : Files] \cup [do : {"restore"}, index : Nat]

TypeInv ==
  /\ visible \in [Files -> Versions] /\ durable \in [Files -> Versions]
  /\ {journal, onDisk, memory} \subseteq Journals \cup {NoJournal}
  /\ enabled \in BOOLEAN /\ running \in BOOLEAN
  /\ phase \in {"idle", "recover", "work", "undo", "restore", "seal", "settle"}
  /\ program \in Seq(Instructions)
  /\ failed \in BOOLEAN /\ finishing \in BOOLEAN
  /\ operation \in {"install", "remove", "repair", "disable", "prepare", "package"}
  /\ before \in [files : [Files -> Versions], enabled : BOOLEAN]
  /\ transactions \in Nat /\ edits \in Nat

Names(j) == {j.changes[i].name : i \in 1 .. Len(j.changes)}

Edited(f) == edits > 0 /\ visible[f] = "edited" /\ durable[f] = "edited"
Intact(f) == \/ visible[f] = before.files[f] /\ durable[f] = before.files[f]
             \/ Edited(f)

(***************************************************************************)
(* A journal that is not decided tells recovery all that it needs.          *)
(***************************************************************************)
CoversChange(j, i) ==
  LET c == j.changes[i]
  IN /\ {visible[c.name], durable[c.name]} \subseteq {c.prior, c.candidate} \/ Edited(c.name)
     /\ c.prior # "none" => <<j.stage, i>> \in backups
     /\ c.prior = before.files[c.name]
     /\ \A k \in 1 .. Len(j.changes) : j.changes[k].name = c.name => k = i

Covers(j) ==
  /\ j.stage \in stages /\ ~j.rolled_back
  /\ \A i \in 1 .. Len(j.changes) : CoversChange(j, i)
  /\ \A f \in Files \ Names(j) : Intact(f)
  /\ j.previousEnabled <=> before.files["record"] # "none" /\ before.enabled
  /\ ~j.enablement_attempted => (enabled <=> before.enabled)
  /\ j.enablement_reverted => ~enabled /\ ~j.previousEnabled

Ledger ==
  /\ ~Settled(journal) => Covers(journal)
  /\ ~Settled(onDisk) => Covers(onDisk)
  /\ Settled(journal) => visible = durable /\ (visible["record"] = "none" => ~enabled)
  /\ journal = NoJournal => Settled(onDisk)
  /\ ~Settled(journal) /\ Settled(onDisk) =>
        journal.changes = <<>> /\ ~journal.enablement_attempted
  /\ before.files["record"] = "none" => ~before.enabled

(***************************************************************************)
(* The instructions that are left.                                          *)
(***************************************************************************)
Is(s, i, k) == i \in 1 .. Len(s) /\ s[i].do = k
Has(s, k) == \E i \in 1 .. Len(s) : s[i].do = k
Puts(s, f) == \E i \in 1 .. Len(s) : s[i].do = "put" /\ s[i].name = f
Restores(s, k) == \E i \in 1 .. Len(s) : s[i].do = "restore" /\ s[i].index = k
Attempt(s, i) == Is(s, i, "save") /\ "enablement_attempted" \in s[i].marks
Decision(s, i) == Is(s, i, "save") /\ "complete" \in s[i].marks

\* The intent and the replacement of one file.
Same(x, y) == x.name = y.name /\ x.to = y.to

\* What is left of an operation: intents before replacements, flags before
\* commands, a durable decision before the end.
WorkingAt(s, i) ==
  /\ s[i].do # "restore"
  /\ Is(s, i, "intent") => Is(s, i + 1, "sync") /\ Is(s, i + 2, "put") /\ Same(s[i + 2], s[i])
  /\ Is(s, i, "put") =>
       /\ Is(s, i + 1, "syncFile") /\ s[i + 1].name = s[i].name
       /\ i > 1 => Is(s, i - 1, "sync")
       /\ i > 2 => Is(s, i - 2, "intent") /\ Same(s[i - 2], s[i])
  /\ Is(s, i, "syncFile") => (i > 1 => Is(s, i - 1, "put"))
  /\ Is(s, i, "enable") => (i > 1 => Is(s, i - 1, "sync")) /\ (i > 2 => Attempt(s, i - 2))
  /\ Is(s, i, "validate") => i = 1 /\ Is(s, 2, "begin")
  /\ Is(s, i, "begin") => (i > 1 => Is(s, i - 1, "validate")) /\ Is(s, i + 1, "published")
  /\ Is(s, i, "published") => (i > 1 => Is(s, i - 1, "begin"))
  /\ Is(s, i, "save") => s[i].marks \cap {"enablement_reverted", "rolled_back"} = {}

\* A program ends with a durable decision and the removal of the journal.
ClosingAt(s, i) ==
  /\ Is(s, i, "clean") => /\ i = Len(s)
                          /\ i > 1 => Is(s, i - 1, "sync")
                          /\ i > 2 => Decision(s, i - 2)
  /\ Decision(s, i) => Is(s, i + 1, "sync") /\ Is(s, i + 2, "clean")

Closing(s) == (s # <<>> => Is(s, Len(s), "clean")) /\ \A i \in 1 .. Len(s) : ClosingAt(s, i)

Working(s) == Closing(s) /\ \A i \in 1 .. Len(s) : WorkingAt(s, i)

Distinct(s) == \A i, k \in 1 .. Len(s) :
  Is(s, i, "intent") /\ Is(s, k, "intent") /\ s[i].name = s[k].name => i = k

UndoingAt(s, i) ==
  /\ s[i].do \in {"stop", "recoverState", "save", "sync", "enable"}
  /\ Is(s, i, "save") =>
       /\ s[i].marks \in {{"candidate_stopped"}, {"enablement_reverted"}}
       /\ "enablement_reverted" \in s[i].marks /\ i > 1 => Is(s, i - 1, "enable")
  /\ Is(s, i, "enable") => ~s[i].to

Undoing(s) == \A i \in 1 .. Len(s) : UndoingAt(s, i)

RestoringAt(s, i, m) ==
  /\ s[i].do \in {"restore", "syncFile", "reload", "enable"}
  /\ Is(s, i, "restore") => /\ s[i].index \in 1 .. Len(m.changes)
                            /\ Is(s, i + 1, "syncFile")
                            /\ s[i + 1].name = m.changes[s[i].index].name
  /\ Is(s, i, "enable") => s[i].to

Restoring(s, m) == \A i \in 1 .. Len(s) : RestoringAt(s, i, m)

SealingAt(s, i) ==
  /\ s[i].do \in {"recoverState", "start", "save", "sync", "clean"}
  /\ Is(s, i, "save") => s[i].marks = {"rolled_back", "complete"}
  /\ Is(s, i, "sync") => Is(s, i + 1, "clean")

Sealing(s) == Closing(s) /\ \A i \in 1 .. Len(s) : SealingAt(s, i)

(***************************************************************************)
(* What every phase knows.                                                  *)
(***************************************************************************)
Next1(k) == Is(program, 1, k)
Next2(k, l) == Is(program, 1, k) /\ Is(program, 2, l)

\* What is decided, and what of it is durable, at the end of a program.
Deciding ==
  /\ program = <<>> => memory.complete /\ Settled(journal) /\ Settled(onDisk)
  /\ program # <<>> => journal = memory
  /\ Next1("clean") => memory.complete /\ onDisk = journal
  /\ Next2("sync", "clean") => memory.complete
  /\ memory.complete => program = <<>> \/ Next1("clean") \/ Next2("sync", "clean")

\* The change of a file that is about to be put.
Noted(x) ==
  \E i \in 1 .. Len(memory.changes) :
    memory.changes[i].name = x.name /\ memory.changes[i].candidate = x.to

Unbegun ==
  /\ Settled(journal) /\ Settled(onDisk) /\ visible = before.files
  /\ enabled <=> before.enabled
  /\ program # <<>> => Next1("validate") \/ Next1("begin")

\* The flags and the journal before a command or a replacement.
Begun ==
  /\ Deciding /\ ~Next1("validate") /\ ~Next1("begin")
  /\ Next1("published") => /\ memory.changes = <<>> /\ ~memory.enablement_attempted
                           /\ Settled(onDisk)
  /\ ~memory.complete /\ Settled(onDisk) => Next1("published")
  /\ ~memory.rolled_back /\ ~memory.enablement_reverted
  /\ Next1("put") => onDisk = journal /\ Noted(program[1])
  /\ Next2("sync", "put") => Noted(program[2])
  /\ Next1("enable") => memory.enablement_attempted /\ onDisk = journal
  /\ Next2("sync", "enable") => memory.enablement_attempted

\* The files while an operation goes on.
Replaced ==
  /\ \A i \in 1 .. Len(program) : Is(program, i, "intent") => program[i].name \notin Names(memory)
  /\ \A f \in Files \ Names(memory) : visible[f] = before.files[f]
  /\ \A i \in 1 .. Len(memory.changes) :
       LET c == memory.changes[i]
       IN /\ c.candidate = Target[c.name]
          /\ \/ visible[c.name] = c.candidate
             \/ Next1("put") /\ program[1].name = c.name
             \/ Next2("sync", "put") /\ program[2].name = c.name

\* The operation on the way to its target.
Aiming ==
  /\ \A f \in Files : visible[f] # durable[f] => Next1("syncFile") /\ program[1].name = f
  /\ \A f \in Files : visible[f] = Target[f] \/ Puts(program, f)
  /\ \A f \in Files : visible[f] \in {Target[f], before.files[f]}
  /\ \A i \in 1 .. Len(program) :
       Is(program, i, "put") \/ Is(program, i, "intent") => program[i].to = Target[program[i].name]
  /\ operation = "remove" =>
       /\ enabled => Has(program, "enable")
       /\ \A i \in 1 .. Len(program) : Is(program, i, "enable") => ~program[i].to
  /\ operation \notin {"install", "package"} => before.files["record"] # "none"
  /\ operation = "package" => program = <<>> /\ memory = NoJournal

WorkInv ==
  /\ Working(program) /\ Distinct(program) /\ Aiming
  /\ memory = NoJournal => Unbegun
  /\ memory # NoJournal => Begun /\ Replaced

UndoInv ==
  /\ Undoing(program) /\ memory = journal /\ ~memory.complete
  /\ Has(program, "enable") => memory.enablement_attempted /\ ~memory.previousEnabled
  /\ Next1("save") /\ "enablement_reverted" \in program[1].marks =>
       ~enabled /\ ~memory.previousEnabled
  /\ memory.enablement_attempted /\ ~memory.previousEnabled /\ enabled =>
       Has(program, "enable")

RestoreInv ==
  /\ Restoring(program, memory) /\ memory = journal /\ ~memory.complete
  /\ Has(program, "enable") => memory.enablement_attempted /\ memory.previousEnabled
  /\ ~failed =>
       \A k \in 1 .. Len(memory.changes) :
         LET c == memory.changes[k]
         IN \/ Restores(program, k)
            \/ /\ visible[c.name] = c.prior
               /\ \/ durable[c.name] = c.prior
                  \/ Next1("syncFile") /\ program[1].name = c.name
  /\ ~failed /\ memory.enablement_attempted /\ memory.previousEnabled /\ ~enabled =>
       Has(program, "enable")
  /\ memory.enablement_attempted /\ ~memory.previousEnabled => ~enabled

SealInv ==
  /\ Sealing(program) /\ Deciding
  /\ \A f \in Files : Intact(f)
  /\ \A k \in 1 .. Len(memory.changes) :
       visible[memory.changes[k].name] = memory.changes[k].prior
  /\ enabled <=> before.enabled
  /\ memory.complete => memory.rolled_back

SettleInv ==
  /\ Sealing(program) /\ Deciding /\ memory.complete
  /\ finishing => ~memory.rolled_back /\ visible = Target

Control ==
  /\ phase \in {"idle", "recover"} => program = <<>> /\ memory = NoJournal
  /\ phase \in {"undo", "restore", "seal", "settle"} => memory # NoJournal
  /\ phase = "recover" /\ finishing /\ journal # NoJournal /\ journal.complete =>
       ~journal.rolled_back /\ visible = Target
  /\ phase = "work" => WorkInv
  /\ phase = "undo" => UndoInv
  /\ phase = "restore" => RestoreInv
  /\ phase = "seal" => SealInv
  /\ phase = "settle" => SettleInv

Reported == ReportIsDurable /\ (exit \in {"ok", "failed"} => phase = "idle")

IInv == TypeInv /\ Ledger /\ Control /\ Reported

-----------------------------------------------------------------------------
(***************************************************************************)
(* Programs: what is left after a step has the shape of the whole.          *)
(***************************************************************************)
LEMMA TailOf ==
  ASSUME NEW S, NEW s \in Seq(S), s # <<>>
  PROVE  /\ Tail(s) \in Seq(S) /\ Len(s) \in Nat \ {0} /\ Len(Tail(s)) = Len(s) - 1
         /\ \A i \in 1 .. Len(Tail(s)) : Tail(s)[i] = s[i + 1]
         /\ Head(s) = s[1] /\ s[1] \in S
  OBVIOUS

LEMMA TailIs ==
  ASSUME NEW S, NEW s \in Seq(S), s # <<>>
  PROVE  \A i \in Nat \ {0} : \A k : Is(Tail(s), i, k) <=> Is(s, i + 1, k)
  BY TailOf DEF Is

LEMMA TailHas ==
  ASSUME NEW S, NEW s \in Seq(S), s # <<>>
  PROVE  /\ \A k : Has(Tail(s), k) => Has(s, k)
         /\ \A k : Has(s, k) /\ ~Is(s, 1, k) => Has(Tail(s), k)
  <1>1. /\ Len(s) \in Nat \ {0} /\ Len(Tail(s)) = Len(s) - 1
        /\ \A i \in 1 .. Len(Tail(s)) : Tail(s)[i] = s[i + 1]
    BY TailOf
  <1>2. \A k : Has(Tail(s), k) => Has(s, k)
    BY <1>1 DEF Has
  <1>3. ASSUME NEW k, Has(s, k), ~Is(s, 1, k) PROVE Has(Tail(s), k)
    <2>1. PICK i \in 1 .. Len(s) : s[i].do = k
      BY <1>3 DEF Has
    <2>2. i - 1 \in 1 .. Len(Tail(s)) /\ Tail(s)[i - 1] = s[i]
      BY <1>1, <1>3, <2>1 DEF Is
    <2> QED
      BY <2>1, <2>2 DEF Has
  <1> QED
    BY <1>2, <1>3

LEMMA TailPuts ==
  ASSUME NEW S, NEW s \in Seq(S), s # <<>>, NEW f, Puts(s, f),
         ~Is(s, 1, "put") \/ s[1].name # f
  PROVE  Puts(Tail(s), f)
  <1>1. /\ Len(s) \in Nat \ {0} /\ Len(Tail(s)) = Len(s) - 1
        /\ \A i \in 1 .. Len(Tail(s)) : Tail(s)[i] = s[i + 1]
    BY TailOf
  <1>2. PICK i \in 1 .. Len(s) : s[i].do = "put" /\ s[i].name = f
    BY DEF Puts
  <1>3. i - 1 \in 1 .. Len(Tail(s)) /\ Tail(s)[i - 1] = s[i]
    BY <1>1, <1>2 DEF Is
  <1> QED
    BY <1>2, <1>3 DEF Puts

LEMMA TailRestores ==
  ASSUME NEW S, NEW s \in Seq(S), s # <<>>, NEW k, Restores(s, k),
         ~Is(s, 1, "restore") \/ s[1].index # k
  PROVE  Restores(Tail(s), k)
  <1>1. /\ Len(s) \in Nat \ {0} /\ Len(Tail(s)) = Len(s) - 1
        /\ \A i \in 1 .. Len(Tail(s)) : Tail(s)[i] = s[i + 1]
    BY TailOf
  <1>2. PICK i \in 1 .. Len(s) : s[i].do = "restore" /\ s[i].index = k
    BY DEF Restores
  <1>3. i - 1 \in 1 .. Len(Tail(s)) /\ Tail(s)[i - 1] = s[i]
    BY <1>1, <1>2 DEF Is
  <1> QED
    BY <1>2, <1>3 DEF Restores

LEMMA ClosingTail ==
  ASSUME NEW S, NEW s \in Seq(S), s # <<>>, Closing(s)
  PROVE  Closing(Tail(s))
  <1> DEFINE t == Tail(s)
  <1>1. /\ Len(s) \in Nat \ {0} /\ Len(t) = Len(s) - 1 /\ t \in Seq(S)
        /\ \A i \in 1 .. Len(t) : t[i] = s[i + 1]
    BY TailOf
  <1> HIDE DEF t
  <1>2. t # <<>> => Is(t, Len(t), "clean")
    BY <1>1 DEF Closing, Is
  <1>3. ASSUME NEW i \in 1 .. Len(t) PROVE ClosingAt(t, i)
    <2>1. i + 1 \in 1 .. Len(s) /\ ClosingAt(s, i + 1)
      BY <1>1 DEF Closing
    <2>2. ClosingAt(s, i + 1) => (Is(t, i, "clean") => i = Len(t))
      BY <1>1 DEF ClosingAt, Is
    <2>3. Is(t, i, "clean") => (i > 1 => Is(t, i - 1, "sync"))
      BY <1>1, <2>1 DEF ClosingAt, Is
    <2>4. Is(t, i, "clean") => (i > 2 => Decision(t, i - 2))
      BY <1>1, <2>1 DEF ClosingAt, Is, Decision
    <2>5. Decision(t, i) => Is(t, i + 1, "sync")
      BY <1>1, <2>1 DEF ClosingAt, Is, Decision
    <2>6. Decision(t, i) => Is(t, i + 2, "clean")
      BY <1>1, <2>1 DEF ClosingAt, Is, Decision
    <2> QED
      BY <2>1, <2>2, <2>3, <2>4, <2>5, <2>6 DEF ClosingAt
  <1> QED
    BY <1>2, <1>3 DEF Closing, t

LEMMA WorkingTail ==
  ASSUME NEW S, NEW s \in Seq(S), s # <<>>, Working(s)
  PROVE  Working(Tail(s))
  <1> DEFINE t == Tail(s)
  <1>1. /\ Len(s) \in Nat \ {0} /\ Len(t) = Len(s) - 1 /\ t \in Seq(S)
        /\ \A i \in 1 .. Len(t) : t[i] = s[i + 1]
    BY TailOf
  <1>2. Closing(t)
    BY ClosingTail DEF Working
  <1> HIDE DEF t
  <1>3. ASSUME NEW i \in 1 .. Len(t) PROVE WorkingAt(t, i)
    <2>1. /\ i \in Int /\ Len(t) \in Nat /\ Len(s) = Len(t) + 1 /\ 1 <= i /\ i <= Len(t)
          /\ i + 1 \in 1 .. Len(s) /\ WorkingAt(s, i + 1)
          /\ (i + 1) + 1 = i + 2 /\ (i + 1) + 2 = i + 3 /\ (i + 1) - 1 = i /\ (i + 1) - 2 = i - 1
          /\ i + 1 > 1 /\ (i > 1 => i + 1 > 2) /\ i + 1 # 1
      BY <1>1 DEF Working
    <2>2. /\ t[i] = s[i + 1]
          /\ i + 1 \in 1 .. Len(t) => t[i + 1] = s[i + 2]
          /\ i + 2 \in 1 .. Len(t) => t[i + 2] = s[i + 3]
          /\ i > 1 => t[i - 1] = s[i]
          /\ i > 2 => t[i - 2] = s[i - 1]
      <3>1. i > 1 => i - 1 \in 1 .. Len(t) /\ (i - 1) + 1 = i
        BY <2>1
      <3>2. i > 2 => i - 2 \in 1 .. Len(t) /\ (i - 2) + 1 = i - 1
        BY <2>1
      <3>3. /\ t[i] = s[i + 1]
            /\ i + 1 \in 1 .. Len(t) => t[i + 1] = s[(i + 1) + 1]
            /\ i + 2 \in 1 .. Len(t) => t[i + 2] = s[(i + 2) + 1]
            /\ i - 1 \in 1 .. Len(t) => t[i - 1] = s[(i - 1) + 1]
            /\ i - 2 \in 1 .. Len(t) => t[i - 2] = s[(i - 2) + 1]
        BY <1>1
      <3>4. (i + 2) + 1 = i + 3
        BY <2>1
      <3> QED
        BY <2>1, <3>1, <3>2, <3>3, <3>4
    <2>3. /\ i + 1 \in 1 .. Len(t) <=> i + 2 \in 1 .. Len(s)
          /\ i + 2 \in 1 .. Len(t) <=> i + 3 \in 1 .. Len(s)
          /\ i > 1 => i - 1 \in 1 .. Len(t) /\ i \in 1 .. Len(s)
          /\ i > 2 => i - 2 \in 1 .. Len(t) /\ i - 1 \in 1 .. Len(s)
      BY <2>1
    <2>4. \A k : /\ Is(t, i, k) <=> Is(s, i + 1, k)
                 /\ Is(t, i + 1, k) <=> Is(s, i + 2, k)
                 /\ Is(t, i + 2, k) <=> Is(s, i + 3, k)
                 /\ i > 1 => (Is(t, i - 1, k) <=> Is(s, i, k))
                 /\ i > 2 => (Is(t, i - 2, k) <=> Is(s, i - 1, k))
      BY <2>1, <2>2, <2>3 DEF Is
    <2>5. \A k : Is(t, i + 1, k) => t[i + 1] = s[i + 2]
      BY <2>2 DEF Is
    <2>6. \A k : Is(t, i + 2, k) => t[i + 2] = s[i + 3]
      BY <2>2 DEF Is
    <2>7. /\ s[i + 1].do # "restore" /\ ~Is(s, i + 1, "validate")
          /\ Is(s, i + 1, "intent") =>
               Is(s, i + 2, "sync") /\ Is(s, i + 3, "put") /\ Same(s[i + 3], s[i + 1])
          /\ Is(s, i + 1, "put") =>
               /\ Is(s, i + 2, "syncFile") /\ s[i + 2].name = s[i + 1].name /\ Is(s, i, "sync")
               /\ i > 1 => Is(s, i - 1, "intent") /\ Same(s[i - 1], s[i + 1])
          /\ Is(s, i + 1, "syncFile") => Is(s, i, "put")
          /\ Is(s, i + 1, "enable") => Is(s, i, "sync") /\ (i > 1 => Attempt(s, i - 1))
          /\ Is(s, i + 1, "begin") => Is(s, i, "validate") /\ Is(s, i + 2, "published")
          /\ Is(s, i + 1, "published") => Is(s, i, "begin")
          /\ Is(s, i + 1, "save") => s[i + 1].marks \cap {"enablement_reverted", "rolled_back"} = {}
      BY <2>1 DEF WorkingAt
    <2>8. i > 2 => i > 1
      BY <2>1
    <2>9. i > 2 => (Attempt(s, i - 1) => Attempt(t, i - 2))
      BY <2>2, <2>4 DEF Attempt
    <2> QED
      BY <2>2, <2>4, <2>5, <2>6, <2>7, <2>8, <2>9 DEF WorkingAt
  <1> QED
    BY <1>2, <1>3 DEF Working, t

LEMMA DistinctTail ==
  ASSUME NEW S, NEW s \in Seq(S), s # <<>>, Distinct(s)
  PROVE  Distinct(Tail(s))
  BY TailOf DEF Distinct, Is

LEMMA UndoingTail ==
  ASSUME NEW S, NEW s \in Seq(S), s # <<>>, Undoing(s)
  PROVE  Undoing(Tail(s))
  <1>1. /\ Len(s) \in Nat \ {0} /\ Len(Tail(s)) = Len(s) - 1
        /\ \A i \in 1 .. Len(Tail(s)) : Tail(s)[i] = s[i + 1]
    BY TailOf
  <1>2. ASSUME NEW i \in 1 .. Len(Tail(s)) PROVE UndoingAt(Tail(s), i)
    <2>1. i + 1 \in 1 .. Len(s) /\ UndoingAt(s, i + 1)
      BY <1>1 DEF Undoing
    <2> QED
      BY <1>1, <2>1 DEF UndoingAt, Is
  <1> QED
    BY <1>2 DEF Undoing

LEMMA RestoringTail ==
  ASSUME NEW S, NEW s \in Seq(S), s # <<>>, NEW m, Restoring(s, m)
  PROVE  Restoring(Tail(s), m)
  <1>1. /\ Len(s) \in Nat \ {0} /\ Len(Tail(s)) = Len(s) - 1
        /\ \A i \in 1 .. Len(Tail(s)) : Tail(s)[i] = s[i + 1]
    BY TailOf
  <1>2. ASSUME NEW i \in 1 .. Len(Tail(s)) PROVE RestoringAt(Tail(s), i, m)
    <2>1. i + 1 \in 1 .. Len(s) /\ RestoringAt(s, i + 1, m)
      BY <1>1 DEF Restoring
    <2> QED
      BY <1>1, <2>1 DEF RestoringAt, Is
  <1> QED
    BY <1>2 DEF Restoring

LEMMA SealingTail ==
  ASSUME NEW S, NEW s \in Seq(S), s # <<>>, Sealing(s)
  PROVE  Sealing(Tail(s))
  <1>1. /\ Len(s) \in Nat \ {0} /\ Len(Tail(s)) = Len(s) - 1
        /\ \A i \in 1 .. Len(Tail(s)) : Tail(s)[i] = s[i + 1]
    BY TailOf
  <1>2. ASSUME NEW i \in 1 .. Len(Tail(s)) PROVE SealingAt(Tail(s), i)
    <2>1. i + 1 \in 1 .. Len(s) /\ SealingAt(s, i + 1)
      BY <1>1 DEF Sealing
    <2> QED
      BY <1>1, <2>1 DEF SealingAt, Is
  <1> QED
    BY <1>2, ClosingTail DEF Sealing

(***************************************************************************)
(* The programs of the operations, block by block.                          *)
(***************************************************************************)
StrictAt(s, i) ==
  /\ s[i].do \notin {"restore", "clean"}
  /\ Is(s, i, "save") => s[i].marks \cap {"complete", "enablement_reverted", "rolled_back"} = {}
  /\ Is(s, i, "intent") => Is(s, i + 1, "sync") /\ Is(s, i + 2, "put") /\ Same(s[i + 2], s[i])
  /\ Is(s, i, "put") =>
       /\ Is(s, i + 1, "syncFile") /\ s[i + 1].name = s[i].name
       /\ Is(s, i - 1, "sync") /\ Is(s, i - 2, "intent") /\ Same(s[i - 2], s[i])
  /\ Is(s, i, "syncFile") => Is(s, i - 1, "put")
  /\ Is(s, i, "enable") => Is(s, i - 1, "sync") /\ Attempt(s, i - 2)
  /\ Is(s, i, "validate") => i = 1 /\ Is(s, 2, "begin")
  /\ Is(s, i, "begin") => (i > 1 => Is(s, i - 1, "validate")) /\ Is(s, i + 1, "published")
  /\ Is(s, i, "published") => Is(s, i - 1, "begin")

Strict(s) == \A i \in 1 .. Len(s) : StrictAt(s, i)

Quiet(s) == \A i \in 1 .. Len(s) : s[i].do \notin Preparing

IntentOf(s) == {f \in Files : \E i \in 1 .. Len(s) : s[i].do = "intent" /\ s[i].name = f}

\* What blocks have that make up a program.
Block(s) == s \in Seq(Instructions) /\ Strict(s) /\ Distinct(s)

LEMMA CatOf ==
  ASSUME NEW S, NEW s \in Seq(S), NEW t \in Seq(S)
  PROVE  /\ s \o t \in Seq(S) /\ Len(s \o t) = Len(s) + Len(t)
         /\ Len(s) \in Nat /\ Len(t) \in Nat
         /\ \A i \in 1 .. Len(s) : (s \o t)[i] = s[i]
         /\ \A i \in 1 .. Len(t) : (s \o t)[i + Len(s)] = t[i]
  OBVIOUS

LEMMA CatIs ==
  ASSUME NEW S, NEW s \in Seq(S), NEW t \in Seq(S)
  PROVE  /\ \A i \in Int : \A k : Is(s, i, k) => Is(s \o t, i, k)
         /\ \A i \in Int : \A k : Is(t, i, k) => Is(s \o t, i + Len(s), k)
         /\ \A i \in 1 .. Len(s) : \A k : Is(s \o t, i, k) => Is(s, i, k)
         /\ \A i \in 1 .. Len(t) : \A k : Is(s \o t, i + Len(s), k) => Is(t, i, k)
  BY CatOf DEF Is

LEMMA CatHas ==
  ASSUME NEW S, NEW s \in Seq(S), NEW t \in Seq(S)
  PROVE  /\ \A k : Has(s, k) \/ Has(t, k) => Has(s \o t, k)
         /\ \A f : Puts(s, f) \/ Puts(t, f) => Puts(s \o t, f)
  <1> DEFINE u == s \o t
  <1>1. /\ Len(u) = Len(s) + Len(t) /\ Len(s) \in Nat /\ Len(t) \in Nat
        /\ \A i \in 1 .. Len(s) : u[i] = s[i]
        /\ \A i \in 1 .. Len(t) : u[i + Len(s)] = t[i]
    BY CatOf
  <1> HIDE DEF u
  <1>2. \A i \in 1 .. Len(s) : i \in 1 .. Len(u)
    BY <1>1
  <1>3. \A i \in 1 .. Len(t) : i + Len(s) \in 1 .. Len(u)
    BY <1>1
  <1>4. ASSUME NEW k, Has(s, k) \/ Has(t, k) PROVE Has(u, k)
    BY <1>1, <1>2, <1>3, <1>4 DEF Has
  <1>5. ASSUME NEW f, Puts(s, f) \/ Puts(t, f) PROVE Puts(u, f)
    BY <1>1, <1>2, <1>3, <1>5 DEF Puts
  <1> QED
    BY <1>4, <1>5 DEF u

LEMMA StrictCat ==
  ASSUME NEW S, NEW s \in Seq(S), NEW t \in Seq(S), Strict(s), Strict(t), Quiet(t)
  PROVE  Strict(s \o t)
  <1> DEFINE u == s \o t
  <1>1. /\ Len(u) = Len(s) + Len(t) /\ Len(s) \in Nat /\ Len(t) \in Nat
        /\ \A i \in 1 .. Len(s) : u[i] = s[i]
        /\ \A i \in 1 .. Len(t) : u[i + Len(s)] = t[i]
    BY CatOf
  <1>2. /\ \A i \in Int : \A k : Is(s, i, k) => Is(u, i, k)
        /\ \A i \in Int : \A k : Is(t, i, k) => Is(u, i + Len(s), k)
        /\ \A i \in 1 .. Len(s) : \A k : Is(u, i, k) => Is(s, i, k)
        /\ \A i \in 1 .. Len(t) : \A k : Is(u, i + Len(s), k) => Is(t, i, k)
    BY CatIs
  <1> HIDE DEF u
  <1>3. /\ \A i \in Int : \A k : Is(s, i, k) => u[i] = s[i]
        /\ \A i \in Int : \A k : Is(t, i, k) => u[i + Len(s)] = t[i]
    BY <1>1 DEF Is
  <1>4. ASSUME NEW i \in 1 .. Len(s) PROVE StrictAt(u, i)
    <2>1. StrictAt(s, i) /\ u[i] = s[i]
      BY <1>1 DEF Strict
    <2>2. \A k : Is(u, i, k) <=> Is(s, i, k)
      BY <1>2
    <2>3. 1 \in Int /\ 2 \in Int /\ i - 1 \in Int /\ i - 2 \in Int /\ i + 1 \in Int /\ i + 2 \in Int
      OBVIOUS
    <2> QED
      BY <1>2, <1>3, <2>1, <2>2, <2>3 DEF StrictAt, Attempt, Same
  <1>5. ASSUME NEW i \in 1 .. Len(t) PROVE StrictAt(u, i + Len(s))
    <2>1. StrictAt(t, i) /\ u[i + Len(s)] = t[i] /\ t[i].do \notin Preparing
      BY <1>1 DEF Strict, Quiet
    <2>2. \A k : Is(u, i + Len(s), k) <=> Is(t, i, k)
      BY <1>2
    <2>3. i - 1 \in Int /\ i - 2 \in Int /\ i + 1 \in Int /\ i + 2 \in Int
      OBVIOUS
    <2>4. /\ (i - 1) + Len(s) = (i + Len(s)) - 1 /\ (i - 2) + Len(s) = (i + Len(s)) - 2
          /\ (i + 1) + Len(s) = (i + Len(s)) + 1 /\ (i + 2) + Len(s) = (i + Len(s)) + 2
      BY <1>1
    <2>5. /\ ~Is(t, i, "validate") /\ ~Is(t, i, "begin") /\ ~Is(t, i, "published")
      BY <2>1 DEF Is, Preparing
    <2> QED
      BY <1>2, <1>3, <2>1, <2>2, <2>3, <2>4, <2>5 DEF StrictAt, Attempt, Same
  <1>6. ASSUME NEW i \in 1 .. Len(u) PROVE StrictAt(u, i)
    <2>1. CASE i \in 1 .. Len(s)
      BY <1>4, <2>1
    <2>2. CASE i \notin 1 .. Len(s)
      <3>1. i - Len(s) \in 1 .. Len(t) /\ (i - Len(s)) + Len(s) = i
        BY <1>1, <2>2
      <3> QED
        BY <1>5, <3>1
    <2> QED
      BY <2>1, <2>2
  <1> QED
    BY <1>6 DEF Strict, u

LEMMA DistinctCat ==
  ASSUME NEW S, NEW s \in Seq(S), NEW t \in Seq(S), Distinct(s), Distinct(t),
         \A i \in 1 .. Len(s), k \in 1 .. Len(t) :
            s[i].do = "intent" /\ t[k].do = "intent" => s[i].name # t[k].name
  PROVE  Distinct(s \o t)
  <1> DEFINE u == s \o t
  <1>1. /\ Len(u) = Len(s) + Len(t) /\ Len(s) \in Nat /\ Len(t) \in Nat
        /\ \A i \in 1 .. Len(s) : u[i] = s[i]
        /\ \A i \in 1 .. Len(t) : u[i + Len(s)] = t[i]
    BY CatOf
  <1> HIDE DEF u
  <1>2. \A i \in 1 .. Len(u) : i \in 1 .. Len(s) \/ (i - Len(s) \in 1 .. Len(t) /\ u[i] = t[i - Len(s)])
    BY <1>1
  <1>3. ASSUME NEW i \in 1 .. Len(u), NEW k \in 1 .. Len(u), u[i].do = "intent", u[k].do = "intent",
               u[i].name = u[k].name
        PROVE  i = k
    <2>1. CASE i \in 1 .. Len(s) /\ k \in 1 .. Len(s)
      BY <1>1, <1>3, <2>1 DEF Distinct, Is
    <2>2. CASE i \notin 1 .. Len(s) /\ k \notin 1 .. Len(s)
      <3>1. i - Len(s) = k - Len(s)
        BY <1>2, <1>3, <2>2 DEF Distinct, Is
      <3> QED
        BY <1>1, <3>1
    <2>3. CASE i \in 1 .. Len(s) /\ k \notin 1 .. Len(s)
      BY <1>1, <1>2, <1>3, <2>3
    <2>4. CASE i \notin 1 .. Len(s) /\ k \in 1 .. Len(s)
      BY <1>1, <1>2, <1>3, <2>4
    <2> QED
      BY <2>1, <2>2, <2>3, <2>4
  <1> QED
    BY <1>3 DEF Distinct, u, Is

LEMMA BlockCat ==
  ASSUME NEW s, NEW t, Block(s), Block(t), Quiet(t), IntentOf(s) \cap IntentOf(t) = {}
  PROVE  Block(s \o t) /\ IntentOf(s \o t) = IntentOf(s) \cup IntentOf(t)
  <1>1. s \in Seq(Instructions) /\ t \in Seq(Instructions)
    BY DEF Block
  <1> DEFINE u == s \o t
  <1>2. /\ Len(u) = Len(s) + Len(t) /\ Len(s) \in Nat /\ Len(t) \in Nat
        /\ \A i \in 1 .. Len(s) : u[i] = s[i]
        /\ \A i \in 1 .. Len(t) : u[i + Len(s)] = t[i]
        /\ u \in Seq(Instructions)
    BY <1>1, CatOf
  <1>3. Strict(u)
    BY <1>1, StrictCat DEF Block
  <1>4. \A x \in Instructions : x.do = "intent" => x.name \in Files
    BY DEF Instructions, Plain
  <1>5. \A i \in 1 .. Len(s), k \in 1 .. Len(t) :
            s[i].do = "intent" /\ t[k].do = "intent" => s[i].name # t[k].name
    <2>1. \A i \in 1 .. Len(s) : s[i].do = "intent" => s[i].name \in IntentOf(s)
      BY <1>1, <1>4 DEF IntentOf
    <2>2. \A i \in 1 .. Len(t) : t[i].do = "intent" => t[i].name \in IntentOf(t)
      BY <1>1, <1>4 DEF IntentOf
    <2> QED
      BY <2>1, <2>2
  <1>6. Distinct(u)
    BY <1>1, <1>5, DistinctCat DEF Block
  <1> HIDE DEF u
  <1>7. IntentOf(u) = IntentOf(s) \cup IntentOf(t)
    <2>1. \A i \in 1 .. Len(s) : i \in 1 .. Len(u) /\ u[i] = s[i]
      BY <1>2
    <2>2. \A i \in 1 .. Len(t) : i + Len(s) \in 1 .. Len(u) /\ u[i + Len(s)] = t[i]
      BY <1>2
    <2>3. \A i \in 1 .. Len(u) : i \in 1 .. Len(s) \/ (i - Len(s) \in 1 .. Len(t) /\ u[i] = t[i - Len(s)])
      BY <1>2
    <2> DEFINE Names1(f, w) == \E i \in 1 .. Len(w) : w[i].do = "intent" /\ w[i].name = f
    <2>4. ASSUME NEW f \in Files PROVE f \in IntentOf(u) <=> f \in IntentOf(s) \/ f \in IntentOf(t)
      <3>1. Names1(f, u) => Names1(f, s) \/ Names1(f, t)
        BY <1>2, <2>3
      <3>2. Names1(f, s) => Names1(f, u)
        BY <2>1
      <3>3. Names1(f, t) => Names1(f, u)
        BY <2>2
      <3> QED
        BY <3>1, <3>2, <3>3 DEF IntentOf
    <2>5. \A x : x \in IntentOf(u) \/ x \in IntentOf(s) \/ x \in IntentOf(t) => x \in Files
      BY DEF IntentOf
    <2> QED
      BY <2>4, <2>5
  <1> QED
    BY <1>2, <1>3, <1>6, <1>7 DEF Block, u

LEMMA InstructionTypes ==
  /\ \A k \in Plain : Do(k) \in Instructions /\ Do(k).do = k
  /\ \A m \in SUBSET Flags : Mark(m) \in Instructions /\ Mark(m).do = "save" /\ Mark(m).marks = m
  /\ \A b \in BOOLEAN : Enable(b) \in Instructions /\ Enable(b).do = "enable" /\ Enable(b).to = b
  BY DEF Do, Mark, Enable, Instructions

LEMMA Joined12 ==
  ASSUME NEW S, NEW a \in S, NEW b \in S, NEW c \in S, NEW s, s = <<a>> \o <<b, c>>
  PROVE  s \in Seq(S) /\ Len(s) = 3 /\ s[1] = a /\ s[2] = b /\ s[3] = c
  OBVIOUS

LEMMA Joined21 ==
  ASSUME NEW S, NEW a \in S, NEW b \in S, NEW c \in S, NEW s, s = <<a, b>> \o <<c>>
  PROVE  s \in Seq(S) /\ Len(s) = 3 /\ s[1] = a /\ s[2] = b /\ s[3] = c
  OBVIOUS

LEMMA Joined22 ==
  ASSUME NEW S, NEW a \in S, NEW b \in S, NEW c \in S, NEW d \in S, NEW s,
         s = <<a, b>> \o <<c, d>>
  PROVE  s \in Seq(S) /\ Len(s) = 4 /\ s[1] = a /\ s[2] = b /\ s[3] = c /\ s[4] = d
  OBVIOUS

LEMMA SmallBlocks ==
  /\ Block(PrepareRemove) /\ Quiet(PrepareRemove) /\ IntentOf(PrepareRemove) = {}
  /\ Block(<<Do("reload")>>) /\ Quiet(<<Do("reload")>>) /\ IntentOf(<<Do("reload")>>) = {}
  /\ Block(Begin) /\ IntentOf(Begin) = {}
  /\ Block(<<Do("validate")>> \o Begin) /\ IntentOf(<<Do("validate")>> \o Begin) = {}
  <1>1. /\ Do("stop") \in Instructions /\ Do("stop").do = "stop"
        /\ Do("recoverState") \in Instructions /\ Do("recoverState").do = "recoverState"
        /\ Do("reload") \in Instructions /\ Do("reload").do = "reload"
        /\ Do("begin") \in Instructions /\ Do("begin").do = "begin"
        /\ Do("published") \in Instructions /\ Do("published").do = "published"
        /\ Do("validate") \in Instructions /\ Do("validate").do = "validate"
    BY InstructionTypes DEF Plain
  <1>2. Block(PrepareRemove) /\ Quiet(PrepareRemove) /\ IntentOf(PrepareRemove) = {}
    <2>1. PrepareRemove \in Seq(Instructions) /\ Len(PrepareRemove) = 2
      BY <1>1 DEF PrepareRemove
    <2>2. \A i \in 1 .. 2 : PrepareRemove[i].do \in {"stop", "recoverState"}
      BY <1>1 DEF PrepareRemove
    <2> QED
      BY <2>1, <2>2 DEF Block, Strict, StrictAt, Distinct, Quiet, IntentOf, Is, Preparing
  <1>3. Block(<<Do("reload")>>) /\ Quiet(<<Do("reload")>>) /\ IntentOf(<<Do("reload")>>) = {}
    <2> DEFINE s == <<Do("reload")>>
    <2>1. s \in Seq(Instructions) /\ Len(s) = 1
      BY <1>1
    <2>2. \A i \in 1 .. 1 : s[i].do = "reload"
      BY <1>1
    <2> HIDE DEF s
    <2>3. Block(s) /\ Quiet(s) /\ IntentOf(s) = {}
      BY <2>1, <2>2 DEF Block, Strict, StrictAt, Distinct, Quiet, IntentOf, Is, Preparing
    <2> QED
      BY <2>3 DEF s
  <1>4. Block(Begin) /\ IntentOf(Begin) = {}
    <2>1. Begin \in Seq(Instructions) /\ Len(Begin) = 2
      BY <1>1 DEF Begin
    <2>2. Begin[1].do = "begin" /\ Begin[2].do = "published"
      BY <1>1 DEF Begin
    <2> QED
      BY <2>1, <2>2 DEF Block, Strict, StrictAt, Distinct, IntentOf, Is
  <1>5. Block(<<Do("validate")>> \o Begin) /\ IntentOf(<<Do("validate")>> \o Begin) = {}
    <2> DEFINE s == <<Do("validate")>> \o Begin
    <2>1. s = <<Do("validate")>> \o <<Do("begin"), Do("published")>>
      BY DEF Begin
    <2> HIDE DEF s
    <2>2. /\ s \in Seq(Instructions) /\ Len(s) = 3
          /\ s[1] = Do("validate") /\ s[2] = Do("begin") /\ s[3] = Do("published")
      BY <1>1, <2>1, Joined12
    <2> HIDE DEF s
    <2>3. s[1].do = "validate" /\ s[2].do = "begin" /\ s[3].do = "published"
      BY <1>1, <2>2
    <2>4. Block(s) /\ IntentOf(s) = {}
      BY <2>2, <2>3 DEF Block, Strict, StrictAt, Distinct, IntentOf, Is
    <2> QED
      BY <2>4 DEF s
  <1> QED
    BY <1>2, <1>3, <1>4, <1>5

LEMMA PublishBlock ==
  ASSUME NEW f \in Files, NEW v \in Candidates
  PROVE  /\ Block(Publish(f, v)) /\ Quiet(Publish(f, v)) /\ IntentOf(Publish(f, v)) = {f}
         /\ Puts(Publish(f, v), f)
         /\ \A i \in 1 .. Len(Publish(f, v)) :
              /\ Publish(f, v)[i].do \in {"intent", "put"} => Publish(f, v)[i].to = v
              /\ Publish(f, v)[i].do # "enable"
  <1> DEFINE s == Publish(f, v)
  <1>1. Do("sync") \in Instructions /\ Do("sync").do = "sync"
    BY InstructionTypes DEF Plain
  <1>2. /\ Len(s) = 4
        /\ s[1] = [do |-> "intent", name |-> f, to |-> v] /\ s[2] = Do("sync")
        /\ s[3] = [do |-> "put", name |-> f, to |-> v]
        /\ s[4] = [do |-> "syncFile", name |-> f]
    BY DEF Publish
  <1>3. s \in Seq(Instructions)
    <2>1. /\ [do |-> "intent", name |-> f, to |-> v] \in Instructions
          /\ [do |-> "put", name |-> f, to |-> v] \in Instructions
          /\ [do |-> "syncFile", name |-> f] \in Instructions
      BY DEF Instructions
    <2> QED
      BY <1>1, <2>1 DEF Publish
  <1> HIDE DEF s
  <1>4. /\ s[1].do = "intent" /\ s[1].name = f /\ s[1].to = v /\ s[2].do = "sync"
        /\ s[3].do = "put" /\ s[3].name = f /\ s[3].to = v
        /\ s[4].do = "syncFile" /\ s[4].name = f
    BY <1>1, <1>2
  <1>5. Strict(s)
    BY <1>2, <1>4 DEF Strict, StrictAt, Is, Same
  <1>6. Distinct(s) /\ Quiet(s) /\ IntentOf(s) = {f} /\ Puts(s, f)
    BY <1>2, <1>4 DEF Distinct, Is, Quiet, Preparing, IntentOf, Puts
  <1>7. \A i \in 1 .. Len(s) : (s[i].do \in {"intent", "put"} => s[i].to = v) /\ s[i].do # "enable"
    BY <1>2, <1>4
  <1> QED
    BY <1>3, <1>5, <1>6, <1>7 DEF Block, s

LEMMA EnableBlocks ==
  /\ Block(BeforeStart \o EnableNow) /\ Quiet(BeforeStart \o EnableNow)
  /\ IntentOf(BeforeStart \o EnableNow) = {}
  /\ Block(BeforeEnablement \o <<Enable(FALSE)>>) /\ Quiet(BeforeEnablement \o <<Enable(FALSE)>>)
  /\ IntentOf(BeforeEnablement \o <<Enable(FALSE)>>) = {}
  <1> DEFINE m == {"start_attempted", "enablement_attempted"}
             n == {"enablement_attempted"}
             on == Enable(TRUE)
             off == Enable(FALSE)
  <1>1. /\ Mark(m) \in Instructions /\ Mark(m).do = "save" /\ Mark(m).marks = m
        /\ Mark(n) \in Instructions /\ Mark(n).do = "save" /\ Mark(n).marks = n
        /\ Do("sync") \in Instructions /\ Do("sync").do = "sync"
        /\ Do("start") \in Instructions /\ Do("start").do = "start"
        /\ on \in Instructions /\ on.do = "enable"
        /\ off \in Instructions /\ off.do = "enable"
    <2>1. m \in SUBSET Flags /\ n \in SUBSET Flags
      BY DEF Flags
    <2>2. TRUE \in BOOLEAN /\ FALSE \in BOOLEAN
      OBVIOUS
    <2> QED
      BY <2>1, <2>2, InstructionTypes DEF Plain
  <1>0. /\ BeforeStart = <<Mark(m), Do("sync")>> /\ EnableNow = <<on, Do("start")>>
        /\ BeforeEnablement = <<Mark(n), Do("sync")>>
    BY DEF BeforeStart, EnableNow, BeforeEnablement, Save
  <1>m. m = {"start_attempted", "enablement_attempted"} /\ n = {"enablement_attempted"}
    OBVIOUS
  <1> HIDE DEF m, n, on, off
  <1>2. Block(BeforeStart \o EnableNow) /\ Quiet(BeforeStart \o EnableNow)
        /\ IntentOf(BeforeStart \o EnableNow) = {}
    <2> DEFINE s == BeforeStart \o EnableNow
    <2>1. s = <<Mark(m), Do("sync")>> \o <<on, Do("start")>>
      BY <1>0, Zenon
    <2> HIDE DEF s
    <2>2. /\ s \in Seq(Instructions) /\ Len(s) = 4
          /\ s[1] = Mark(m) /\ s[2] = Do("sync") /\ s[3] = on /\ s[4] = Do("start")
      BY <1>1, <2>1, Joined22
    <2>3. /\ s[1].do = "save" /\ s[1].marks = m /\ s[2].do = "sync" /\ s[3].do = "enable"
          /\ s[4].do = "start"
      BY <1>1, <2>2
    <2> HIDE DEF s
    <2>4. Strict(s)
      BY <1>m, <2>2, <2>3 DEF Strict, StrictAt, Is, Attempt
    <2>5. Distinct(s) /\ Quiet(s) /\ IntentOf(s) = {}
      BY <2>2, <2>3 DEF Distinct, Quiet, IntentOf, Is, Preparing
    <2> QED
      BY <2>2, <2>4, <2>5 DEF s, Block
  <1>3. Block(BeforeEnablement \o <<off>>) /\ Quiet(BeforeEnablement \o <<off>>)
        /\ IntentOf(BeforeEnablement \o <<off>>) = {}
    <2> DEFINE s == BeforeEnablement \o <<off>>
    <2>1. s = <<Mark(n), Do("sync")>> \o <<off>>
      BY <1>0, Zenon
    <2> HIDE DEF s
    <2>2. /\ s \in Seq(Instructions) /\ Len(s) = 3
          /\ s[1] = Mark(n) /\ s[2] = Do("sync") /\ s[3] = off
      BY <1>1, <2>1, Joined21
    <2>3. s[1].do = "save" /\ s[1].marks = n /\ s[2].do = "sync" /\ s[3].do = "enable"
      BY <1>1, <2>2
    <2> HIDE DEF s
    <2>4. Strict(s)
      BY <1>m, <2>2, <2>3 DEF Strict, StrictAt, Is, Attempt
    <2>5. Distinct(s) /\ Quiet(s) /\ IntentOf(s) = {}
      BY <2>2, <2>3 DEF Distinct, Quiet, IntentOf, Is, Preparing
    <2> QED
      BY <2>2, <2>4, <2>5 DEF s, Block
  <1> QED
    BY <1>2, <1>3 DEF off

\* The versions that a program puts, and the enablements it commands.
Within(s, V, E) ==
  \A i \in 1 .. Len(s) : /\ s[i].do \in {"intent", "put"} => s[i].to \in V
                         /\ s[i].do = "enable" => s[i].to \in E

LEMMA WithinCat ==
  ASSUME NEW S, NEW s \in Seq(S), NEW t \in Seq(S), NEW V, NEW E,
         Within(s, V, E), Within(t, V, E)
  PROVE  Within(s \o t, V, E)
  <1> DEFINE u == s \o t
  <1>1. /\ Len(u) = Len(s) + Len(t) /\ Len(s) \in Nat /\ Len(t) \in Nat
        /\ \A i \in 1 .. Len(s) : u[i] = s[i]
        /\ \A i \in 1 .. Len(t) : u[i + Len(s)] = t[i]
    BY CatOf
  <1> HIDE DEF u
  <1>2. \A i \in 1 .. Len(u) : i \in 1 .. Len(s) \/ (i - Len(s) \in 1 .. Len(t) /\ u[i] = t[i - Len(s)])
    BY <1>1
  <1>3. ASSUME NEW i \in 1 .. Len(u)
        PROVE  /\ u[i].do \in {"intent", "put"} => u[i].to \in V
               /\ u[i].do = "enable" => u[i].to \in E
    <2>1. CASE i \in 1 .. Len(s)
      BY <1>1, <2>1 DEF Within
    <2>2. CASE i - Len(s) \in 1 .. Len(t) /\ u[i] = t[i - Len(s)]
      BY <2>2 DEF Within
    <2> QED
      BY <1>2, <2>1, <2>2
  <1> QED
    BY <1>3 DEF Within, u

LEMMA WithinBlocks ==
  ASSUME NEW V, NEW E
  PROVE  /\ Within(PrepareRemove, V, E) /\ Within(<<Do("reload")>>, V, E)
         /\ Within(Begin, V, E) /\ Within(<<Do("validate")>> \o Begin, V, E)
         /\ TRUE \in E => Within(BeforeStart \o EnableNow, V, E)
         /\ FALSE \in E => Within(BeforeEnablement \o <<Enable(FALSE)>>, V, E)
         /\ Has(BeforeEnablement \o <<Enable(FALSE)>>, "enable")
  <1> DEFINE m == {"start_attempted", "enablement_attempted"}
             n == {"enablement_attempted"}
             on == Enable(TRUE)
             off == Enable(FALSE)
             yes == TRUE
             no == FALSE
  <1>1. /\ Do("stop") \in Instructions /\ Do("stop").do = "stop"
        /\ Do("recoverState") \in Instructions /\ Do("recoverState").do = "recoverState"
        /\ Do("reload") \in Instructions /\ Do("reload").do = "reload"
        /\ Do("begin") \in Instructions /\ Do("begin").do = "begin"
        /\ Do("published") \in Instructions /\ Do("published").do = "published"
        /\ Do("validate") \in Instructions /\ Do("validate").do = "validate"
        /\ Do("sync") \in Instructions /\ Do("sync").do = "sync"
        /\ Do("start") \in Instructions /\ Do("start").do = "start"
    BY InstructionTypes DEF Plain
  <1>2. /\ Mark(m) \in Instructions /\ Mark(m).do = "save"
        /\ Mark(n) \in Instructions /\ Mark(n).do = "save"
        /\ on \in Instructions /\ on.do = "enable" /\ on.to = yes
        /\ off \in Instructions /\ off.do = "enable" /\ off.to = no
    <2>1. m \in SUBSET Flags /\ n \in SUBSET Flags
      BY DEF Flags
    <2>2. yes \in BOOLEAN /\ no \in BOOLEAN
      OBVIOUS
    <2> QED
      BY <2>1, <2>2, InstructionTypes
  <1>3. /\ BeforeStart \o EnableNow = <<Mark(m), Do("sync")>> \o <<on, Do("start")>>
        /\ BeforeEnablement \o <<off>> = <<Mark(n), Do("sync")>> \o <<off>>
    BY DEF BeforeStart, EnableNow, BeforeEnablement, Save
  <1> HIDE DEF m, n, on, off, yes, no
  <1>4. Within(PrepareRemove, V, E)
    <2>1. Len(PrepareRemove) = 2 /\ PrepareRemove[1] = Do("stop") /\ PrepareRemove[2] = Do("recoverState")
      BY DEF PrepareRemove
    <2> QED
      BY <1>1, <2>1 DEF Within
  <1>5. Within(<<Do("reload")>>, V, E)
    BY <1>1 DEF Within
  <1>6. Within(Begin, V, E)
    <2>1. Len(Begin) = 2 /\ Begin[1] = Do("begin") /\ Begin[2] = Do("published")
      BY DEF Begin
    <2> QED
      BY <1>1, <2>1 DEF Within
  <1>7. Within(<<Do("validate")>> \o Begin, V, E)
    <2>1. Within(<<Do("validate")>>, V, E)
      BY <1>1 DEF Within
    <2>2. <<Do("validate")>> \in Seq(Instructions) /\ Begin \in Seq(Instructions)
      BY <1>1 DEF Begin
    <2> QED
      BY <1>6, <2>1, <2>2, WithinCat
  <1>8. yes \in E => Within(BeforeStart \o EnableNow, V, E)
    <2> DEFINE s == BeforeStart \o EnableNow
    <2>1. s = <<Mark(m), Do("sync")>> \o <<on, Do("start")>>
      BY <1>3
    <2> HIDE DEF s
    <2>2. Len(s) = 4 /\ s[1] = Mark(m) /\ s[2] = Do("sync") /\ s[3] = on /\ s[4] = Do("start")
      BY <1>1, <1>2, <2>1, Joined22
    <2>3. yes \in E => Within(s, V, E)
      BY <1>1, <1>2, <2>2 DEF Within
    <2> QED
      BY <2>3 DEF s
  <1>9. no \in E => Within(BeforeEnablement \o <<off>>, V, E)
    <2> DEFINE s == BeforeEnablement \o <<off>>
    <2>1. s = <<Mark(n), Do("sync")>> \o <<off>>
      BY <1>3
    <2> HIDE DEF s
    <2>2. Len(s) = 3 /\ s[1] = Mark(n) /\ s[2] = Do("sync") /\ s[3] = off
      BY <1>1, <1>2, <2>1, Joined21
    <2>3. no \in E => Within(s, V, E)
      BY <1>1, <1>2, <2>2 DEF Within
    <2> QED
      BY <2>3 DEF s
  <1>10. Has(BeforeEnablement \o <<off>>, "enable")
    <2> DEFINE s == BeforeEnablement \o <<off>>
    <2>1. s = <<Mark(n), Do("sync")>> \o <<off>>
      BY <1>3
    <2> HIDE DEF s
    <2>2. Len(s) = 3 /\ s[3] = off
      BY <1>1, <1>2, <2>1, Joined21
    <2>3. Has(s, "enable")
      BY <1>2, <2>2 DEF Has
    <2> QED
      BY <2>3 DEF s
  <1> QED
    BY <1>4, <1>5, <1>6, <1>7, <1>8, <1>9, <1>10 DEF yes, no, off

LEMMA PublishAllBlock ==
  ASSUME NEW v \in Candidates, NEW E
  PROVE  /\ Block(PublishAll(v)) /\ Quiet(PublishAll(v)) /\ Within(PublishAll(v), {v}, E)
         /\ \A f \in Files : Puts(PublishAll(v), f)
  <1> DEFINE a == Publish("agent", v)
             u == Publish("unit", v)
             r == Publish("record", v)
  <1>0. "agent" \in Files /\ "unit" \in Files /\ "record" \in Files
    BY DEF Files
  <1>1. /\ Block(a) /\ Quiet(a) /\ IntentOf(a) = {"agent"} /\ Puts(a, "agent") /\ Within(a, {v}, E)
        /\ Block(u) /\ Quiet(u) /\ IntentOf(u) = {"unit"} /\ Puts(u, "unit") /\ Within(u, {v}, E)
        /\ Block(r) /\ Quiet(r) /\ IntentOf(r) = {"record"} /\ Puts(r, "record") /\ Within(r, {v}, E)
    BY <1>0, PublishBlock DEF Within
  <1> HIDE DEF a, u, r
  <1>2. a \in Seq(Instructions) /\ u \in Seq(Instructions) /\ r \in Seq(Instructions)
    BY <1>1 DEF Block
  <1>3. Block(a \o u) /\ IntentOf(a \o u) = {"agent", "unit"}
    <2>1. IntentOf(a) \cap IntentOf(u) = {}
      BY <1>1
    <2> QED
      BY <1>1, <2>1, BlockCat
  <1>4. Block((a \o u) \o r)
    <2>1. IntentOf(a \o u) \cap IntentOf(r) = {}
      BY <1>1, <1>3
    <2> QED
      BY <1>1, <1>3, <2>1, BlockCat
  <1>5. a \o u \in Seq(Instructions)
    BY <1>3 DEF Block
  <1>6. Within(a \o u, {v}, E)
    BY <1>1, <1>2, WithinCat
  <1>7. Within((a \o u) \o r, {v}, E)
    BY <1>1, <1>2, <1>5, <1>6, WithinCat
  <1>8. Quiet((a \o u) \o r)
    <2>1. ASSUME NEW x \in Seq(Instructions), NEW y \in Seq(Instructions), Quiet(x), Quiet(y)
          PROVE  Quiet(x \o y)
      <3> DEFINE w == x \o y
      <3>1. /\ Len(w) = Len(x) + Len(y) /\ Len(x) \in Nat /\ Len(y) \in Nat
            /\ \A i \in 1 .. Len(x) : w[i] = x[i]
            /\ \A i \in 1 .. Len(y) : w[i + Len(x)] = y[i]
        BY CatOf
      <3> HIDE DEF w
      <3>2. \A i \in 1 .. Len(w) : i \in 1 .. Len(x) \/ (i - Len(x) \in 1 .. Len(y) /\ w[i] = y[i - Len(x)])
        BY <3>1
      <3>3. Quiet(w)
        BY <2>1, <3>1, <3>2 DEF Quiet
      <3> QED
        BY <3>3 DEF w
    <2> QED
      BY <1>1, <1>2, <1>5, <2>1
  <1>9. ASSUME NEW f \in Files PROVE Puts((a \o u) \o r, f)
    <2>1. Puts(a, f) \/ Puts(u, f) \/ Puts(r, f)
      BY <1>1 DEF Files
    <2>2. Puts(a, f) \/ Puts(u, f) => Puts(a \o u, f)
      BY <1>2, CatHas
    <2>3. Puts(a \o u, f) \/ Puts(r, f) => Puts((a \o u) \o r, f)
      BY <1>2, <1>5, CatHas
    <2> QED
      BY <2>1, <2>2, <2>3
  <1> QED
    BY <1>4, <1>7, <1>8, <1>9 DEF PublishAll, a, u, r

LEMMA CommitOf ==
  /\ Commit \in Seq(Instructions) /\ Len(Commit) = 3
  /\ Commit[1].do = "save" /\ Commit[1].marks = {"complete"}
  /\ Commit[2].do = "sync" /\ Commit[3].do = "clean"
  <1> DEFINE m == {"complete"}
  <1>1. m \in SUBSET Flags
    BY DEF Flags
  <1>2. /\ Mark(m) \in Instructions /\ Mark(m).do = "save" /\ Mark(m).marks = m
        /\ Do("sync") \in Instructions /\ Do("sync").do = "sync"
        /\ Do("clean") \in Instructions /\ Do("clean").do = "clean"
    BY <1>1, InstructionTypes DEF Plain
  <1>3. Commit = <<Mark(m), Do("sync")>> \o <<Do("clean")>>
    BY DEF Commit, Save
  <1> HIDE DEF m
  <1>4. /\ Commit \in Seq(Instructions) /\ Len(Commit) = 3
        /\ Commit[1] = Mark(m) /\ Commit[2] = Do("sync") /\ Commit[3] = Do("clean")
    BY <1>2, <1>3, Joined21
  <1> QED
    BY <1>2, <1>4 DEF m

LEMMA WithCommit ==
  ASSUME NEW s, Block(s), NEW V, NEW E, Within(s, V, E)
  PROVE  /\ s \o Commit \in Seq(Instructions) /\ Working(s \o Commit) /\ Distinct(s \o Commit)
         /\ Within(s \o Commit, V, E)
  <1> DEFINE u == s \o Commit
             n == Len(s)
  <1>1. s \in Seq(Instructions) /\ Strict(s) /\ Distinct(s)
    BY DEF Block
  <1>2. /\ u \in Seq(Instructions) /\ Len(u) = n + 3 /\ n \in Nat
        /\ \A i \in 1 .. n : u[i] = s[i]
        /\ \A i \in 1 .. 3 : u[i + n] = Commit[i]
    <2>1. Commit \in Seq(Instructions) /\ Len(Commit) = 3
      BY CommitOf
    <2>2. /\ u \in Seq(Instructions) /\ Len(u) = n + Len(Commit) /\ n \in Nat
          /\ \A i \in 1 .. n : u[i] = s[i]
          /\ \A i \in 1 .. Len(Commit) : u[i + n] = Commit[i]
      BY <1>1, <2>1, CatOf
    <2> QED
      BY <2>1, <2>2
  <1>4. Distinct(u)
    <2>1. Distinct(Commit)
      BY CommitOf DEF Distinct, Is
    <2>2. \A k \in 1 .. Len(Commit) : Commit[k].do # "intent"
      BY CommitOf
    <2> QED
      BY <1>1, <2>1, <2>2, CommitOf, DistinctCat
  <1>5. Within(u, V, E)
    <2>1. Within(Commit, V, E)
      BY CommitOf DEF Within
    <2> QED
      BY <1>1, <2>1, CommitOf, WithinCat
  <1>6. \A i \in Int : \A k : Is(s, i, k) => Is(u, i, k) /\ u[i] = s[i]
    BY <1>1, <1>2, CatIs, CommitOf DEF Is
  <1> HIDE DEF u, n
  <1>3. /\ u[n + 1].do = "save" /\ u[n + 1].marks = {"complete"}
        /\ u[n + 2].do = "sync" /\ u[n + 3].do = "clean"
    <2>1. n + 1 = 1 + n /\ n + 2 = 2 + n /\ n + 3 = 3 + n
      BY <1>2
    <2>2. u[1 + n] = Commit[1] /\ u[2 + n] = Commit[2] /\ u[3 + n] = Commit[3]
      BY <1>2
    <2> QED
      BY <2>1, <2>2, CommitOf
  <1>7. ASSUME NEW i \in 1 .. n PROVE WorkingAt(u, i) /\ ClosingAt(u, i)
    <2>1. StrictAt(s, i) /\ u[i] = s[i]
      BY <1>1, <1>2 DEF Strict, n
    <2>2. \A k : Is(u, i, k) <=> Is(s, i, k)
      BY <1>2, <2>1 DEF Is, n
    <2>3. 1 \in Int /\ 2 \in Int /\ i - 1 \in Int /\ i - 2 \in Int /\ i + 1 \in Int /\ i + 2 \in Int
      OBVIOUS
    <2>4. WorkingAt(u, i)
      BY <1>6, <2>1, <2>2, <2>3 DEF StrictAt, WorkingAt, Attempt, Same
    <2>5. ClosingAt(u, i)
      <3>1. ~Is(s, i, "clean") /\ ~Decision(s, i)
        BY <2>1 DEF StrictAt, Is, Decision
      <3> QED
        BY <2>1, <2>2, <3>1 DEF ClosingAt, Decision
    <2> QED
      BY <2>4, <2>5
  <1>8. \A i \in 1 .. Len(u) : i \in 1 .. n \/ i = n + 1 \/ i = n + 2 \/ i = n + 3
    BY <1>2
  <1>9. WorkingAt(u, n + 1) /\ WorkingAt(u, n + 2) /\ WorkingAt(u, n + 3)
    BY <1>3 DEF WorkingAt, Is
  <1>10. ClosingAt(u, n + 1) /\ ClosingAt(u, n + 2) /\ ClosingAt(u, n + 3)
    <2>1. ClosingAt(u, n + 1)
      BY <1>2, <1>3 DEF ClosingAt, Is, Decision
    <2>2. ClosingAt(u, n + 2)
      BY <1>2, <1>3 DEF ClosingAt, Is, Decision
    <2>3. ClosingAt(u, n + 3)
      BY <1>2, <1>3 DEF ClosingAt, Is, Decision
    <2> QED
      BY <2>1, <2>2, <2>3
  <1>11. Is(u, Len(u), "clean")
    BY <1>2, <1>3 DEF Is
  <1>12. Working(u)
    BY <1>7, <1>8, <1>9, <1>10, <1>11 DEF Working, Closing
  <1> QED
    BY <1>2, <1>4, <1>5, <1>12 DEF u

\* An operation's program, and what it aims at.
Aim(op, s) ==
  /\ s \in Seq(Instructions) /\ Working(s) /\ Distinct(s)
  /\ op # "package" => Is(s, 1, "validate") \/ Is(s, 1, "begin")
  /\ op = "package" => s = <<>>
  /\ op = "install" => Within(s, {"new"}, BOOLEAN) /\ \A f \in Files : Puts(s, f)
  /\ op = "remove" => /\ Within(s, {"none"}, {FALSE}) /\ \A f \in Files : Puts(s, f)
                      /\ Has(s, "enable")
  /\ op \notin {"install", "remove"} => Within(s, {}, BOOLEAN)

LEMMA Extended ==
  ASSUME NEW s, NEW t, NEW V, NEW E, Block(s), Within(s, V, E),
         Block(t), Quiet(t), Within(t, V, E), IntentOf(s) = {} \/ IntentOf(t) = {}
  PROVE  /\ Block(s \o t) /\ Within(s \o t, V, E) /\ IntentOf(s \o t) = IntentOf(s) \cup IntentOf(t)
         /\ \A f : Puts(s, f) \/ Puts(t, f) => Puts(s \o t, f)
         /\ \A k : Has(s, k) \/ Has(t, k) => Has(s \o t, k)
         /\ \A k : Is(s, 1, k) => Is(s \o t, 1, k)
  <1>1. s \in Seq(Instructions) /\ t \in Seq(Instructions)
    BY DEF Block
  <1>2. Block(s \o t) /\ IntentOf(s \o t) = IntentOf(s) \cup IntentOf(t)
    BY BlockCat
  <1>3. Within(s \o t, V, E)
    BY <1>1, WithinCat
  <1>4. /\ \A f : Puts(s, f) \/ Puts(t, f) => Puts(s \o t, f)
        /\ \A k : Has(s, k) \/ Has(t, k) => Has(s \o t, k)
    BY <1>1, CatHas
  <1>5. \A k : Is(s, 1, k) => Is(s \o t, 1, k)
    <2>1. 1 \in Int
      OBVIOUS
    <2> QED
      BY <1>1, <2>1, CatIs
  <1> QED
    BY <1>2, <1>3, <1>4, <1>5

LEMMA Committed ==
  ASSUME NEW s, NEW V, NEW E, Block(s), Within(s, V, E)
  PROVE  /\ s \o Commit \in Seq(Instructions) /\ Working(s \o Commit) /\ Distinct(s \o Commit)
         /\ Within(s \o Commit, V, E)
         /\ \A f : Puts(s, f) => Puts(s \o Commit, f)
         /\ \A k : Has(s, k) => Has(s \o Commit, k)
         /\ \A k : Is(s, 1, k) => Is(s \o Commit, 1, k)
  <1>1. s \in Seq(Instructions) /\ Commit \in Seq(Instructions) /\ 1 \in Int
    BY CommitOf DEF Block
  <1> QED
    BY <1>1, WithCommit, CatHas, CatIs

LEMMA Opening ==
  /\ Is(Begin, 1, "begin") /\ Is(<<Do("validate")>> \o Begin, 1, "validate")
  <1>1. /\ Do("validate") \in Instructions /\ Do("begin") \in Instructions
        /\ Do("published") \in Instructions
        /\ Do("validate").do = "validate" /\ Do("begin").do = "begin"
    BY InstructionTypes DEF Plain
  <1> DEFINE s == <<Do("validate")>> \o Begin
  <1>2. s = <<Do("validate")>> \o <<Do("begin"), Do("published")>>
    BY DEF Begin
  <1> HIDE DEF s
  <1>3. Len(s) = 3 /\ s[1] = Do("validate")
    BY <1>1, <1>2, Joined12
  <1>4. Is(s, 1, "validate")
    BY <1>1, <1>3 DEF Is
  <1>5. Is(Begin, 1, "begin")
    BY <1>1 DEF Begin, Is
  <1> QED
    BY <1>4, <1>5 DEF s

LEMMA PartTypes ==
  /\ BeforeStart \in Seq(Instructions) /\ EnableNow \in Seq(Instructions)
  /\ BeforeEnablement \in Seq(Instructions) /\ <<Enable(FALSE)>> \in Seq(Instructions)
  <1> DEFINE m == {"start_attempted", "enablement_attempted"}
             n == {"enablement_attempted"}
             on == Enable(TRUE)
             off == Enable(FALSE)
  <1>1. m \in SUBSET Flags /\ n \in SUBSET Flags /\ TRUE \in BOOLEAN /\ FALSE \in BOOLEAN
    BY DEF Flags
  <1>2. /\ Mark(m) \in Instructions /\ Mark(n) \in Instructions /\ Do("sync") \in Instructions
        /\ on \in Instructions /\ off \in Instructions /\ Do("start") \in Instructions
    BY <1>1, InstructionTypes DEF Plain
  <1>3. /\ BeforeStart = <<Mark(m), Do("sync")>> /\ EnableNow = <<on, Do("start")>>
        /\ BeforeEnablement = <<Mark(n), Do("sync")>>
    BY DEF BeforeStart, BeforeEnablement, EnableNow, Save
  <1> HIDE DEF m, n, on, off
  <1>4. /\ <<Mark(m), Do("sync")>> \in Seq(Instructions) /\ <<on, Do("start")>> \in Seq(Instructions)
        /\ <<Mark(n), Do("sync")>> \in Seq(Instructions) /\ <<off>> \in Seq(Instructions)
    BY <1>2
  <1> QED
    BY <1>3, <1>4, Zenon DEF off

LEMMA InstallAim == Aim("install", Program("install"))
  <1> DEFINE p == IF visible["record"] = "none" THEN <<>> ELSE PrepareRemove
             B == Begin
             P == PublishAll("new")
             r == <<Do("reload")>>
             e == BeforeStart \o EnableNow
             a == B \o p
             b == a \o P
             c == b \o r
             d == c \o e
             W(s) == Within(s, {"new"}, BOOLEAN)
  <1>0. "new" \in Candidates /\ "new" \in {"new"} /\ TRUE \in BOOLEAN
    BY DEF Candidates
  <1>1. Block(p) /\ Quiet(p) /\ IntentOf(p) = {} /\ W(p)
    <2>1. CASE visible["record"] = "none"
      <3> DEFINE z == <<>>
      <3>1. z \in Seq(Instructions) /\ Len(z) = 0
        OBVIOUS
      <3> HIDE DEF z
      <3>2. Block(z) /\ Quiet(z) /\ IntentOf(z) = {} /\ W(z)
        BY <3>1 DEF Block, Strict, Distinct, Quiet, IntentOf, Within
      <3> QED
        BY <2>1, <3>2 DEF z
    <2>2. CASE visible["record"] # "none"
      BY <2>2, SmallBlocks, WithinBlocks
    <2> QED
      BY <2>1, <2>2
  <1>2. Block(B) /\ IntentOf(B) = {} /\ W(B) /\ Is(B, 1, "begin")
    BY SmallBlocks, WithinBlocks, Opening
  <1>3. Block(P) /\ Quiet(P) /\ W(P) /\ \A f \in Files : Puts(P, f)
    BY <1>0, PublishAllBlock
  <1>4. Block(r) /\ Quiet(r) /\ IntentOf(r) = {} /\ W(r)
    BY SmallBlocks, WithinBlocks
  <1>5. Block(e) /\ Quiet(e) /\ IntentOf(e) = {} /\ W(e)
    BY <1>0, EnableBlocks, WithinBlocks
  <1>6. Program("install") = d \o Commit
    <2>1. BeforeStart \in Seq(Instructions) /\ EnableNow \in Seq(Instructions)
      BY PartTypes
    <2>2. c \in Seq(Instructions)
      BY <1>1, <1>2, <1>3, <1>4, CatOf DEF Block
    <2> HIDE DEF c
    <2>3. d = (c \o BeforeStart) \o EnableNow
      BY <2>1, <2>2, ConcatAssociative
    <2> QED
      BY <2>3 DEF Program, c
  <1> HIDE DEF p, B, e, W, P, r
  <1>7. Block(a) /\ IntentOf(a) = {} /\ W(a) /\ Is(a, 1, "begin")
    BY <1>1, <1>2, Extended DEF W
  <1> HIDE DEF a
  <1>8. Block(b) /\ W(b) /\ Is(b, 1, "begin") /\ \A f \in Files : Puts(b, f)
    BY <1>3, <1>7, Extended DEF W
  <1> HIDE DEF b
  <1>9. Block(c) /\ W(c) /\ Is(c, 1, "begin") /\ \A f \in Files : Puts(c, f)
    BY <1>4, <1>8, Extended DEF W
  <1> HIDE DEF c
  <1>10. Block(d) /\ W(d) /\ Is(d, 1, "begin") /\ \A f \in Files : Puts(d, f)
    BY <1>5, <1>9, Extended DEF W
  <1> HIDE DEF d
  <1>11. /\ d \o Commit \in Seq(Instructions) /\ Working(d \o Commit) /\ Distinct(d \o Commit)
         /\ W(d \o Commit) /\ Is(d \o Commit, 1, "begin") /\ \A f \in Files : Puts(d \o Commit, f)
    BY <1>10, Committed DEF W
  <1> QED
    BY <1>6, <1>11 DEF Aim, W

LEMMA RemoveAim == Aim("remove", Program("remove"))
  <1> DEFINE B == Begin
             p == PrepareRemove
             e == BeforeEnablement \o <<Enable(FALSE)>>
             P == PublishAll("none")
             r == <<Do("reload")>>
             a == B \o p
             b == a \o e
             c == b \o P
             d == c \o r
             W(s) == Within(s, {"none"}, {FALSE})
  <1>0. "none" \in Candidates /\ FALSE \in {FALSE}
    BY DEF Candidates
  <1>1. Block(p) /\ Quiet(p) /\ IntentOf(p) = {} /\ W(p)
    BY SmallBlocks, WithinBlocks
  <1>2. Block(B) /\ IntentOf(B) = {} /\ W(B) /\ Is(B, 1, "begin")
    BY SmallBlocks, WithinBlocks, Opening
  <1>3. Block(P) /\ Quiet(P) /\ W(P) /\ \A f \in Files : Puts(P, f)
    BY <1>0, PublishAllBlock
  <1>4. Block(r) /\ Quiet(r) /\ IntentOf(r) = {} /\ W(r)
    BY SmallBlocks, WithinBlocks
  <1>5. Block(e) /\ Quiet(e) /\ IntentOf(e) = {} /\ W(e) /\ Has(e, "enable")
    BY <1>0, EnableBlocks, WithinBlocks
  <1>6. Program("remove") = d \o Commit
    <2>1. BeforeEnablement \in Seq(Instructions) /\ <<Enable(FALSE)>> \in Seq(Instructions)
      BY PartTypes
    <2>2. a \in Seq(Instructions)
      BY <1>1, <1>2, CatOf DEF Block
    <2> HIDE DEF a
    <2>3. b = (a \o BeforeEnablement) \o <<Enable(FALSE)>>
      BY <2>1, <2>2, ConcatAssociative
    <2> QED
      BY <2>3 DEF Program, a
  <1> HIDE DEF p, B, e, W, P, r
  <1>7. Block(a) /\ IntentOf(a) = {} /\ W(a) /\ Is(a, 1, "begin")
    BY <1>1, <1>2, Extended DEF W
  <1> HIDE DEF a
  <1>8. Block(b) /\ W(b) /\ IntentOf(b) = {} /\ Is(b, 1, "begin") /\ Has(b, "enable")
    BY <1>5, <1>7, Extended DEF W
  <1> HIDE DEF b
  <1>9. Block(c) /\ W(c) /\ Is(c, 1, "begin") /\ Has(c, "enable") /\ \A f \in Files : Puts(c, f)
    BY <1>3, <1>8, Extended DEF W
  <1> HIDE DEF c
  <1>10. Block(d) /\ W(d) /\ Is(d, 1, "begin") /\ Has(d, "enable") /\ \A f \in Files : Puts(d, f)
    BY <1>4, <1>9, Extended DEF W
  <1> HIDE DEF d
  <1>11. /\ d \o Commit \in Seq(Instructions) /\ Working(d \o Commit) /\ Distinct(d \o Commit)
         /\ W(d \o Commit) /\ Is(d \o Commit, 1, "begin") /\ Has(d \o Commit, "enable")
         /\ \A f \in Files : Puts(d \o Commit, f)
    BY <1>10, Committed DEF W
  <1> QED
    BY <1>6, <1>11 DEF Aim, W

LEMMA RepairAim == Aim("repair", Program("repair"))
  <1> DEFINE B == <<Do("validate")>> \o Begin
             p == PrepareRemove
             r == <<Do("reload")>>
             e == BeforeStart \o EnableNow
             a == B \o p
             c == a \o r
             d == c \o e
             W(s) == Within(s, {}, BOOLEAN)
  <1>0. TRUE \in BOOLEAN
    OBVIOUS
  <1>1. Block(p) /\ Quiet(p) /\ IntentOf(p) = {} /\ W(p)
    BY SmallBlocks, WithinBlocks
  <1>2. Block(B) /\ IntentOf(B) = {} /\ W(B) /\ Is(B, 1, "validate")
    BY SmallBlocks, WithinBlocks, Opening
  <1>4. Block(r) /\ Quiet(r) /\ IntentOf(r) = {} /\ W(r)
    BY SmallBlocks, WithinBlocks
  <1>5. Block(e) /\ Quiet(e) /\ IntentOf(e) = {} /\ W(e)
    BY <1>0, EnableBlocks, WithinBlocks
  <1>6. Program("repair") = d \o Commit
    <2>1. BeforeStart \in Seq(Instructions) /\ EnableNow \in Seq(Instructions)
      BY PartTypes
    <2>2. c \in Seq(Instructions)
      BY <1>1, <1>2, <1>4, CatOf DEF Block
    <2> HIDE DEF c
    <2>3. d = (c \o BeforeStart) \o EnableNow
      BY <2>1, <2>2, ConcatAssociative
    <2> QED
      BY <2>3 DEF Program, c
  <1> HIDE DEF p, B, e, W, r
  <1>7. Block(a) /\ IntentOf(a) = {} /\ W(a) /\ Is(a, 1, "validate")
    BY <1>1, <1>2, Extended DEF W
  <1> HIDE DEF a
  <1>9. Block(c) /\ W(c) /\ Is(c, 1, "validate")
    BY <1>4, <1>7, Extended DEF W
  <1> HIDE DEF c
  <1>10. Block(d) /\ W(d) /\ Is(d, 1, "validate")
    BY <1>5, <1>9, Extended DEF W
  <1> HIDE DEF d
  <1>11. /\ d \o Commit \in Seq(Instructions) /\ Working(d \o Commit) /\ Distinct(d \o Commit)
         /\ W(d \o Commit) /\ Is(d \o Commit, 1, "validate")
    BY <1>10, Committed DEF W
  <1> QED
    BY <1>6, <1>11 DEF Aim, W

LEMMA DisableAim == Aim("disable", Program("disable")) /\ Aim("prepare", Program("prepare"))
  <1> DEFINE B == Begin
             p == PrepareRemove
             e == BeforeEnablement \o <<Enable(FALSE)>>
             a == B \o p
             b == a \o e
             W(s) == Within(s, {}, BOOLEAN)
  <1>0. FALSE \in BOOLEAN
    OBVIOUS
  <1>1. Block(p) /\ Quiet(p) /\ IntentOf(p) = {} /\ W(p)
    BY SmallBlocks, WithinBlocks
  <1>2. Block(B) /\ IntentOf(B) = {} /\ W(B) /\ Is(B, 1, "begin")
    BY SmallBlocks, WithinBlocks, Opening
  <1>5. Block(e) /\ Quiet(e) /\ IntentOf(e) = {} /\ W(e)
    BY <1>0, EnableBlocks, WithinBlocks
  <1>6. Program("disable") = b \o Commit /\ Program("prepare") = a \o Commit
    <2>1. BeforeEnablement \in Seq(Instructions) /\ <<Enable(FALSE)>> \in Seq(Instructions)
      BY PartTypes
    <2>2. a \in Seq(Instructions)
      BY <1>1, <1>2, CatOf DEF Block
    <2> HIDE DEF a
    <2>3. b = (a \o BeforeEnablement) \o <<Enable(FALSE)>>
      BY <2>1, <2>2, ConcatAssociative
    <2> QED
      BY <2>3 DEF Program, a
  <1> HIDE DEF p, B, e, W
  <1>7. Block(a) /\ IntentOf(a) = {} /\ W(a) /\ Is(a, 1, "begin")
    BY <1>1, <1>2, Extended DEF W
  <1> HIDE DEF a
  <1>8. Block(b) /\ W(b) /\ Is(b, 1, "begin")
    BY <1>5, <1>7, Extended DEF W
  <1> HIDE DEF b
  <1>9. /\ b \o Commit \in Seq(Instructions) /\ Working(b \o Commit) /\ Distinct(b \o Commit)
        /\ W(b \o Commit) /\ Is(b \o Commit, 1, "begin")
    BY <1>8, Committed DEF W
  <1>10. /\ a \o Commit \in Seq(Instructions) /\ Working(a \o Commit) /\ Distinct(a \o Commit)
         /\ W(a \o Commit) /\ Is(a \o Commit, 1, "begin")
    BY <1>7, Committed DEF W
  <1> QED
    BY <1>6, <1>9, <1>10 DEF Aim, W

LEMMA EveryAim ==
  ASSUME NEW op \in {"install", "remove", "repair", "disable", "prepare", "package"}
  PROVE  Aim(op, Program(op))
  <1> DEFINE z == <<>>
  <1>1. z \in Seq(Instructions) /\ Len(z) = 0
    OBVIOUS
  <1>2. Program("package") = z
    BY DEF Program
  <1>3. z = <<>>
    OBVIOUS
  <1> HIDE DEF z
  <1>4. Aim("package", z)
    BY <1>1, <1>3 DEF Aim, Working, Closing, Distinct, Within
  <1> QED
    BY <1>2, <1>4, InstallAim, RemoveAim, RepairAim, DisableAim

(***************************************************************************)
(* The programs of recovery.                                                *)
(***************************************************************************)
LEMMA UndoShape ==
  ASSUME NEW j \in Journals
  PROVE  /\ UndoProgram(j) \in Seq(Instructions) /\ Undoing(UndoProgram(j))
         /\ Has(UndoProgram(j), "enable") <=>
              j.enablement_attempted /\ ~j.previousEnabled /\ ~j.enablement_reverted
         /\ ~Is(UndoProgram(j), 1, "save")
  <1> DEFINE cs == {"candidate_stopped"}
             er == {"enablement_reverted"}
             off == Enable(FALSE)
             no == FALSE
             a == PrepareRemove \o Save(cs)
             b == <<off>> \o Save(er)
  <1>1. /\ Mark(cs) \in Instructions /\ Mark(cs).do = "save" /\ Mark(cs).marks = cs
        /\ Mark(er) \in Instructions /\ Mark(er).do = "save" /\ Mark(er).marks = er
        /\ Do("stop") \in Instructions /\ Do("stop").do = "stop"
        /\ Do("recoverState") \in Instructions /\ Do("recoverState").do = "recoverState"
        /\ Do("sync") \in Instructions /\ Do("sync").do = "sync"
        /\ off \in Instructions /\ off.do = "enable" /\ off.to = no
    <2>1. cs \in SUBSET Flags /\ er \in SUBSET Flags /\ no \in BOOLEAN
      BY DEF Flags
    <2> QED
      BY <2>1, InstructionTypes DEF Plain
  <1>2. a = <<Do("stop"), Do("recoverState")>> \o <<Mark(cs), Do("sync")>>
    BY DEF PrepareRemove, Save
  <1>3. b = <<off>> \o <<Mark(er), Do("sync")>>
    BY DEF Save
  <1>4. UndoProgram(j) = (IF j.start_attempted /\ ~j.candidate_stopped THEN a ELSE <<>>)
          \o (IF j.enablement_attempted /\ ~j.previousEnabled /\ ~j.enablement_reverted THEN b ELSE <<>>)
    BY DEF UndoProgram
  <1>5. no = FALSE /\ cs = {"candidate_stopped"} /\ er = {"enablement_reverted"}
    OBVIOUS
  <1> HIDE DEF a, b, off, no, cs, er
  <1>6. /\ a \in Seq(Instructions) /\ Len(a) = 4 /\ a[1] = Do("stop") /\ a[2] = Do("recoverState")
        /\ a[3] = Mark(cs) /\ a[4] = Do("sync")
    BY <1>1, <1>2, Joined22
  <1>7. /\ b \in Seq(Instructions) /\ Len(b) = 3 /\ b[1] = off /\ b[2] = Mark(er) /\ b[3] = Do("sync")
    BY <1>1, <1>3, Joined12
  <1> DEFINE Fine(s, h) == /\ s \in Seq(Instructions) /\ Undoing(s) /\ ~Is(s, 1, "save")
                           /\ Has(s, "enable") <=> h
  <1>8. Fine(a, FALSE)
    <2>1. a[1].do = "stop" /\ a[2].do = "recoverState" /\ a[3].do = "save" /\ a[3].marks = cs
          /\ a[4].do = "sync"
      BY <1>1, <1>6
    <2>2. Undoing(a)
      BY <1>5, <1>6, <2>1 DEF Undoing, UndoingAt, Is
    <2> QED
      BY <1>6, <2>1, <2>2 DEF Is, Has
  <1>9. Fine(b, TRUE)
    <2>1. b[1].do = "enable" /\ b[1].to = no /\ b[2].do = "save" /\ b[2].marks = er /\ b[3].do = "sync"
      BY <1>1, <1>7
    <2>2. Undoing(b)
      BY <1>5, <1>7, <2>1 DEF Undoing, UndoingAt, Is
    <2>3. Has(b, "enable") /\ ~Is(b, 1, "save")
      BY <1>7, <2>1 DEF Is, Has
    <2> QED
      BY <1>7, <2>2, <2>3
  <1>10. Fine(a \o b, TRUE)
    <2> DEFINE u == a \o b
    <2>1. /\ u \in Seq(Instructions) /\ Len(u) = Len(a) + Len(b)
          /\ \A i \in 1 .. Len(a) : u[i] = a[i]
          /\ \A i \in 1 .. Len(b) : u[i + Len(a)] = b[i]
      <3>1. a \in Seq(Instructions) /\ b \in Seq(Instructions)
        BY <1>6, <1>7
      <3> QED
        BY <3>1, CatOf
    <2> HIDE DEF u
    <2>2. /\ Len(u) = 7 /\ u[1] = Do("stop") /\ u[2] = Do("recoverState") /\ u[3] = Mark(cs)
          /\ u[4] = Do("sync") /\ u[5] = off /\ u[6] = Mark(er) /\ u[7] = Do("sync")
      <3>1. u[1 + 4] = b[1] /\ u[2 + 4] = b[2] /\ u[3 + 4] = b[3]
        BY <1>6, <1>7, <2>1
      <3> QED
        BY <1>6, <1>7, <2>1, <3>1
    <2>3. /\ u[1].do = "stop" /\ u[2].do = "recoverState" /\ u[3].do = "save" /\ u[3].marks = cs
          /\ u[4].do = "sync" /\ u[5].do = "enable" /\ u[5].to = no /\ u[6].do = "save"
          /\ u[6].marks = er /\ u[7].do = "sync"
      BY <1>1, <2>2
    <2>4. Undoing(u)
      <3> USE DEF UndoingAt, Is
      <3>1. UndoingAt(u, 1) /\ UndoingAt(u, 2) /\ UndoingAt(u, 4) /\ UndoingAt(u, 7)
        BY <2>2, <2>3
      <3>2. UndoingAt(u, 3)
        BY <1>5, <2>2, <2>3
      <3>3. UndoingAt(u, 5)
        BY <1>5, <2>2, <2>3
      <3>4. UndoingAt(u, 6)
        BY <1>5, <2>2, <2>3
      <3>5. \A i \in 1 .. 7 : i \in {1, 2, 3, 4, 5, 6, 7}
        OBVIOUS
      <3> QED
        BY <2>2, <3>1, <3>2, <3>3, <3>4, <3>5 DEF Undoing
    <2>5. Has(u, "enable") /\ ~Is(u, 1, "save")
      BY <2>2, <2>3 DEF Has, Is
    <2> QED
      BY <2>1, <2>4, <2>5 DEF u
  <1>11. Fine(<<>>, FALSE) /\ <<>> \o b = b /\ a \o <<>> = a /\ <<>> \o <<>> = <<>>
    <2> DEFINE z == <<>>
    <2>1. z \in Seq(Instructions) /\ Len(z) = 0
      OBVIOUS
    <2>2. <<>> \o b = b /\ a \o <<>> = a /\ <<>> \o <<>> = <<>>
      BY <1>6, <1>7, <2>1, ConcatEmptySeq
    <2> HIDE DEF z
    <2>3. Fine(z, FALSE)
      BY <2>1 DEF Undoing, Is, Has
    <2> QED
      BY <2>2, <2>3 DEF z
  <1> HIDE DEF Fine
  <1> DEFINE h == j.enablement_attempted /\ ~j.previousEnabled /\ ~j.enablement_reverted
  <1>12. Fine(UndoProgram(j), h)
    <2>1. CASE j.start_attempted /\ ~j.candidate_stopped /\ h
      BY <1>4, <1>10, <2>1 DEF Fine
    <2>2. CASE j.start_attempted /\ ~j.candidate_stopped /\ ~h
      BY <1>4, <1>8, <1>11, <2>2 DEF Fine
    <2>3. CASE ~(j.start_attempted /\ ~j.candidate_stopped) /\ h
      BY <1>4, <1>9, <1>11, <2>3 DEF Fine
    <2>4. CASE ~(j.start_attempted /\ ~j.candidate_stopped) /\ ~h
      BY <1>4, <1>11, <2>4 DEF Fine
    <2> QED
      BY <2>1, <2>2, <2>3, <2>4
  <1> QED
    BY <1>12 DEF Fine

LEMMA Halves ==
  ASSUME NEW n \in Nat
  PROVE  /\ \A k \in 1 .. 2 * n : n - ((k - 1) \div 2) \in 1 .. n
         /\ \A k \in 1 .. 2 * n : k % 2 = 1 =>
              k + 1 \in 1 .. 2 * n /\ (k + 1) % 2 # 1 /\ ((k + 1) - 1) \div 2 = (k - 1) \div 2
         /\ \A k \in 1 .. n : /\ 2 * (n - k) + 1 \in 1 .. 2 * n /\ (2 * (n - k) + 1) % 2 = 1
                              /\ n - (((2 * (n - k) + 1) - 1) \div 2) = k
  OBVIOUS

LEMMA RestoreShape ==
  ASSUME NEW j \in Journals
  PROVE  /\ RestoreProgram(j) \in Seq(Instructions) /\ Restoring(RestoreProgram(j), j)
         /\ Has(RestoreProgram(j), "enable") <=> j.enablement_attempted /\ j.previousEnabled
         /\ \A k \in 1 .. Len(j.changes) : Restores(RestoreProgram(j), k)
  <1> DEFINE n == Len(j.changes)
             on == Enable(TRUE)
             yes == TRUE
             index(k) == n - ((k - 1) \div 2)
             step(k) == IF k % 2 = 1 THEN [do |-> "restore", index |-> index(k)]
                        ELSE [do |-> "syncFile", name |-> j.changes[index(k)].name]
             r == [k \in 1 .. 2 * n |-> step(k)]
             l == <<Do("reload")>>
             h == j.enablement_attempted /\ j.previousEnabled
             t == IF h THEN <<on>> ELSE <<>>
             u == r \o l
             s == u \o t
  <1>1. RestoreProgram(j) = s
    BY DEF RestoreProgram
  <1>2. n \in Nat /\ \A i \in 1 .. n : j.changes[i].name \in Files
    <2>1. j.changes \in Seq(Change)
      BY DEF Journals
    <2>2. \A c \in Change : c.name \in Files
      BY DEF Change
    <2> QED
      BY <2>1, <2>2
  <1> HIDE DEF n
  <1>3. ASSUME NEW k \in 1 .. 2 * n PROVE index(k) \in 1 .. n
    BY <1>2, Halves
  <1>4. ASSUME NEW k \in 1 .. 2 * n
        PROVE  /\ step(k) \in Instructions
               /\ k % 2 = 1 => step(k).do = "restore" /\ step(k).index = index(k)
               /\ k % 2 # 1 => step(k).do = "syncFile" /\ step(k).name = j.changes[index(k)].name
    <2>1. index(k) \in 1 .. n
      BY <1>3
    <2> HIDE DEF index
    <2>2. CASE k % 2 = 1
      <3>1. index(k) \in Nat
        BY <1>2, <2>1
      <3>2. [do |-> "restore", index |-> index(k)] \in Instructions
        BY <3>1 DEF Instructions
      <3> QED
        BY <2>2, <3>2
    <2>3. CASE k % 2 # 1
      <3>1. [do |-> "syncFile", name |-> j.changes[index(k)].name] \in Instructions
        BY <1>2, <2>1 DEF Instructions
      <3> QED
        BY <2>3, <3>1
    <2> QED
      BY <2>2, <2>3
  <1> HIDE DEF step
  <1>5. r \in Seq(Instructions) /\ Len(r) = 2 * n /\ \A k \in 1 .. 2 * n : r[k] = step(k)
    <2>1. r \in [1 .. 2 * n -> Instructions]
      BY <1>4
    <2>2. 2 * n \in Nat
      BY <1>2
    <2> QED
      BY <2>1, <2>2
  <1>6. /\ Do("reload") \in Instructions /\ Do("reload").do = "reload"
        /\ on \in Instructions /\ on.do = "enable" /\ on.to = yes
    <2>1. yes \in BOOLEAN
      OBVIOUS
    <2> QED
      BY <2>1, InstructionTypes DEF Plain
  <1>7. yes = TRUE
    OBVIOUS
  <1> HIDE DEF r, on, yes
  <1>8. l \in Seq(Instructions) /\ Len(l) = 1 /\ l[1] = Do("reload")
    BY <1>6
  <1>9. t \in Seq(Instructions) /\ Len(t) = (IF h THEN 1 ELSE 0) /\ (h => t[1] = on)
    BY <1>6
  <1> HIDE DEF l, t
  <1>10. /\ u \in Seq(Instructions) /\ Len(u) = 2 * n + 1
         /\ \A k \in 1 .. 2 * n : u[k] = step(k)
         /\ u[2 * n + 1] = Do("reload")
    <2>1. /\ u \in Seq(Instructions) /\ Len(u) = Len(r) + Len(l)
          /\ \A i \in 1 .. Len(r) : u[i] = r[i]
          /\ \A i \in 1 .. Len(l) : u[i + Len(r)] = l[i]
      <3>1. r \in Seq(Instructions) /\ l \in Seq(Instructions)
        BY <1>5, <1>8
      <3> QED
        BY <3>1, CatOf
    <2> HIDE DEF u
    <2>2. u[1 + 2 * n] = l[1] /\ 1 + 2 * n = 2 * n + 1
      BY <1>2, <1>5, <1>8, <2>1
    <2> QED
      BY <1>5, <1>8, <2>1, <2>2
  <1> HIDE DEF u
  <1>11. /\ s \in Seq(Instructions) /\ Len(s) = 2 * n + 1 + Len(t)
         /\ \A k \in 1 .. 2 * n : s[k] = step(k)
         /\ s[2 * n + 1] = Do("reload")
         /\ h => s[2 * n + 2] = on
    <2>1. /\ s \in Seq(Instructions) /\ Len(s) = Len(u) + Len(t)
          /\ \A i \in 1 .. Len(u) : s[i] = u[i]
          /\ \A i \in 1 .. Len(t) : s[i + Len(u)] = t[i]
      <3>1. u \in Seq(Instructions) /\ t \in Seq(Instructions)
        BY <1>9, <1>10
      <3> QED
        BY <3>1, CatOf
    <2> HIDE DEF s
    <2>2. h => s[1 + (2 * n + 1)] = t[1] /\ 1 + (2 * n + 1) = 2 * n + 2
      BY <1>2, <1>9, <1>10, <2>1
    <2>3. \A k \in 1 .. 2 * n : k \in 1 .. Len(u)
      BY <1>2, <1>10
    <2>4. 2 * n + 1 \in 1 .. Len(u)
      BY <1>2, <1>10
    <2>5. \A k \in 1 .. 2 * n : s[k] = step(k)
      BY <1>10, <2>1, <2>3
    <2>6. s[2 * n + 1] = Do("reload")
      BY <1>10, <2>1, <2>4
    <2> QED
      BY <1>9, <1>10, <2>1, <2>2, <2>5, <2>6
  <1> HIDE DEF s, h
  <1>12. \A i \in 1 .. Len(s) : i \in 1 .. 2 * n \/ i = 2 * n + 1 \/ (h /\ i = 2 * n + 2)
    BY <1>2, <1>9, <1>11
  <1>13. Restoring(s, j)
    <2>1. ASSUME NEW k \in 1 .. 2 * n PROVE RestoringAt(s, k, j)
      <3>1. CASE k % 2 = 1
        <4>1. k + 1 \in 1 .. 2 * n /\ (k + 1) % 2 # 1 /\ index(k + 1) = index(k)
          BY <1>2, <3>1, Halves
        <4>2. /\ s[k].do = "restore" /\ s[k].index = index(k) /\ index(k) \in 1 .. n
              /\ s[k + 1].do = "syncFile" /\ s[k + 1].name = j.changes[index(k)].name
          BY <1>3, <1>4, <1>11, <3>1, <4>1
        <4>3. k + 1 \in 1 .. Len(s)
          <5>1. Len(t) \in Nat /\ Len(s) = 2 * n + 1 + Len(t)
            BY <1>9, <1>11
          <5> QED
            BY <1>2, <4>1, <5>1
        <4> HIDE DEF index
        <4> QED
          BY <4>2, <4>3 DEF RestoringAt, Is, n
      <3>2. CASE k % 2 # 1
        <4>1. s[k].do = "syncFile"
          BY <1>4, <1>11, <3>2
        <4> QED
          BY <4>1 DEF RestoringAt, Is
      <3> QED
        BY <3>1, <3>2
    <2>2. RestoringAt(s, 2 * n + 1, j)
      BY <1>6, <1>11 DEF RestoringAt, Is
    <2>3. h => RestoringAt(s, 2 * n + 2, j)
      BY <1>6, <1>7, <1>11 DEF RestoringAt, Is
    <2> QED
      BY <1>12, <2>1, <2>2, <2>3 DEF Restoring
  <1>14. Has(s, "enable") <=> h
    <2>1. h => Has(s, "enable")
      <3>1. h => 2 * n + 2 \in 1 .. Len(s)
        BY <1>2, <1>9, <1>11
      <3> QED
        BY <1>6, <1>11, <3>1 DEF Has
    <2>2. \A k \in 1 .. 2 * n : s[k].do # "enable"
      BY <1>4, <1>11
    <2>3. s[2 * n + 1].do # "enable"
      BY <1>6, <1>11
    <2> QED
      BY <1>12, <2>1, <2>2, <2>3 DEF Has
  <1>15. ASSUME NEW k \in 1 .. n PROVE Restores(s, k)
    <2> DEFINE i == 2 * (n - k) + 1
    <2>1. i \in 1 .. 2 * n /\ i % 2 = 1 /\ index(i) = k
      BY <1>2, Halves
    <2>2. s[i].do = "restore" /\ s[i].index = k
      BY <1>4, <1>11, <2>1
    <2>3. i \in 1 .. Len(s)
      BY <1>2, <1>9, <1>11, <2>1
    <2> QED
      BY <2>2, <2>3 DEF Restores
  <1> QED
    BY <1>1, <1>11, <1>13, <1>14, <1>15 DEF h, n

LEMMA SealShape ==
  ASSUME NEW b \in BOOLEAN, NEW s,
         s = (IF b THEN StartPrevious ELSE <<>>) \o Save({"rolled_back", "complete"}) \o <<Do("clean")>>
  PROVE  /\ s \in Seq(Instructions) /\ Sealing(s)
         /\ Is(s, 1, "recoverState") \/ Is(s, 1, "save")
  <1> DEFINE m == {"rolled_back", "complete"}
             c == Save(m)
             p == IF b THEN StartPrevious ELSE <<>>
             u == p \o c
  <1>1. /\ Mark(m) \in Instructions /\ Mark(m).do = "save" /\ Mark(m).marks = m
        /\ Do("sync") \in Instructions /\ Do("sync").do = "sync"
        /\ Do("clean") \in Instructions /\ Do("clean").do = "clean"
        /\ Do("recoverState") \in Instructions /\ Do("recoverState").do = "recoverState"
        /\ Do("start") \in Instructions /\ Do("start").do = "start"
    <2>1. m \in SUBSET Flags
      BY DEF Flags
    <2> QED
      BY <2>1, InstructionTypes DEF Plain
  <1>2. c = <<Mark(m), Do("sync")>> /\ m = {"rolled_back", "complete"} /\ s = u \o <<Do("clean")>>
    BY DEF Save
  <1>3. p \in Seq(Instructions) /\ (IF b THEN Len(p) = 2 /\ p[1] = Do("recoverState") /\ p[2] = Do("start") ELSE Len(p) = 0)
    BY <1>1 DEF StartPrevious
  <1> HIDE DEF m, c, p
  <1>4. c \in Seq(Instructions) /\ Len(c) = 2 /\ c[1] = Mark(m) /\ c[2] = Do("sync")
    <2> DEFINE w == <<Mark(m), Do("sync")>>
    <2>1. w \in Seq(Instructions) /\ Len(w) = 2 /\ w[1] = Mark(m) /\ w[2] = Do("sync")
      BY <1>1
    <2> QED
      BY <1>2, <2>1, Zenon
  <1> DEFINE k == Len(p)
  <1>5. /\ u \in Seq(Instructions) /\ Len(u) = k + 2 /\ k \in {0, 2}
        /\ \A i \in 1 .. k : u[i] = p[i]
        /\ u[k + 1] = Mark(m) /\ u[k + 2] = Do("sync")
    <2>1. /\ u \in Seq(Instructions) /\ Len(u) = Len(p) + Len(c)
          /\ \A i \in 1 .. Len(p) : u[i] = p[i]
          /\ \A i \in 1 .. Len(c) : u[i + Len(p)] = c[i]
      <3>1. p \in Seq(Instructions) /\ c \in Seq(Instructions)
        BY <1>3, <1>4
      <3> QED
        BY <3>1, CatOf
    <2> HIDE DEF u
    <2>2. k \in {0, 2}
      BY <1>3
    <2>3. u[1 + k] = c[1] /\ u[2 + k] = c[2] /\ 1 + k = k + 1 /\ 2 + k = k + 2
      BY <1>4, <2>1, <2>2
    <2> QED
      BY <1>4, <2>1, <2>2, <2>3
  <1>6. <<Do("clean")>> \in Seq(Instructions)
    BY <1>1
  <1> HIDE DEF u
  <1>7. /\ s \in Seq(Instructions) /\ Len(s) = k + 3
        /\ \A i \in 1 .. k : s[i] = p[i]
        /\ s[k + 1] = Mark(m) /\ s[k + 2] = Do("sync") /\ s[k + 3] = Do("clean")
    <2> DEFINE l == <<Do("clean")>>
    <2>1. Len(l) = 1 /\ l[1] = Do("clean") /\ s = u \o l /\ l \in Seq(Instructions)
      BY <1>2, <1>6
    <2> HIDE DEF l, k
    <2>2. /\ s \in Seq(Instructions) /\ Len(s) = Len(u) + Len(l)
          /\ \A i \in 1 .. Len(u) : s[i] = u[i]
          /\ \A i \in 1 .. Len(l) : s[i + Len(u)] = l[i]
      <3>1. u \in Seq(Instructions) /\ l \in Seq(Instructions)
        BY <1>5, <2>1
      <3> DEFINE w == u \o l
      <3>2. /\ w \in Seq(Instructions) /\ Len(w) = Len(u) + Len(l)
            /\ \A i \in 1 .. Len(u) : w[i] = u[i]
            /\ \A i \in 1 .. Len(l) : w[i + Len(u)] = l[i]
        BY <3>1, CatOf
      <3>3. s = w
        BY <2>1
      <3> HIDE DEF w
      <3> QED
        BY <3>2, <3>3
    <2>3. s[1 + Len(u)] = l[1]
      <3>1. 1 \in 1 .. Len(l)
        BY <2>1
      <3> QED
        BY <2>2, <3>1
    <2>4. 1 + Len(u) = k + 3 /\ Len(s) = k + 3
      BY <1>5, <2>1, <2>2
    <2>5. \A i \in 1 .. k : i \in 1 .. Len(u)
      BY <1>5
    <2>6. k + 1 \in 1 .. Len(u) /\ k + 2 \in 1 .. Len(u)
      BY <1>5
    <2>7. s[k + 1] = u[k + 1] /\ s[k + 2] = u[k + 2]
      BY <2>2, <2>6
    <2>8. \A i \in 1 .. k : s[i] = u[i]
      BY <2>2, <2>5
    <2> QED
      BY <1>5, <2>1, <2>2, <2>3, <2>4, <2>7, <2>8
  <1>8. /\ s[k + 1].do = "save" /\ s[k + 1].marks = m /\ s[k + 2].do = "sync" /\ s[k + 3].do = "clean"
    BY <1>1, <1>7
  <1>9. CASE b
    <2>1. k = 2 /\ p[1] = Do("recoverState") /\ p[2] = Do("start")
      BY <1>3, <1>9
    <2> HIDE DEF k
    <2>2. /\ Len(s) = 5 /\ s[1] = p[1] /\ s[2] = p[2]
      BY <1>7, <2>1
    <2>3. /\ s[1].do = "recoverState" /\ s[2].do = "start" /\ s[3].do = "save" /\ s[3].marks = m
          /\ s[4].do = "sync" /\ s[5].do = "clean"
      BY <1>1, <1>8, <2>1, <2>2
    <2>4. SealingAt(s, 1) /\ SealingAt(s, 2) /\ SealingAt(s, 3) /\ SealingAt(s, 4) /\ SealingAt(s, 5)
      BY <1>2, <2>2, <2>3, SMTT(30) DEF SealingAt, Is
    <2>5. ClosingAt(s, 1) /\ ClosingAt(s, 2) /\ ClosingAt(s, 3) /\ ClosingAt(s, 4) /\ ClosingAt(s, 5)
      BY <1>2, <2>2, <2>3 DEF ClosingAt, Is, Decision
    <2>6. \A i \in 1 .. Len(s) : i = 1 \/ i = 2 \/ i = 3 \/ i = 4 \/ i = 5
      BY <2>2
    <2>7. Is(s, Len(s), "clean") /\ Is(s, 1, "recoverState")
      BY <2>2, <2>3 DEF Is
    <2> QED
      BY <1>7, <2>4, <2>5, <2>6, <2>7 DEF Sealing, Closing
  <1>10. CASE ~b
    <2>1. k = 0
      BY <1>3, <1>10
    <2> HIDE DEF k
    <2>2. /\ Len(s) = 3 /\ s[1].do = "save" /\ s[1].marks = m /\ s[2].do = "sync" /\ s[3].do = "clean"
      BY <1>7, <1>8, <2>1
    <2>4. SealingAt(s, 1) /\ SealingAt(s, 2) /\ SealingAt(s, 3)
      BY <1>2, <2>2 DEF SealingAt, Is
    <2>5. ClosingAt(s, 1) /\ ClosingAt(s, 2) /\ ClosingAt(s, 3)
      BY <1>2, <2>2 DEF ClosingAt, Is, Decision
    <2>6. \A i \in 1 .. Len(s) : i = 1 \/ i = 2 \/ i = 3
      BY <2>2
    <2>7. Is(s, Len(s), "clean") /\ Is(s, 1, "save")
      BY <2>2 DEF Is
    <2> QED
      BY <1>7, <2>4, <2>5, <2>6, <2>7 DEF Sealing, Closing
  <1> QED
    BY <1>9, <1>10

LEMMA SettleShape ==
  ASSUME NEW s, s = <<Do("sync"), Do("clean")>>
  PROVE  s \in Seq(Instructions) /\ Sealing(s) /\ Is(s, 1, "sync") /\ Is(s, 2, "clean")
  <1>1. /\ Do("sync") \in Instructions /\ Do("sync").do = "sync"
        /\ Do("clean") \in Instructions /\ Do("clean").do = "clean"
    BY InstructionTypes DEF Plain
  <1>2. /\ s \in Seq(Instructions) /\ Len(s) = 2 /\ s[1].do = "sync" /\ s[2].do = "clean"
    BY <1>1
  <1> QED
    BY <1>2 DEF Sealing, SealingAt, Closing, ClosingAt, Decision, Is

-----------------------------------------------------------------------------
(***************************************************************************)
(* What a step reads.                                                       *)
(***************************************************************************)
LEMMA JournalOf ==
  ASSUME NEW j \in Journals
  PROVE  /\ j.changes \in Seq(Change) /\ Len(j.changes) \in Nat /\ j.stage \in Nat \ {0}
         /\ j # NoJournal /\ (Settled(j) <=> j.complete)
         /\ \A i \in 1 .. Len(j.changes) :
              /\ j.changes[i] \in Change /\ j.changes[i].name \in Files
              /\ j.changes[i].prior \in Versions /\ j.changes[i].candidate \in Candidates
         /\ {j.start_attempted, j.enablement_attempted, j.candidate_stopped, j.enablement_reverted,
             j.complete, j.rolled_back, j.previousActive, j.previousEnabled, j.replacing}
              \subseteq BOOLEAN
  <1>1. /\ j.changes \in Seq(Change) /\ j.stage \in Nat \ {0}
        /\ j.start_attempted \in BOOLEAN /\ j.enablement_attempted \in BOOLEAN
        /\ j.candidate_stopped \in BOOLEAN /\ j.enablement_reverted \in BOOLEAN
        /\ j.complete \in BOOLEAN /\ j.rolled_back \in BOOLEAN /\ j.previousActive \in BOOLEAN
        /\ j.previousEnabled \in BOOLEAN /\ j.replacing \in BOOLEAN
    BY DEF Journals
  <1>2. j # NoJournal
    BY <1>1 DEF NoJournal
  <1>3. \A c \in Change : c.name \in Files /\ c.prior \in Versions /\ c.candidate \in Candidates
    BY DEF Change
  <1>4. \A i \in 1 .. Len(j.changes) : j.changes[i] \in Change
    BY <1>1
  <1>5. Len(j.changes) \in Nat
    BY <1>1
  <1>6. Settled(j) <=> j.complete
    BY <1>1, <1>2 DEF Settled
  <1> QED
    BY <1>1, <1>2, <1>3, <1>4, <1>5, <1>6

LEMMA NothingIsSettled == Settled(NoJournal) /\ NoJournal \notin Journals
  BY JournalOf DEF Settled

LEMMA HeadOf ==
  ASSUME TypeInv, program # <<>>
  PROVE  /\ program \in Seq(Instructions) /\ Op = program[1] /\ program[1] \in Instructions
         /\ Len(program) \in Nat \ {0} /\ \A k : Op.do = k <=> Next1(k)
  <1>1. program \in Seq(Instructions)
    BY DEF TypeInv
  <1>2. /\ Len(program) \in Nat \ {0} /\ Head(program) = program[1] /\ program[1] \in Instructions
    BY <1>1, TailOf
  <1> QED
    BY <1>1, <1>2 DEF Op, Next1, Is

LEMMA InstructionOf ==
  ASSUME NEW x \in Instructions
  PROVE  /\ x.do = "save" => x.marks \in SUBSET Flags
         /\ x.do = "enable" => x.to \in BOOLEAN
         /\ x.do \in {"intent", "put"} => x.name \in Files /\ x.to \in Candidates
         /\ x.do = "syncFile" => x.name \in Files
         /\ x.do = "restore" => x.index \in Nat
         /\ x.do \in Plain \cup {"save", "enable", "intent", "put", "syncFile", "restore"}
  BY DEF Instructions, Plain

LEMMA AdvanceOf ==
  ASSUME TypeInv, program # <<>>, Advance
  PROVE  /\ program' \in Seq(Instructions) /\ Len(program') = Len(program) - 1
         /\ \A i \in 1 .. Len(program') : program'[i] = program[i + 1]
         /\ \A k : Next1(k)' <=> Is(program, 2, k)
         /\ \A k, l : Next2(k, l)' <=> Is(program, 2, k) /\ Is(program, 3, l)
         /\ Is(program, 2, "put") => program'[1] = program[2]
  <1>1. program \in Seq(Instructions) /\ program' = Tail(program)
    BY DEF TypeInv, Advance
  <1>2. /\ program' \in Seq(Instructions) /\ Len(program') = Len(program) - 1
        /\ Len(program) \in Nat \ {0}
        /\ \A i \in 1 .. Len(program') : program'[i] = program[i + 1]
    BY <1>1, TailOf
  <1>3. \A k : Is(program', 1, k) <=> Is(program, 2, k)
    BY <1>2 DEF Is
  <1>4. \A k : Is(program', 2, k) <=> Is(program, 3, k)
    BY <1>2 DEF Is
  <1>5. \A k : Next1(k)' <=> Is(program', 1, k)
    BY DEF Next1, Is
  <1>6. \A k, l : Next2(k, l)' <=> Is(program', 1, k) /\ Is(program', 2, l)
    BY DEF Next2, Is
  <1>7. Is(program, 2, "put") => program'[1] = program[2]
    BY <1>2 DEF Is
  <1> QED
    BY <1>2, <1>3, <1>4, <1>5, <1>6, <1>7

LEMMA ClosingWindow ==
  ASSUME TypeInv, program # <<>>, Advance, Closing(program)
  PROVE  /\ Next1("clean")' <=> Next2("sync", "clean")
         /\ Next2("sync", "clean")' <=> Decision(program, 1)
         /\ program' = <<>> <=> Next1("clean")
  <1>1. program \in Seq(Instructions) /\ Len(program) \in Nat \ {0}
    BY HeadOf
  <1>2. /\ Next1("clean")' <=> Is(program, 2, "clean")
        /\ Next2("sync", "clean")' <=> Is(program, 2, "sync") /\ Is(program, 3, "clean")
        /\ Len(program') = Len(program) - 1 /\ program' \in Seq(Instructions)
    BY AdvanceOf
  <1>3. Is(program, 2, "clean") => Is(program, 1, "sync")
    BY <1>1 DEF Closing, ClosingAt, Is
  <1>4. Is(program, 3, "clean") => Decision(program, 1)
    <2>1. ASSUME Is(program, 3, "clean") PROVE Decision(program, 1)
      <3>1. 3 \in 1 .. Len(program)
        BY <2>1 DEF Is
      <3>2. ClosingAt(program, 3) /\ 3 > 2 /\ 3 - 2 = 1
        BY <3>1 DEF Closing
      <3> QED
        BY <2>1, <3>2 DEF ClosingAt
    <2> QED
      BY <2>1
  <1>5. Decision(program, 1) => Is(program, 2, "sync") /\ Is(program, 3, "clean")
    BY <1>1 DEF Closing, ClosingAt
  <1>6. Next1("clean") => Len(program) = 1
    BY <1>1 DEF Closing, ClosingAt, Next1, Is
  <1>7. Len(program) = 1 => Next1("clean")
    BY <1>1 DEF Closing, Next1, Is
  <1>8. program' = <<>> <=> Len(program) = 1
    BY <1>1, <1>2
  <1> QED
    BY <1>2, <1>3, <1>4, <1>5, <1>6, <1>7, <1>8 DEF Next2

LEMMA Window ==
  ASSUME TypeInv, program # <<>>, Advance, Working(program)
  PROVE  /\ ~Next1("validate")'
         /\ Next1("begin")' => Next1("validate")
         /\ Next1("validate") => Next1("begin")'
         /\ Next1("published")' => Next1("begin")
         /\ Next1("begin") => Next1("published")'
         /\ Next1("put")' => Next2("sync", "put") /\ program'[1] = program[2]
         /\ Next2("sync", "put")' => Next1("intent")
         /\ Next1("intent") => Next2("sync", "put")' /\ Same(program'[2], program[1])
         /\ Next1("put") => Next1("syncFile")' /\ program'[1].name = program[1].name
         /\ Next1("syncFile")' => Next1("put")
         /\ Next1("enable")' => Next2("sync", "enable")
         /\ Next2("sync", "enable")' => Attempt(program, 1)
  <1>1. program \in Seq(Instructions) /\ Len(program) \in Nat \ {0}
    BY HeadOf
  <1>2. /\ \A k : Next1(k)' <=> Is(program, 2, k)
        /\ \A k, l : Next2(k, l)' <=> Is(program, 2, k) /\ Is(program, 3, l)
        /\ \A i \in 1 .. Len(program') : program'[i] = program[i + 1]
        /\ Len(program') = Len(program) - 1
        /\ Is(program, 2, "put") => program'[1] = program[2]
    BY AdvanceOf
  <1>3. WorkingAt(program, 1) /\ (2 \in 1 .. Len(program) => WorkingAt(program, 2))
        /\ (3 \in 1 .. Len(program) => WorkingAt(program, 3))
    BY <1>1 DEF Working
  <1>4. /\ 2 - 1 = 1 /\ 3 - 2 = 1 /\ 3 - 1 = 2 /\ 1 + 1 = 2 /\ 1 + 2 = 3 /\ 2 > 1 /\ 3 > 2
    OBVIOUS
  <1>5. \A k : (Is(program, 2, k) => WorkingAt(program, 2)) /\ (Is(program, 3, k) => WorkingAt(program, 3))
    BY <1>3 DEF Is
  <1>6. /\ ~Is(program, 2, "validate")
        /\ Is(program, 2, "begin") => Is(program, 1, "validate")
        /\ Is(program, 1, "validate") => Is(program, 2, "begin")
        /\ Is(program, 2, "published") => Is(program, 1, "begin")
        /\ Is(program, 1, "begin") => Is(program, 2, "published")
    BY <1>3, <1>4, <1>5 DEF WorkingAt
  <1>7. /\ Is(program, 2, "put") => Is(program, 1, "sync")
        /\ Is(program, 3, "put") => Is(program, 1, "intent")
        /\ Is(program, 1, "intent") => Is(program, 2, "sync") /\ Is(program, 3, "put") /\ Same(program[3], program[1])
    BY <1>3, <1>4, <1>5 DEF WorkingAt
  <1>8. /\ Is(program, 1, "put") => Is(program, 2, "syncFile") /\ program[2].name = program[1].name
        /\ Is(program, 2, "syncFile") => Is(program, 1, "put")
        /\ Is(program, 2, "enable") => Is(program, 1, "sync")
        /\ Is(program, 3, "enable") => Attempt(program, 1)
    BY <1>3, <1>4, <1>5 DEF WorkingAt
  <1>9. /\ Is(program, 3, "put") => program'[2] = program[3]
        /\ Is(program, 2, "syncFile") => program'[1] = program[2]
    BY <1>2 DEF Is
  <1> QED
    BY <1>2, <1>6, <1>7, <1>8, <1>9 DEF Next1, Next2

\* Which phase executes which instruction.
LEMMA PhaseOf ==
  ASSUME TypeInv, Control, program # <<>>
  PROVE  /\ phase \in {"work", "undo", "restore", "seal", "settle"}
         /\ Next1("intent") \/ Next1("put") \/ Next1("begin") \/ Next1("published")
              \/ Next1("validate") => phase = "work"
         /\ Next1("restore") => phase = "restore"
         /\ Next1("syncFile") => phase \in {"work", "restore"}
         /\ Next1("clean") => phase \in {"work", "seal", "settle"}
         /\ Next1("save") => phase \in {"work", "undo", "seal"}
         /\ Next1("sync") => phase \in {"work", "undo", "seal", "settle"}
         /\ Next1("enable") => phase \in {"work", "undo", "restore"}
  <1>1. /\ phase \in {"work", "undo", "restore", "seal", "settle"}
        /\ 1 \in 1 .. Len(program) /\ program \in Seq(Instructions)
    BY HeadOf DEF Control, TypeInv
  <1>2. phase = "work" => program[1].do # "restore"
    BY <1>1 DEF Control, WorkInv, Working, WorkingAt
  <1>3. phase = "undo" => program[1].do \in {"stop", "recoverState", "save", "sync", "enable"}
    BY <1>1 DEF Control, UndoInv, Undoing, UndoingAt
  <1>4. phase = "restore" => program[1].do \in {"restore", "syncFile", "reload", "enable"}
    BY <1>1 DEF Control, RestoreInv, Restoring, RestoringAt
  <1>5. phase = "seal" => program[1].do \in {"recoverState", "start", "save", "sync", "clean"}
    BY <1>1 DEF Control, SealInv, Sealing, SealingAt
  <1>6. phase = "settle" => program[1].do \in {"sync", "clean"}
    <2>1. phase = "settle" => Next1("clean") \/ Next2("sync", "clean")
      BY DEF Control, SettleInv, Deciding
    <2> QED
      BY <2>1 DEF Next1, Next2, Is
  <1> QED
    BY <1>1, <1>2, <1>3, <1>4, <1>5, <1>6 DEF Next1, Is

\* A transaction in progress has a journal in memory.
LEMMA MemoryOf ==
  ASSUME TypeInv, Control, phase \in {"work", "undo", "restore", "seal", "settle"}
  PROVE  /\ memory \in Journals \cup {NoJournal}
         /\ memory = NoJournal => phase = "work" /\ WorkInv /\ Unbegun
         /\ memory = NoJournal /\ program # <<>> => Next1("validate") \/ Next1("begin")
         /\ memory # NoJournal => memory \in Journals
  <1>1. memory \in Journals \cup {NoJournal}
    BY DEF TypeInv
  <1>2. memory = NoJournal => phase = "work" /\ WorkInv /\ Unbegun
    BY DEF Control, WorkInv
  <1> QED
    BY <1>1, <1>2 DEF Unbegun

LEMMA MarkedOf ==
  ASSUME NEW j \in Journals, NEW m \in SUBSET Flags
  PROVE  /\ Marked(j, m) \in Journals /\ Marked(j, m).stage = j.stage
         /\ Marked(j, m).changes = j.changes
         /\ Marked(j, m).previousEnabled = j.previousEnabled
         /\ Marked(j, m).enablement_attempted <=> j.enablement_attempted \/ "enablement_attempted" \in m
         /\ Marked(j, m).enablement_reverted <=> j.enablement_reverted \/ "enablement_reverted" \in m
         /\ Marked(j, m).complete <=> j.complete \/ "complete" \in m
         /\ Marked(j, m).rolled_back <=> j.rolled_back \/ "rolled_back" \in m
  <1>1. Marked(j, m) \in Journals
    <2>1. ASSUME NEW a \in BOOLEAN, NEW b \in BOOLEAN, NEW c \in BOOLEAN, NEW d \in BOOLEAN,
                 NEW e \in BOOLEAN, NEW f \in BOOLEAN
          PROVE  [j EXCEPT !.start_attempted = a, !.enablement_attempted = b,
                           !.candidate_stopped = c, !.enablement_reverted = d,
                           !.complete = e, !.rolled_back = f] \in Journals
      BY DEF Journals
    <2>2. \A x, y : (x \/ y) \in BOOLEAN
      OBVIOUS
    <2> QED
      BY <2>1, <2>2, Zenon DEF Marked
  <1>2. /\ Marked(j, m).stage = j.stage /\ Marked(j, m).changes = j.changes
        /\ Marked(j, m).previousEnabled = j.previousEnabled
    BY DEF Marked, Journals
  <1>3. Marked(j, m).enablement_attempted = (j.enablement_attempted \/ "enablement_attempted" \in m)
    BY DEF Marked, Journals
  <1>4. Marked(j, m).enablement_reverted = (j.enablement_reverted \/ "enablement_reverted" \in m)
    BY DEF Marked, Journals
  <1>5. Marked(j, m).complete = (j.complete \/ "complete" \in m)
    BY DEF Marked, Journals
  <1>6. Marked(j, m).rolled_back = (j.rolled_back \/ "rolled_back" \in m)
    BY DEF Marked, Journals
  <1> QED
    BY <1>1, <1>2, <1>3, <1>4, <1>5, <1>6

LEMMA Quietly ==
  ASSUME Reported, \/ exit' \notin {"ok", "failed"}
                   \/ exit' = exit /\ phase # "idle"
  PROVE  Reported'
  BY DEF Reported, ReportIsDurable

\* What the ledger is about.
ledgerVars == <<visible, durable, journal, onDisk, stages, backups, enabled, edits, before>>

LEMMA LedgerKept ==
  ASSUME UNCHANGED ledgerVars, Ledger
  PROVE  Ledger'
  <1>1. UNCHANGED <<visible, durable, stages, backups, enabled, edits, before>>
        /\ journal' = journal /\ onDisk' = onDisk
    BY DEF ledgerVars
  <1> QED
    BY <1>1 DEF Ledger, Covers, CoversChange, Intact, Edited, Names, Settled

LEMMA Stopped ==
  ASSUME IInv, NEW code, StoppedWith(code), code \notin {"ok", "failed"}, UNCHANGED ledgerVars,
         UNCHANGED <<running, transactions>>
  PROVE  IInv'
  <1>1. TypeInv'
    <2>1. <<>> \in Seq(Instructions)
      OBVIOUS
    <2> QED
      BY <2>1 DEF IInv, TypeInv, StoppedWith, ledgerVars
  <1>2. Ledger'
    BY LedgerKept DEF IInv
  <1>3. Control'
    BY DEF Control, StoppedWith
  <1>4. Reported'
    BY Quietly DEF IInv, StoppedWith
  <1> QED
    BY <1>1, <1>2, <1>3, <1>4 DEF IInv

-----------------------------------------------------------------------------
(***************************************************************************)
(* The rest of the machine.                                                 *)
(***************************************************************************)
LEMMA InitHolds == InitUpdate => IInv
  <1> SUFFICES ASSUME InitUpdate PROVE IInv
    OBVIOUS
  <1>1. /\ InitialFiles \in {"none", "old"} /\ InitialEnabled \in BOOLEAN
        /\ InitialActive \in BOOLEAN /\ (InitialFiles = "none" => ~InitialEnabled)
    BY UpdateAssumption
  <1>2. /\ visible \in [Files -> Versions] /\ durable = visible
        /\ \A f \in Files : visible[f] = InitialFiles
    BY <1>1 DEF InitUpdate, Init, Versions
  <1>3. TypeInv
    <2>1. program \in Seq(Instructions)
      BY DEF InitUpdate, Init
    <2>2. before \in [files : [Files -> Versions], enabled : BOOLEAN]
      BY <1>1, <1>2 DEF InitUpdate, Init
    <2> QED
      BY <1>1, <1>2, <2>1, <2>2 DEF TypeInv, InitUpdate, Init
  <1>4. Ledger
    <2>1. "record" \in Files
      BY DEF Files
    <2>2. journal = NoJournal /\ onDisk = NoJournal /\ enabled = InitialEnabled
          /\ before.files = visible /\ before.enabled = enabled
      BY DEF InitUpdate, Init
    <2> QED
      BY <1>1, <1>2, <2>1, <2>2 DEF Ledger, Settled
  <1>5. Control /\ Reported
    BY DEF InitUpdate, Init, Control, Reported, ReportIsDurable
  <1> QED
    BY <1>3, <1>4, <1>5 DEF IInv

LEMMA StartKeeps ==
  ASSUME IInv, NEW op \in {"install", "remove", "repair", "disable", "prepare", "package"}, Start(op)
  PROVE  IInv'
  <1>1. UNCHANGED ledgerVars
    BY DEF Start, files, unit, counters, ledgerVars
  <1>2. TypeInv'
    <2>1. <<>> \in Seq(Instructions)
      OBVIOUS
    <2> QED
      BY <2>1 DEF IInv, TypeInv, Start, files, unit, counters
  <1>3. Ledger'
    BY <1>1, LedgerKept DEF IInv
  <1>4. Control'
    BY DEF IInv, Control, Start
  <1>5. Reported'
    BY Quietly DEF IInv, Start
  <1> QED
    BY <1>2, <1>3, <1>4, <1>5 DEF IInv

LEMMA KillKeeps ==
  ASSUME IInv, Kill
  PROVE  IInv'
  <1>1. /\ StoppedWith("killed") /\ UNCHANGED <<running, transactions>>
        /\ "killed" \notin {"ok", "failed"}
    BY DEF Kill, unit
  <1>2. UNCHANGED ledgerVars
    BY DEF Kill, files, unit, ledgerVars, StoppedWith
  <1> QED
    BY <1>1, <1>2, Stopped

\* Nothing that the invariant speaks of changes.
LEMMA IdleKeeps ==
  ASSUME IInv, UNCHANGED <<ledgerVars, phase, program, memory, failed, finishing, operation, exit,
                           transactions>>, running' \in BOOLEAN
  PROVE  IInv'
  <1>1. TypeInv'
    BY DEF IInv, TypeInv, ledgerVars
  <1>2. Ledger'
    BY LedgerKept DEF IInv
  <1>3. Control'
    <2>1. Target' = Target
      BY DEF Target, ledgerVars
    <2> USE DEF ledgerVars
    <2>2. Deciding' <=> Deciding
      BY DEF Deciding, Next1, Next2, Settled
    <2>3. WorkInv => WorkInv'
      <3>1. Aiming => Aiming'
        BY <2>1 DEF Aiming, Next1
      <3>2. Unbegun => Unbegun'
        BY DEF Unbegun, Next1, Settled
      <3>3. Begun => Begun'
        BY <2>2 DEF Begun, Next1, Next2, Settled, Noted
      <3>4. Replaced => Replaced'
        BY <2>1 DEF Replaced, Next1, Next2, Names
      <3> QED
        BY <3>1, <3>2, <3>3, <3>4 DEF WorkInv
    <2>4. UndoInv => UndoInv'
      BY DEF UndoInv, Next1
    <2>5. RestoreInv => RestoreInv'
      BY DEF RestoreInv, Next1
    <2>6. SealInv => SealInv'
      BY <2>2 DEF SealInv, Intact, Edited
    <2>7. SettleInv => SettleInv'
      BY <2>1, <2>2 DEF SettleInv
    <2> QED
      BY <2>1, <2>3, <2>4, <2>5, <2>6, <2>7 DEF IInv, Control
  <1>4. Reported'
    <2>1. Target' = Target
      BY DEF Target, ledgerVars
    <2> QED
      BY <2>1 DEF IInv, Reported, ReportIsDurable, ledgerVars, Settled
  <1> QED
    BY <1>1, <1>2, <1>3, <1>4 DEF IInv

LEMMA EditKeeps ==
  ASSUME IInv, Edit
  PROVE  IInv'
  <1>1. PICK f \in Files : /\ visible' = [visible EXCEPT ![f] = "edited"]
                           /\ durable' = [durable EXCEPT ![f] = "edited"]
    BY DEF Edit
  <1>2. /\ phase = "idle" /\ ~Settled(journal) /\ edits' = edits + 1 /\ edits \in Nat
        /\ UNCHANGED <<journal, onDisk, stages, backups, enabled, running>>
        /\ UNCHANGED <<phase, program, memory, failed, finishing, operation, exit, before, transactions>>
    BY DEF Edit, IInv, TypeInv, unit, helper
  <1>3. /\ visible \in [Files -> Versions] /\ durable \in [Files -> Versions]
        /\ visible' \in [Files -> Versions] /\ durable' \in [Files -> Versions]
    BY <1>1 DEF IInv, TypeInv, Versions
  <1>4. TypeInv'
    BY <1>2, <1>3 DEF IInv, TypeInv
  <1>5. \A g \in Files : \/ visible'[g] = visible[g] /\ durable'[g] = durable[g]
                         \/ visible'[g] = "edited" /\ durable'[g] = "edited"
    BY <1>1, <1>3
  <1>6. \A g \in Files : (Edited(g) => Edited(g)') /\ (Intact(g) => Intact(g)')
    BY <1>2, <1>5 DEF Edited, Intact
  <1>7. /\ journal # NoJournal /\ journal \in Journals /\ Covers(journal)
    BY <1>2, NothingIsSettled DEF IInv, TypeInv, Ledger
  <1>8. ASSUME NEW j \in Journals, Covers(j) PROVE Covers(j)'
    <2>1. ASSUME NEW i \in 1 .. Len(j.changes) PROVE CoversChange(j, i)'
      <3>1. j.changes[i].name \in Files
        BY JournalOf
      <3>2. CoversChange(j, i)
        BY <1>8 DEF Covers
      <3> QED
        BY <1>2, <1>5, <1>6, <3>1, <3>2 DEF CoversChange, Edited
    <2> QED
      BY <1>2, <1>6, <1>8, <2>1 DEF Covers, Names
  <1>9. Covers(journal)'
    <2>1. PICK j \in Journals : j = journal
      BY <1>7
    <2>2. Covers(j)'
      BY <1>7, <1>8, <2>1
    <2>3. journal' = j
      BY <1>2, <2>1
    <2> QED
      BY <2>2, <2>3
  <1>10. ~Settled(onDisk) => Covers(onDisk)'
    <2>1. SUFFICES ASSUME ~Settled(onDisk) PROVE Covers(onDisk)'
      OBVIOUS
    <2>2. onDisk \in Journals /\ Covers(onDisk)
      BY <2>1, NothingIsSettled DEF IInv, TypeInv, Ledger
    <2>3. PICK j \in Journals : j = onDisk
      BY <2>2
    <2>4. Covers(j)'
      BY <1>8, <2>2, <2>3
    <2>5. onDisk' = j
      BY <1>2, <2>3
    <2> QED
      BY <2>4, <2>5
  <1>11. Ledger'
    <2>1. Settled(journal)' = Settled(journal) /\ Settled(onDisk)' = Settled(onDisk)
      BY <1>2 DEF Settled
    <2> QED
      BY <1>2, <1>9, <1>10, <2>1 DEF IInv, Ledger
  <1>12. Control'
    BY <1>2 DEF IInv, Control
  <1>13. Reported'
    BY <1>2 DEF IInv, Reported, ReportIsDurable
  <1> QED
    BY <1>4, <1>11, <1>12, <1>13 DEF IInv

LEMMA PowerLossKeeps ==
  ASSUME IInv, PowerLoss
  PROVE  IInv'
  <1>1. /\ visible \in [Files -> Versions] /\ durable \in [Files -> Versions]
        /\ visible' \in [Files -> Versions] /\ durable' = visible'
        /\ \A f \in Files : visible'[f] \in {visible[f], durable[f]}
        /\ edits' = edits /\ enabled' = enabled /\ transactions' = transactions /\ before' = before
        /\ operation' = operation /\ finishing' = finishing /\ running' = FALSE
    BY DEF IInv, TypeInv, PowerLoss, helper, StoppedWith
  <1>2. /\ journal' \in {journal, onDisk} /\ onDisk' = journal'
        /\ ~Settled(journal') => journal'.stage \in stages'
        /\ backups' = {b \in backups : b[1] \in stages'}
    BY DEF PowerLoss
  <1>3. /\ phase' = "idle" /\ program' = <<>> /\ memory' = NoJournal /\ failed' \in BOOLEAN
        /\ IF phase = "idle" THEN exit' = exit ELSE exit' = "killed"
    BY DEF IInv, TypeInv, Control, PowerLoss, helper, StoppedWith
  <1>4. TypeInv'
    <2>1. <<>> \in Seq(Instructions)
      OBVIOUS
    <2>2. durable' \in [Files -> Versions] /\ running' \in BOOLEAN
      BY <1>1
    <2>3. {journal', onDisk', memory'} \subseteq Journals \cup {NoJournal}
      BY <1>2, <1>3 DEF IInv, TypeInv
    <2>4. phase' \in {"idle", "recover", "work", "undo", "restore", "seal", "settle"}
          /\ program' \in Seq(Instructions)
      BY <1>3, <2>1
    <2> QED
      BY <1>1, <1>3, <2>2, <2>3, <2>4 DEF IInv, TypeInv
  <1>5. \A f \in Files : (Edited(f) => Edited(f)') /\ (Intact(f) => Intact(f)')
    BY <1>1 DEF Edited, Intact
  <1>6. ASSUME NEW j \in Journals, Covers(j), j.stage \in stages' PROVE Covers(j)'
    <2>1. ASSUME NEW i \in 1 .. Len(j.changes) PROVE CoversChange(j, i)'
      <3>1. j.changes[i].name \in Files
        BY JournalOf
      <3>2. CoversChange(j, i)
        BY <1>6 DEF Covers
      <3>3. <<j.stage, i>> \in backups => <<j.stage, i>> \in backups'
        BY <1>2, <1>6
      <3> QED
        BY <1>1, <1>5, <3>1, <3>2, <3>3 DEF CoversChange
    <2> QED
      BY <1>1, <1>5, <1>6, <2>1 DEF Covers, Names
  <1>7. ~Settled(journal') => Covers(journal)'
    <2>1. SUFFICES ASSUME ~Settled(journal') PROVE Covers(journal)'
      OBVIOUS
    <2>2. journal' \in Journals
      BY <1>2, <2>1, NothingIsSettled DEF IInv, TypeInv
    <2>3. PICK j \in Journals : j = journal'
      BY <2>2
    <2>4. Covers(j) /\ j.stage \in stages'
      BY <1>2, <2>1, <2>3 DEF IInv, Ledger
    <2>5. Covers(j)'
      BY <1>6, <2>4
    <2> QED
      BY <2>3, <2>5
  <1>8. Settled(journal') => (visible'["record"] = "none" => ~enabled')
    <2>1. SUFFICES ASSUME Settled(journal'), visible'["record"] = "none" PROVE ~enabled
      BY <1>1
    <2>2. "record" \in Files
      BY DEF Files
    <2>3. CASE Settled(journal)
      BY <1>1, <2>1, <2>2, <2>3 DEF IInv, Ledger
    <2>4. CASE ~Settled(journal)
      <3>1. /\ journal.changes = <<>> /\ ~journal.enablement_attempted /\ Covers(journal)
        BY <1>2, <2>1, <2>4 DEF IInv, Ledger
      <3>2. Names(journal) = {}
        BY <3>1 DEF Names
      <3>3. Intact("record") /\ (enabled <=> before.enabled)
        BY <2>2, <3>1, <3>2 DEF Covers
      <3>4. visible["record"] = "none" \/ durable["record"] = "none"
        BY <1>1, <2>1, <2>2
      <3> QED
        BY <3>3, <3>4 DEF Intact, Edited, IInv, Ledger
    <2> QED
      BY <2>3, <2>4
  <1>9. Ledger'
    <2>1. /\ Settled(journal)' = Settled(journal') /\ Settled(onDisk)' = Settled(journal')
          /\ Covers(onDisk)' = Covers(journal)'
      BY <1>2
    <2> QED
      BY <1>1, <1>2, <1>7, <1>8, <2>1, NothingIsSettled DEF IInv, Ledger
  <1>10. Control'
    BY <1>3 DEF Control
  <1>11. Reported'
    <2>1. CASE exit' \notin {"ok", "failed"}
      BY <2>1, Quietly DEF IInv
    <2>2. CASE exit' \in {"ok", "failed"}
      <3>1. exit' = exit /\ phase = "idle"
        BY <1>3, <2>2
      <3>2. Target' = Target
        BY <1>1 DEF Target
      <3>3. visible = durable => visible' = visible /\ durable' = durable
        BY <1>1
      <3>4. ReportIsDurable'
        <4>1. SUFFICES ASSUME edits = 0 PROVE ReportIsDurable'
          BY <1>1 DEF ReportIsDurable
        <4>2. CASE exit = "ok"
          <5>1. visible = Target /\ durable = Target /\ Settled(journal) /\ Settled(onDisk)
            BY <4>1, <4>2 DEF IInv, Reported, ReportIsDurable
          <5>2. visible' = Target' /\ durable' = Target' /\ Settled(journal') /\ Settled(onDisk')
            BY <1>2, <3>2, <3>3, <5>1
          <5> QED
            BY <3>1, <4>2, <5>2 DEF ReportIsDurable
        <4>3. CASE exit = "failed"
          <5>1. /\ visible = before.files /\ durable = before.files /\ enabled = before.enabled
                /\ Settled(journal) \/ journal.changes = <<>>
                /\ Settled(onDisk) \/ onDisk.changes = <<>>
            BY <4>1, <4>3 DEF IInv, Reported, ReportIsDurable
          <5>2. /\ Settled(journal') \/ journal'.changes = <<>>
                /\ Settled(onDisk') \/ onDisk'.changes = <<>>
            BY <1>2, <5>1
          <5> QED
            BY <1>1, <3>1, <3>3, <4>3, <5>1, <5>2 DEF ReportIsDurable
        <4> QED
          BY <2>2, <3>1, <4>2, <4>3
      <3> QED
        BY <1>3, <3>4 DEF Reported
    <2> QED
      BY <2>1, <2>2
  <1> QED
    BY <1>4, <1>9, <1>10, <1>11 DEF IInv

-----------------------------------------------------------------------------
(***************************************************************************)
(* Between the phases.                                                      *)
(***************************************************************************)
LEMMA WorkKeeps ==
  ASSUME IInv, Work, UNCHANGED <<files, unit, counters>>, phase # "idle",
         Settled(journal), Settled(onDisk)
  PROVE  IInv'
  <1>1. /\ visible \in [Files -> Versions] /\ durable = visible /\ enabled \in BOOLEAN
        /\ visible["record"] = "none" => ~enabled
        /\ "record" \in Files
        /\ operation \in {"install", "remove", "repair", "disable", "prepare", "package"}
    BY DEF IInv, TypeInv, Ledger, Files
  <1>2. /\ UNCHANGED <<visible, durable, journal, onDisk, stages, backups, enabled, running,
                       edits, transactions, failed, finishing, operation>>
        /\ before' = [files |-> visible, enabled |-> enabled] /\ memory' = NoJournal
    BY DEF Work, files, unit, counters
  <1>3. /\ before' \in [files : [Files -> Versions], enabled : BOOLEAN]
        /\ before'.files = visible /\ before'.enabled = enabled
    BY <1>1, <1>2
  <1>4. Settled(journal)' /\ Settled(onDisk)'
    BY <1>2 DEF Settled
  <1>5. Ledger'
    BY <1>1, <1>2, <1>3, <1>4 DEF Ledger
  <1>6. CASE operation \notin {"install", "package"} /\ visible["record"] = "none"
    <2>1. phase' = "idle" /\ program' = <<>> /\ exit' = "failed"
      BY <1>6 DEF Work
    <2>2. TypeInv'
      <3>1. <<>> \in Seq(Instructions)
        OBVIOUS
      <3> QED
        BY <1>2, <1>3, <2>1, <3>1 DEF IInv, TypeInv
    <2>3. Control'
      BY <1>2, <2>1 DEF Control
    <2>4. Reported'
      BY <1>1, <1>2, <1>3, <1>4, <2>1 DEF Reported, ReportIsDurable
    <2> QED
      BY <1>5, <2>2, <2>3, <2>4 DEF IInv
  <1>7. CASE ~(operation \notin {"install", "package"} /\ visible["record"] = "none")
    <2>1. phase' = "work" /\ program' = Program(operation) /\ exit' = exit
      BY <1>7 DEF Work
    <2>2. Aim(operation, program')
      BY <1>1, <2>1, EveryAim
    <2>3. TypeInv'
      <3>1. program' \in Seq(Instructions)
        BY <2>2 DEF Aim
      <3> QED
        BY <1>2, <1>3, <2>1, <3>1 DEF IInv, TypeInv
    <2>4. Aiming'
      <3>1. /\ operation = "install" => \A f \in Files : Target'[f] = "new"
            /\ operation = "remove" => \A f \in Files : Target'[f] = "none"
            /\ operation \notin {"install", "remove"} => Target' = visible
        BY <1>2, <1>3 DEF Target
      <3>2. \A f \in Files : visible'[f] = durable'[f] /\ visible'[f] = before'.files[f]
        BY <1>1, <1>2, <1>3
      <3>3. \A f \in Files : visible'[f] = Target'[f] \/ Puts(program', f)
        BY <1>2, <2>2, <3>1 DEF Aim
      <3>4. ASSUME NEW i \in 1 .. Len(program'), program'[i].do \in {"put", "intent"}
            PROVE  program'[i].to = Target'[program'[i].name]
        <4>1. program'[i] \in Instructions
          BY <2>2 DEF Aim
        <4>2. program'[i].name \in Files
          BY <3>4, <4>1, InstructionOf
        <4>3. CASE operation = "install"
          BY <2>2, <3>1, <3>4, <4>2, <4>3 DEF Aim, Within
        <4>4. CASE operation = "remove"
          BY <2>2, <3>1, <3>4, <4>2, <4>4 DEF Aim, Within
        <4>5. CASE operation \notin {"install", "remove"}
          BY <2>2, <3>4, <4>5 DEF Aim, Within
        <4> QED
          BY <4>3, <4>4, <4>5
      <3>5. operation = "remove" =>
              /\ Has(program', "enable")
              /\ \A i \in 1 .. Len(program') : program'[i].do = "enable" => ~program'[i].to
        BY <2>2 DEF Aim, Within
      <3>6. operation \notin {"install", "package"} => before'.files["record"] # "none"
        BY <1>3, <1>7
      <3>7. operation = "package" => program' = <<>> /\ memory' = NoJournal
        BY <1>2, <2>2 DEF Aim
      <3> QED
        BY <1>2, <3>2, <3>3, <3>4, <3>5, <3>6, <3>7 DEF Aiming, Is
    <2>5. Unbegun'
      <3>1. program' # <<>> => Next1("validate")' \/ Next1("begin")'
        BY <2>2 DEF Aim, Next1
      <3> QED
        BY <1>2, <1>3, <1>4, <3>1 DEF Unbegun
    <2>6. Control'
      <3>1. Working(program)' /\ Distinct(program)'
        BY <2>2 DEF Aim
      <3> QED
        BY <1>2, <2>1, <2>4, <2>5, <3>1 DEF Control, WorkInv
    <2>7. Reported'
      BY <2>1, Quietly DEF IInv
    <2> QED
      BY <1>5, <2>3, <2>6, <2>7 DEF IInv
  <1> QED
    BY <1>6, <1>7

LEMMA LoadKeeps ==
  ASSUME IInv, Load
  PROVE  IInv'
  <1>1. phase = "recover" /\ UNCHANGED <<files, unit, counters>>
    BY DEF Load
  <1>2. /\ UNCHANGED <<visible, durable, journal, onDisk, stages, backups, enabled, running, edits,
                       transactions>>
    BY <1>1 DEF files, unit, counters
  <1>3. CASE journal = NoJournal /\ ~finishing /\ Work
    <2>1. Settled(journal) /\ Settled(onDisk)
      BY <1>3, NothingIsSettled DEF IInv, Ledger
    <2> QED
      BY <1>1, <1>3, <2>1, WorkKeeps
  <1>4. CASE journal = NoJournal /\ finishing /\ StoppedWith("uncertain")
    <2>1. UNCHANGED ledgerVars
      BY <1>2, <1>4 DEF ledgerVars, StoppedWith
    <2> QED
      BY <1>2, <1>4, <2>1, Stopped
  <1>5. CASE journal # NoJournal /\ memory' = journal
             /\ failed' = FALSE /\ UNCHANGED <<finishing, operation, exit, before>>
             /\ journal.complete /\ phase' = "settle" /\ program' = <<Do("sync"), Do("clean")>>
    <2>1. UNCHANGED ledgerVars
      BY <1>2, <1>5 DEF ledgerVars
    <2>2. journal \in Journals
      BY <1>5 DEF IInv, TypeInv
    <2>3. /\ program' \in Seq(Instructions) /\ Sealing(program') /\ Is(program', 1, "sync")
          /\ Is(program', 2, "clean") /\ program' # <<>>
      <3>1. program' \in Seq(Instructions) /\ Sealing(program') /\ Is(program', 1, "sync")
            /\ Is(program', 2, "clean")
        BY <1>5, SettleShape
      <3>2. program' # <<>>
        BY <1>5
      <3> QED
        BY <3>1, <3>2
    <2>4. TypeInv'
      BY <1>2, <1>5, <2>2, <2>3 DEF IInv, TypeInv
    <2>5. Ledger'
      BY <2>1, LedgerKept DEF IInv
    <2>6. Reported'
      BY <1>1, <1>5, Quietly DEF IInv
    <2>7. Deciding'
      <3>1. ~Next1("clean")' /\ Next2("sync", "clean")'
        BY <2>3 DEF Next1, Next2, Is
      <3> QED
        BY <1>2, <1>5, <2>3, <3>1 DEF Deciding
    <2>8. SettleInv'
      <3>1. finishing => ~journal.rolled_back /\ visible = Target
        BY <1>1, <1>5 DEF IInv, Control
      <3>2. Target' = Target
        BY <1>5 DEF Target
      <3> QED
        BY <1>2, <1>5, <2>3, <2>7, <3>1, <3>2 DEF SettleInv
    <2>9. Control'
      BY <1>5, <2>8 DEF Control
    <2> QED
      BY <2>4, <2>5, <2>6, <2>9 DEF IInv
  <1>6. CASE journal # NoJournal /\ memory' = journal
             /\ failed' = FALSE /\ UNCHANGED <<finishing, operation, exit, before>>
             /\ ~journal.complete /\ phase' = "undo" /\ program' = UndoProgram(journal)
    <2>1. UNCHANGED ledgerVars
      BY <1>2, <1>6 DEF ledgerVars
    <2>2. journal \in Journals
      BY <1>6 DEF IInv, TypeInv
    <2>3. /\ program' \in Seq(Instructions) /\ Undoing(program')
          /\ Has(program', "enable") <=>
              journal.enablement_attempted /\ ~journal.previousEnabled /\ ~journal.enablement_reverted
          /\ ~Is(program', 1, "save")
      BY <1>6, <2>2, UndoShape
    <2>4. TypeInv'
      BY <1>2, <1>6, <2>2, <2>3 DEF IInv, TypeInv
    <2>5. Ledger'
      BY <2>1, LedgerKept DEF IInv
    <2>6. Reported'
      BY <1>1, <1>6, Quietly DEF IInv
    <2>7. journal.enablement_reverted => ~enabled
      <3>1. Covers(journal)
        BY <1>6, <2>2, JournalOf DEF IInv, Ledger
      <3> QED
        BY <3>1 DEF Covers
    <2>8. UndoInv'
      <3>1. ~Next1("save")'
        BY <2>3 DEF Next1
      <3> QED
        BY <1>2, <1>6, <2>3, <2>7, <3>1 DEF UndoInv
    <2>9. Control'
      BY <1>6, <2>8 DEF Control
    <2> QED
      BY <2>4, <2>5, <2>6, <2>9 DEF IInv
  <1> QED
    BY <1>3, <1>4, <1>5, <1>6 DEF Load

LEMMA StoppedReporting ==
  ASSUME IInv, NEW code, StoppedWith(code), UNCHANGED ledgerVars, UNCHANGED <<running, transactions>>,
         ReportIsDurable'
  PROVE  IInv'
  <1>1. TypeInv'
    <2>1. <<>> \in Seq(Instructions)
      OBVIOUS
    <2> QED
      BY <2>1 DEF IInv, TypeInv, StoppedWith, ledgerVars
  <1>2. Ledger'
    BY LedgerKept DEF IInv
  <1>3. Control'
    BY DEF Control, StoppedWith
  <1>4. Reported'
    BY DEF Reported, StoppedWith
  <1> QED
    BY <1>1, <1>2, <1>3, <1>4 DEF IInv

LEMMA WorkEnds ==
  ASSUME IInv, phase = "work", program = <<>>, StoppedWith("ok"), UNCHANGED <<files, unit, counters>>
  PROVE  IInv'
  <1>1. /\ UNCHANGED <<visible, durable, journal, onDisk, stages, backups, enabled, running, edits,
                       transactions>>
    BY DEF files, unit, counters
  <1>2. WorkInv
    BY DEF IInv, Control
  <1>3. Settled(journal) /\ Settled(onDisk)
    BY <1>2 DEF WorkInv, Unbegun, Begun, Deciding
  <1>4. \A f \in Files : visible[f] = Target[f] /\ durable[f] = visible[f]
    BY <1>2 DEF WorkInv, Aiming, Puts, Next1, Is
  <1>5. visible \in [Files -> Versions] /\ durable \in [Files -> Versions]
    BY DEF IInv, TypeInv
  <1>6. Target = [f \in Files |-> Target[f]]
    BY DEF Target, IInv, TypeInv
  <1>7. visible = Target /\ durable = Target
    BY <1>4, <1>5, <1>6
  <1>8. Target' = Target /\ Settled(journal') /\ Settled(onDisk') /\ exit' = "ok"
    BY <1>1, <1>3 DEF Target, StoppedWith, Settled
  <1>9. ReportIsDurable'
    BY <1>1, <1>7, <1>8 DEF ReportIsDurable
  <1>10. UNCHANGED ledgerVars
    BY <1>1 DEF ledgerVars, StoppedWith
  <1> QED
    BY <1>1, <1>9, <1>10, StoppedReporting

LEMMA UndoEnds ==
  ASSUME IInv, phase = "undo", program = <<>>, phase' = "restore", program' = RestoreProgram(memory),
         UNCHANGED <<files, unit, counters, memory, failed, finishing, operation, exit, before>>
  PROVE  IInv'
  <1>1. /\ UNCHANGED <<visible, durable, journal, onDisk, stages, backups, enabled, running, edits,
                       transactions>>
    BY DEF files, unit, counters
  <1>2. UNCHANGED ledgerVars
    BY <1>1 DEF ledgerVars
  <1>3. UndoInv /\ memory # NoJournal /\ memory \in Journals
    BY DEF IInv, Control, TypeInv
  <1>4. /\ program' \in Seq(Instructions) /\ Restoring(program', memory)
        /\ Has(program', "enable") <=> memory.enablement_attempted /\ memory.previousEnabled
        /\ \A k \in 1 .. Len(memory.changes) : Restores(program', k)
    BY <1>3, RestoreShape
  <1>5. TypeInv'
    BY <1>1, <1>4 DEF IInv, TypeInv
  <1>6. Ledger'
    BY <1>2, LedgerKept DEF IInv
  <1>7. Reported'
    BY Quietly DEF IInv
  <1>8. memory.enablement_attempted /\ ~memory.previousEnabled => ~enabled
    <2>1. ~Has(program, "enable")
      BY DEF Has
    <2> QED
      BY <1>3, <2>1 DEF UndoInv
  <1>9. RestoreInv'
    <2>1. memory' = journal' /\ ~memory'.complete
      BY <1>1, <1>3 DEF UndoInv
    <2> QED
      BY <1>1, <1>4, <1>8, <2>1 DEF RestoreInv
  <1>10. Control'
    BY <1>3, <1>9 DEF Control
  <1> QED
    BY <1>5, <1>6, <1>7, <1>10 DEF IInv

LEMMA RestoreEnds ==
  ASSUME IInv, phase = "restore", program = <<>>, ~failed, phase' = "seal",
         program' = (IF memory.previousActive THEN StartPrevious ELSE <<>>)
                       \o Save({"rolled_back", "complete"}) \o <<Do("clean")>>,
         UNCHANGED <<files, unit, counters, memory, failed, finishing, operation, exit, before>>
  PROVE  IInv'
  <1>1. /\ UNCHANGED <<visible, durable, journal, onDisk, stages, backups, enabled, running, edits,
                       transactions>>
    BY DEF files, unit, counters
  <1>2. UNCHANGED ledgerVars
    BY <1>1 DEF ledgerVars
  <1>3. /\ RestoreInv /\ memory # NoJournal /\ memory \in Journals /\ memory = journal
        /\ ~memory.complete
    BY DEF IInv, Control, TypeInv, RestoreInv
  <1>4. Covers(memory) /\ memory.previousActive \in BOOLEAN
        /\ (before.files["record"] = "none" => ~before.enabled)
    BY <1>3, JournalOf DEF IInv, Ledger
  <1>5. /\ program' \in Seq(Instructions) /\ Sealing(program')
        /\ Is(program', 1, "recoverState") \/ Is(program', 1, "save")
    BY <1>4, SealShape
  <1>6. TypeInv'
    BY <1>1, <1>5 DEF IInv, TypeInv
  <1>7. Ledger'
    BY <1>2, LedgerKept DEF IInv
  <1>8. Reported'
    BY Quietly DEF IInv
  <1>9. ASSUME NEW k \in 1 .. Len(memory.changes)
        PROVE  /\ visible[memory.changes[k].name] = memory.changes[k].prior
               /\ durable[memory.changes[k].name] = memory.changes[k].prior
               /\ memory.changes[k].prior = before.files[memory.changes[k].name]
    <2>1. ~Restores(program, k) /\ ~Next1("syncFile")
      BY DEF Restores, Next1, Is
    <2>2. CoversChange(memory, k)
      BY <1>4 DEF Covers
    <2> QED
      BY <1>3, <2>1, <2>2 DEF RestoreInv, CoversChange
  <1>10. \A f \in Files : Intact(f)
    <2>1. ASSUME NEW f \in Files, f \in Names(memory) PROVE Intact(f)
      <3>1. PICK k \in 1 .. Len(memory.changes) : memory.changes[k].name = f
        BY <2>1 DEF Names
      <3> QED
        BY <1>9, <3>1 DEF Intact
    <2> QED
      BY <1>4, <2>1 DEF Covers
  <1>11. enabled <=> before.enabled
    <2>1. ~Has(program, "enable")
      BY DEF Has
    <2> QED
      BY <1>3, <1>4, <2>1 DEF RestoreInv, Covers
  <1>12. Deciding'
    <2>1. ~Next1("clean")' /\ ~Next2("sync", "clean")' /\ program' # <<>>
      BY <1>5 DEF Next1, Next2, Is
    <2> QED
      BY <1>1, <1>3, <2>1 DEF Deciding
  <1>13. SealInv'
    <2>1. \A f \in Files : Intact(f)'
      BY <1>1, <1>10 DEF Intact, Edited
    <2> QED
      BY <1>1, <1>3, <1>5, <1>9, <1>11, <1>12, <2>1 DEF SealInv
  <1>14. Control'
    BY <1>3, <1>13 DEF Control
  <1> QED
    BY <1>6, <1>7, <1>8, <1>14 DEF IInv

LEMMA RecoveryEnds ==
  ASSUME IInv, phase \in {"seal", "settle"}, program = <<>>, finishing,
         StoppedWith(IF memory.rolled_back THEN "failed" ELSE "ok"), UNCHANGED <<files, unit, counters>>
  PROVE  IInv'
  <1>1. /\ UNCHANGED <<visible, durable, journal, onDisk, stages, backups, enabled, running, edits,
                       transactions>>
    BY DEF files, unit, counters
  <1>2. UNCHANGED ledgerVars
    BY <1>1 DEF ledgerVars, StoppedWith
  <1>3. memory.complete /\ Settled(journal) /\ Settled(onDisk)
    BY DEF IInv, Control, SealInv, SettleInv, Deciding
  <1>4. /\ visible \in [Files -> Versions] /\ durable = visible
        /\ before \in [files : [Files -> Versions], enabled : BOOLEAN] /\ enabled \in BOOLEAN
    BY <1>3 DEF IInv, TypeInv, Ledger
  <1>5. Settled(journal') /\ Settled(onDisk') /\ Target' = Target
    BY <1>1, <1>3 DEF Target, StoppedWith, Settled
  <1>6. CASE phase = "seal"
    <2>1. memory.rolled_back /\ (enabled <=> before.enabled) /\ \A f \in Files : Intact(f)
      BY <1>3, <1>6 DEF IInv, Control, SealInv
    <2>2. exit' = "failed" /\ before' = before
      BY <2>1 DEF StoppedWith
    <2>3. edits = 0 => visible = before.files
      <3>1. edits = 0 => \A f \in Files : visible[f] = before.files[f]
        BY <2>1 DEF Intact, Edited
      <3> QED
        BY <1>4, <3>1
    <2>4. ReportIsDurable'
      BY <1>1, <1>4, <1>5, <2>1, <2>2, <2>3 DEF ReportIsDurable
    <2> QED
      BY <1>1, <1>2, <2>4, StoppedReporting
  <1>7. CASE phase = "settle"
    <2>1. ~memory.rolled_back /\ visible = Target
      BY <1>7 DEF IInv, Control, SettleInv
    <2>2. exit' = "ok"
      BY <2>1 DEF StoppedWith
    <2>3. ReportIsDurable'
      BY <1>1, <1>4, <1>5, <2>1, <2>2 DEF ReportIsDurable
    <2> QED
      BY <1>1, <1>2, <2>3, StoppedReporting
  <1> QED
    BY <1>6, <1>7

LEMMA EndedKeeps ==
  ASSUME IInv, Ended
  PROVE  IInv'
  <1>1. program = <<>> /\ UNCHANGED <<files, unit, counters>>
    BY DEF Ended
  <1>2. CASE phase = "work" /\ StoppedWith("ok")
    BY <1>1, <1>2, WorkEnds
  <1>3. CASE phase = "undo" /\ phase' = "restore" /\ program' = RestoreProgram(memory)
             /\ UNCHANGED <<memory, failed, finishing, operation, exit, before>>
    BY <1>1, <1>3, UndoEnds
  <1>4. CASE phase = "restore" /\ StoppedWith("uncertain")
    <2>1. UNCHANGED ledgerVars /\ UNCHANGED <<running, transactions>>
      BY <1>1, <1>4 DEF files, unit, counters, ledgerVars, StoppedWith
    <2> QED
      BY <1>4, <2>1, Stopped
  <1>5. CASE /\ phase = "restore" /\ ~failed /\ phase' = "seal"
             /\ program' = (IF memory.previousActive THEN StartPrevious ELSE <<>>)
                       \o Save({"rolled_back", "complete"}) \o <<Do("clean")>>
             /\ UNCHANGED <<memory, failed, finishing, operation, exit, before>>
    BY <1>1, <1>5, RestoreEnds
  <1>6. CASE phase \in {"seal", "settle"} /\ ~finishing /\ Work
    <2>1. Settled(journal) /\ Settled(onDisk)
      BY <1>1, <1>6 DEF IInv, Control, SealInv, SettleInv, Deciding
    <2> QED
      BY <1>1, <1>6, <2>1, WorkKeeps
  <1>7. CASE phase \in {"seal", "settle"} /\ finishing
             /\ StoppedWith(IF memory.rolled_back THEN "failed" ELSE "ok")
    BY <1>1, <1>7, RecoveryEnds
  <1> QED
    BY <1>2, <1>3, <1>4, <1>5, <1>6, <1>7 DEF Ended, MayRestart

-----------------------------------------------------------------------------
(***************************************************************************)
(* What a step keeps of each phase.                                         *)
(***************************************************************************)
LEMMA AimRest ==
  ASSUME TypeInv, WorkInv, program # <<>>, Advance, UNCHANGED <<operation, before>>,
         IF Next1("enable") THEN enabled' = program[1].to ELSE enabled' = enabled
  PROVE  /\ Working(program)' /\ Distinct(program)'
         /\ \A i \in 1 .. Len(program') :
              Is(program', i, "put") \/ Is(program', i, "intent") =>
                program'[i].to = Target'[program'[i].name]
         /\ operation' = "remove" =>
              /\ enabled' => Has(program', "enable")
              /\ \A i \in 1 .. Len(program') : Is(program', i, "enable") => ~program'[i].to
         /\ operation' # "package" /\ (operation' # "install" => before'.files["record"] # "none")
         /\ Target' = Target
  <1>1. /\ program \in Seq(Instructions) /\ program' = Tail(program) /\ Len(program) \in Nat \ {0}
        /\ Len(program') = Len(program) - 1
        /\ \A i \in 1 .. Len(program') : program'[i] = program[i + 1]
    BY HeadOf, AdvanceOf DEF Advance
  <1>2. Working(program') /\ Distinct(program')
    BY <1>1, WorkingTail, DistinctTail DEF WorkInv
  <1>3. Target' = Target
    BY DEF Target
  <1>4. \A i \in 1 .. Len(program') :
          Is(program', i, "put") \/ Is(program', i, "intent") =>
            program'[i].to = Target'[program'[i].name]
    <2>1. \A i \in 1 .. Len(program) : program[i].do \in {"put", "intent"} =>
             program[i].to = Target[program[i].name]
      BY DEF WorkInv, Aiming, Is
    <2> QED
      BY <1>1, <1>3, <2>1 DEF Is
  <1>5. operation' = "remove" =>
          /\ enabled' => Has(program', "enable")
          /\ \A i \in 1 .. Len(program') : Is(program', i, "enable") => ~program'[i].to
    <2>1. Has(program, "enable") /\ ~Next1("enable") => Has(program', "enable")
      BY <1>1, TailHas DEF Next1
    <2>2. operation = "remove" =>
           /\ enabled => Has(program, "enable")
           /\ \A i \in 1 .. Len(program) : program[i].do = "enable" => ~program[i].to
      BY DEF WorkInv, Aiming, Is
    <2>3. operation = "remove" /\ Next1("enable") => ~program[1].to
      BY <2>2 DEF Next1, Is
    <2> QED
      BY <1>1, <2>1, <2>2, <2>3 DEF Is
  <1>6. operation # "package" /\ (operation # "install" => before.files["record"] # "none")
    BY DEF WorkInv, Aiming
  <1> QED
    BY <1>2, <1>3, <1>4, <1>5, <1>6

LEMMA AimingKept ==
  ASSUME TypeInv, WorkInv, program # <<>>, Advance,
         UNCHANGED <<visible, durable, operation, before>>,
         ~Next1("put"), ~Next1("syncFile"),
         IF Next1("enable") THEN enabled' = program[1].to ELSE enabled' = enabled
  PROVE  Working(program)' /\ Distinct(program)' /\ Aiming'
  <1>1. program \in Seq(Instructions) /\ program' = Tail(program)
    BY HeadOf DEF Advance
  <1>2. \A f \in Files : visible'[f] = durable'[f]
    BY DEF WorkInv, Aiming
  <1>3. \A f \in Files : visible'[f] = Target'[f] \/ Puts(program', f)
    <2>1. \A f : Puts(program, f) => Puts(program', f)
      BY <1>1, TailPuts DEF Next1
    <2> QED
      BY <2>1, AimRest DEF WorkInv, Aiming
  <1>4. \A f \in Files : visible'[f] \in {Target'[f], before'.files[f]}
    BY AimRest DEF WorkInv, Aiming
  <1>5. Aiming'
    BY <1>2, <1>3, <1>4, AimRest DEF Aiming
  <1> QED
    BY <1>5, AimRest

LEMMA DecidingKept ==
  ASSUME TypeInv, program # <<>>, Closing(program), Advance, Deciding,
         ~Next1("save"), ~Next1("sync"), ~Next1("clean"),
         journal' = memory', memory'.complete = memory.complete
  PROVE  Deciding' /\ ~memory.complete /\ program' # <<>>
  <1>1. /\ ~Next1("clean")' /\ ~Next2("sync", "clean")' /\ program' # <<>>
    BY ClosingWindow DEF Decision, Next1, Next2
  <1>2. ~memory.complete
    BY DEF Deciding, Next1, Next2
  <1> QED
    BY <1>1, <1>2 DEF Deciding

LEMMA BegunKept ==
  ASSUME TypeInv, program # <<>>, Working(program), Advance, Begun,
         ~Next1("save"), ~Next1("sync"), ~Next1("clean"), ~Next1("intent"), ~Next1("published"),
         UNCHANGED <<memory, journal, onDisk>>
  PROVE  Begun' /\ ~memory.complete /\ journal = memory /\ ~Settled(onDisk)
  <1>1. journal = memory
    BY DEF Begun, Deciding
  <1>2. Deciding' /\ ~memory.complete /\ program' # <<>>
    BY <1>1, DecidingKept DEF Begun, Working
  <1>3. /\ ~Next1("validate")' /\ ~Next1("begin")' /\ ~Next1("published")' /\ ~Next1("put")'
        /\ ~Next2("sync", "put")' /\ ~Next1("enable")' /\ ~Next2("sync", "enable")'
    BY Window DEF Begun, Attempt, Next1, Next2
  <1>4. ~Settled(onDisk) /\ Settled(onDisk)' = Settled(onDisk)
    BY <1>2 DEF Begun, Settled
  <1> QED
    BY <1>1, <1>2, <1>3, <1>4 DEF Begun

LEMMA ReplacedKept ==
  ASSUME TypeInv, program # <<>>, Working(program), Advance, Replaced, ~Next1("put"), ~Next1("intent"),
         UNCHANGED <<visible, operation, before>>, memory'.changes = memory.changes
  PROVE  Replaced'
  <1>1. /\ program \in Seq(Instructions) /\ Len(program) \in Nat \ {0}
        /\ Len(program') = Len(program) - 1
        /\ \A i \in 1 .. Len(program') : program'[i] = program[i + 1]
    BY HeadOf, AdvanceOf
  <1>2. Target' = Target
    BY DEF Target
  <1>3. Names(memory)' = Names(memory)
    BY DEF Names
  <1>4. \A i \in 1 .. Len(program') : Is(program', i, "intent") => program'[i].name \notin Names(memory)
    <2>1. \A i \in 1 .. Len(program) : program[i].do = "intent" => program[i].name \notin Names(memory)
      BY DEF Replaced, Is
    <2> QED
      BY <1>1, <2>1 DEF Is
  <1>5. Next2("sync", "put") => Next1("put")' /\ program'[1] = program[2]
    BY AdvanceOf DEF Next1, Next2
  <1> QED
    BY <1>2, <1>3, <1>4, <1>5 DEF Replaced

LEMMA UndoKept ==
  ASSUME TypeInv, UndoInv, program # <<>>, Advance, enabled' = enabled, memory' = journal',
         memory'.complete = memory.complete, memory'.previousEnabled = memory.previousEnabled,
         memory'.enablement_attempted = memory.enablement_attempted, ~Next1("enable")
  PROVE  UndoInv'
  <1>1. program \in Seq(Instructions) /\ program' = Tail(program) /\ Len(program) \in Nat \ {0}
    BY HeadOf DEF Advance
  <1>2. Undoing(program')
    BY <1>1, UndoingTail DEF UndoInv
  <1>3. Has(program', "enable") <=> Has(program, "enable")
    BY <1>1, TailHas DEF Next1
  <1>4. ~(Next1("save")' /\ "enablement_reverted" \in program'[1].marks)
    <2>1. /\ Next1("save")' => Is(program, 2, "save") /\ program'[1] = program[2]
      BY <1>1, AdvanceOf DEF Next1, Is
    <2>2. Is(program, 2, "save") /\ "enablement_reverted" \in program[2].marks => Is(program, 1, "enable")
      BY <1>1 DEF UndoInv, Undoing, UndoingAt, Is
    <2> QED
      BY <2>1, <2>2 DEF Next1
  <1> QED
    BY <1>2, <1>3, <1>4 DEF UndoInv

LEMMA RestoreKept ==
  ASSUME TypeInv, RestoreInv, program # <<>>, Advance, UNCHANGED <<memory, journal, visible, durable, enabled, failed>>,
         ~Next1("enable"), ~Next1("restore"), ~Next1("syncFile")
  PROVE  RestoreInv'
  <1>1. program \in Seq(Instructions) /\ program' = Tail(program)
    BY HeadOf DEF Advance
  <1>2. Restoring(program', memory)
    BY <1>1, RestoringTail DEF RestoreInv
  <1>3. Has(program', "enable") <=> Has(program, "enable")
    BY <1>1, TailHas DEF Next1
  <1>4. \A k : Restores(program, k) => Restores(program', k)
    BY <1>1, TailRestores DEF Next1
  <1> QED
    BY <1>2, <1>3, <1>4 DEF RestoreInv

LEMMA SealKept ==
  ASSUME TypeInv, SealInv, program # <<>>, Advance, ~Next1("save"), ~Next1("sync"), ~Next1("clean"),
         UNCHANGED <<memory, journal, onDisk, visible, durable, enabled, before, edits>>
  PROVE  SealInv'
  <1>1. Deciding' /\ Sealing(program)'
    <2>1. program \in Seq(Instructions) /\ program' = Tail(program)
      BY HeadOf DEF Advance
    <2>2. Sealing(program') /\ Closing(program) /\ journal = memory
      BY <2>1, SealingTail DEF SealInv, Sealing, Deciding
    <2> QED
      BY <2>2, DecidingKept DEF SealInv
  <1>2. \A f \in Files : Intact(f)'
    BY DEF SealInv, Intact, Edited
  <1> QED
    BY <1>1, <1>2 DEF SealInv

LEMMA StepOf ==
  ASSUME IInv, program # <<>>, Advance, HelperRest
  PROVE  /\ Reported' /\ UNCHANGED <<phase, failed, finishing, operation, exit, before>>
         /\ phase \in {"work", "undo", "restore", "seal", "settle"}
         /\ phase = "work" => WorkInv
         /\ phase = "undo" => UndoInv
         /\ phase = "restore" => RestoreInv
         /\ phase = "seal" => SealInv
         /\ phase = "settle" => SettleInv
         /\ Control' <=> /\ phase \in {"undo", "restore", "seal", "settle"} => memory' # NoJournal
                         /\ phase = "work" => WorkInv'
                         /\ phase = "undo" => UndoInv'
                         /\ phase = "restore" => RestoreInv'
                         /\ phase = "seal" => SealInv'
                         /\ phase = "settle" => SettleInv'
  <1>1. UNCHANGED <<phase, failed, finishing, operation, exit, before>>
    BY DEF HelperRest
  <1>2. phase \in {"work", "undo", "restore", "seal", "settle"}
    BY PhaseOf DEF IInv
  <1>3. Reported'
    BY <1>1, <1>2, Quietly DEF IInv
  <1>4. /\ phase = "work" => WorkInv
        /\ phase = "undo" => UndoInv
        /\ phase = "restore" => RestoreInv
        /\ phase = "seal" => SealInv
        /\ phase = "settle" => SettleInv
    BY DEF IInv, Control
  <1>5. Control' <=> /\ phase \in {"undo", "restore", "seal", "settle"} => memory' # NoJournal
                     /\ phase = "work" => WorkInv'
                     /\ phase = "undo" => UndoInv'
                     /\ phase = "restore" => RestoreInv'
                     /\ phase = "seal" => SealInv'
                     /\ phase = "settle" => SettleInv'
    BY <1>1, <1>2 DEF Control
  <1> QED
    BY <1>1, <1>2, <1>3, <1>4, <1>5

\* A settled journal has nothing left but its removal.
LEMMA SettledHead ==
  ASSUME TypeInv, SettleInv, program # <<>>
  PROVE  Next1("clean") \/ Next2("sync", "clean")
  BY DEF SettleInv, Deciding

\* A command of systemd or of the Agent that changes no enablement.
LEMMA PlainKeeps ==
  ASSUME IInv, program # <<>>, Advance, HelperRest, UNCHANGED <<files, memory, counters, enabled>>,
         running' \in BOOLEAN,
         Op.do \in {"stop", "start", "validate", "recoverState", "reload"}
  PROVE  IInv'
  <1>1. /\ UNCHANGED <<visible, durable, journal, onDisk, stages, backups, edits, transactions>>
        /\ UNCHANGED <<phase, failed, finishing, operation, exit, before>>
    BY DEF files, counters, HelperRest
  <1>2. /\ ~Next1("save") /\ ~Next1("sync") /\ ~Next1("clean") /\ ~Next1("put") /\ ~Next1("intent")
        /\ ~Next1("syncFile") /\ ~Next1("enable") /\ ~Next1("restore") /\ ~Next1("begin")
        /\ ~Next1("published") /\ ~Next2("sync", "clean")
    BY HeadOf DEF IInv, Next1, Next2
  <1>3. TypeInv'
    <2>1. program' \in Seq(Instructions)
      BY AdvanceOf DEF IInv
    <2> QED
      BY <1>1, <2>1 DEF IInv, TypeInv
  <1>4. Ledger'
    <2>1. UNCHANGED ledgerVars
      BY <1>1 DEF ledgerVars
    <2> QED
      BY <2>1, LedgerKept DEF IInv
  <1>5. phase = "work" => WorkInv'
    <2>1. SUFFICES ASSUME phase = "work" PROVE WorkInv'
      OBVIOUS
    <2>2. TypeInv /\ WorkInv /\ Working(program)
      BY <2>1 DEF IInv, Control, WorkInv
    <2>3. Working(program)' /\ Distinct(program)' /\ Aiming'
      BY <1>1, <1>2, <2>2, AimingKept
    <2>4. ASSUME memory = NoJournal PROVE Unbegun'
      <3>1. Unbegun /\ Next1("validate")
        BY <1>2, <2>2, <2>4 DEF WorkInv, Unbegun
      <3>2. Next1("begin")'
        BY <2>2, <3>1, Window
      <3> QED
        BY <1>1, <3>1, <3>2 DEF Unbegun, Settled
    <2>5. ASSUME memory # NoJournal PROVE Begun' /\ Replaced'
      <3>1. Begun /\ Replaced
        BY <2>2, <2>5 DEF WorkInv
      <3>2. Begun'
        BY <1>1, <1>2, <2>2, <3>1, BegunKept
      <3>3. Replaced'
        BY <1>1, <1>2, <2>2, <3>1, ReplacedKept
      <3> QED
        BY <3>2, <3>3
    <2> QED
      BY <2>3, <2>4, <2>5 DEF WorkInv
  <1>6. phase = "undo" => UndoInv'
    BY <1>1, <1>2, UndoKept DEF IInv, Control, UndoInv
  <1>7. phase = "restore" => RestoreInv'
    BY <1>1, <1>2, RestoreKept DEF IInv, Control
  <1>8. phase = "seal" => SealInv'
    BY <1>1, <1>2, SealKept DEF IInv, Control
  <1>9. phase # "settle"
    BY <1>2, SettledHead DEF IInv, Control
  <1>10. Control' /\ Reported'
    <2>1. phase \in {"undo", "restore", "seal", "settle"} => memory' # NoJournal
      BY DEF IInv, Control
    <2> QED
      BY <1>5, <1>6, <1>7, <1>8, <1>9, <2>1, StepOf
  <1> QED
    BY <1>3, <1>4, <1>10 DEF IInv

\* The enablement of the unit changes under a journal that says so.
LEMMA EnableKeeps ==
  ASSUME IInv, program # <<>>, Advance, HelperRest, UNCHANGED <<files, memory, counters, running>>,
         Op.do = "enable", enabled' = Op.to
  PROVE  IInv'
  <1>1. /\ UNCHANGED <<visible, durable, journal, onDisk, stages, backups, edits, transactions>>
        /\ UNCHANGED <<phase, failed, finishing, operation, exit, before>>
    BY DEF files, counters, HelperRest
  <1>2. /\ Next1("enable") /\ Op = program[1] /\ program \in Seq(Instructions)
        /\ Len(program) \in Nat \ {0} /\ Has(program, "enable")
    BY HeadOf DEF IInv, Next1, Has, Is
  <1>3. /\ ~Next1("save") /\ ~Next1("sync") /\ ~Next1("clean") /\ ~Next1("put") /\ ~Next1("intent")
        /\ ~Next1("syncFile") /\ ~Next1("restore") /\ ~Next1("begin") /\ ~Next1("validate")
        /\ ~Next1("published")
    BY <1>2 DEF Next1, Is
  <1>4. program[1].to \in BOOLEAN
    BY <1>2, HeadOf, InstructionOf DEF IInv
  <1>5. TypeInv'
    <2>1. program' \in Seq(Instructions)
      BY AdvanceOf DEF IInv
    <2> QED
      BY <1>1, <1>2, <1>4, <2>1 DEF IInv, TypeInv
  <1>6. phase \in {"work", "undo", "restore"}
    BY <1>2, PhaseOf DEF IInv
  <1>7. memory \in Journals
    BY <1>3, <1>6, MemoryOf DEF IInv
  <1>8. Settled(journal)' = Settled(journal) /\ Settled(onDisk)' = Settled(onDisk)
    BY <1>1 DEF Settled
  <1>9. \A j : Covers(j) =>
          ((j.enablement_attempted \/ (enabled' <=> before.enabled))
            /\ (j.enablement_reverted => ~enabled' /\ ~j.previousEnabled) => Covers(j)')
    BY <1>1 DEF Covers, CoversChange, Intact, Edited, Names
  <1>10. CASE phase = "work"
    <2>1. WorkInv /\ Begun /\ Replaced /\ Working(program)
      BY <1>7, <1>10, NothingIsSettled DEF IInv, Control, WorkInv
    <2>2. Begun' /\ ~memory.complete /\ journal = memory /\ ~Settled(onDisk)
      BY <1>1, <1>3, <2>1, BegunKept DEF IInv
    <2>3. Replaced'
      BY <1>1, <1>3, <2>1, ReplacedKept DEF IInv
    <2>4. Working(program)' /\ Distinct(program)' /\ Aiming'
      BY <1>1, <1>2, <1>3, <2>1, AimingKept DEF IInv
    <2>5. onDisk = journal /\ memory.enablement_attempted /\ ~memory.enablement_reverted
      BY <1>2, <2>1 DEF Begun
    <2>6. Ledger'
      <3>1. ~Settled(journal) /\ Covers(memory)
        BY <2>2, <2>5 DEF IInv, Ledger
      <3>2. Covers(memory)'
        BY <1>1, <1>9, <2>5, <3>1
      <3> QED
        BY <1>1, <1>8, <2>2, <2>5, <3>1, <3>2, NothingIsSettled DEF IInv, Ledger
    <2>7. WorkInv'
      BY <2>2, <2>3, <2>4, <1>7, NothingIsSettled DEF WorkInv
    <2> QED
      BY <1>5, <1>10, <2>6, <2>7, StepOf DEF IInv
  <1>11. CASE phase = "undo"
    <2>1. UndoInv
      BY <1>11 DEF IInv, Control
    <2>2. ~program[1].to
      BY <1>2, <2>1 DEF UndoInv, Undoing, UndoingAt, Next1, Is
    <2>3. /\ memory = journal /\ ~memory.complete /\ memory.enablement_attempted
          /\ ~memory.previousEnabled
      BY <1>2, <2>1 DEF UndoInv
    <2>4. ~Settled(journal) /\ Covers(journal) /\ ~Settled(onDisk) /\ Covers(onDisk)
      BY <1>7, <2>3, JournalOf DEF IInv, Ledger
    <2>5. ~before.enabled
      BY <2>3, <2>4 DEF IInv, Ledger, Covers
    <2>6. Covers(journal)'
      <3>1. Covers(memory)'
        BY <1>1, <1>2, <1>9, <2>2, <2>3, <2>4
      <3> QED
        BY <1>1, <2>3, <3>1
    <2>7. Covers(onDisk)'
      <3>1. onDisk \in Journals
        BY <2>4, NothingIsSettled DEF IInv, TypeInv
      <3>2. PICK j \in Journals : j = onDisk
        BY <3>1
      <3>3. Covers(j) /\ ~j.previousEnabled
        BY <2>4, <2>5, <3>2 DEF Covers
      <3>4. Covers(j)'
        BY <1>2, <1>9, <2>2, <2>5, <3>3
      <3> QED
        BY <1>1, <3>2, <3>4
    <2>8. Ledger'
      BY <1>1, <1>8, <2>4, <2>6, <2>7, NothingIsSettled DEF IInv, Ledger
    <2>9. UndoInv'
      <3>1. program' = Tail(program)
        BY DEF Advance
      <3>2. Undoing(program')
        BY <1>2, <2>1, <3>1, UndoingTail DEF UndoInv
      <3> QED
        BY <1>1, <1>2, <2>2, <2>3, <3>2 DEF UndoInv
    <2> QED
      BY <1>5, <1>7, <1>11, <2>8, <2>9, StepOf, NothingIsSettled DEF IInv
  <1>12. CASE phase = "restore"
    <2>1. RestoreInv
      BY <1>12 DEF IInv, Control
    <2>2. program[1].to = TRUE
      BY <1>2, <1>4, <2>1 DEF RestoreInv, Restoring, RestoringAt, Next1, Is
    <2>3. /\ memory = journal /\ ~memory.complete /\ memory.enablement_attempted
          /\ memory.previousEnabled
      BY <1>2, <2>1 DEF RestoreInv
    <2>4. ~Settled(journal) /\ Covers(journal) /\ ~Settled(onDisk) /\ Covers(onDisk)
      BY <1>7, <2>3, JournalOf DEF IInv, Ledger
    <2>5. before.enabled /\ before.files["record"] # "none"
      BY <2>3, <2>4 DEF Covers
    <2>6. Covers(journal)'
      <3>1. Covers(memory) /\ ~memory.enablement_reverted
        BY <2>3, <2>4 DEF Covers
      <3>2. Covers(memory)'
        BY <1>1, <1>9, <2>3, <3>1
      <3> QED
        BY <1>1, <2>3, <3>2
    <2>7. Covers(onDisk)'
      <3>1. onDisk \in Journals
        BY <2>4, NothingIsSettled DEF IInv, TypeInv
      <3>2. PICK j \in Journals : j = onDisk
        BY <3>1
      <3>3. Covers(j) /\ ~j.enablement_reverted
        BY <2>4, <2>5, <3>2 DEF Covers
      <3>4. Covers(j)'
        BY <1>2, <1>9, <2>2, <2>5, <3>3
      <3> QED
        BY <1>1, <3>2, <3>4
    <2>8. Ledger'
      BY <1>1, <1>8, <2>4, <2>6, <2>7, NothingIsSettled DEF IInv, Ledger
    <2>9. RestoreInv'
      <3>1. program' = Tail(program)
        BY DEF Advance
      <3>2. Restoring(program', memory)
        BY <1>2, <2>1, <3>1, RestoringTail DEF RestoreInv
      <3>3. \A k : Restores(program, k) => Restores(program', k)
        BY <1>2, <1>3, <3>1, TailRestores DEF Next1
      <3>4. ~Next1("syncFile")
        BY <1>3
      <3> QED
        BY <1>1, <1>2, <2>1, <2>2, <2>3, <3>2, <3>3, <3>4 DEF RestoreInv
    <2> QED
      BY <1>5, <1>7, <1>12, <2>8, <2>9, StepOf, NothingIsSettled DEF IInv
  <1> QED
    BY <1>6, <1>10, <1>11, <1>12

LEMMA CommandKeeps ==
  ASSUME IInv, Command
  PROVE  IInv'
  <1>1. Advance /\ HelperRest /\ UNCHANGED <<files, memory, counters>> /\ program # <<>>
    BY DEF Command, At
  <1>2. CASE At("enable") /\ enabled' = Op.to /\ UNCHANGED <<wanted, running>>
    BY <1>1, <1>2, EnableKeeps DEF At
  <1>3. running \in BOOLEAN /\ Consistent \in BOOLEAN
    BY DEF IInv, TypeInv, Consistent
  <1>4. CASE At("stop") /\ wanted' = FALSE /\ running' = FALSE /\ UNCHANGED enabled
    BY <1>1, <1>4, PlainKeeps DEF At
  <1>5. CASE At("start") /\ wanted' = TRUE /\ running' = Consistent /\ UNCHANGED enabled
    BY <1>1, <1>3, <1>5, PlainKeeps DEF At
  <1>6. CASE (At("validate") \/ At("recoverState") \/ At("reload")) /\ UNCHANGED unit
    BY <1>1, <1>3, <1>6, PlainKeeps DEF At, unit
  <1> QED
    BY <1>2, <1>4, <1>5, <1>6 DEF Command

\* A transaction begins on the files that were there.
LEMMA OpenKeeps ==
  ASSUME IInv, Open
  PROVE  IInv'
  <1> DEFINE opened == [stage |-> transactions + 1,
                replacing |-> visible["record"] # "none",
                previousActive |-> visible["record"] # "none" /\ running,
                previousEnabled |-> visible["record"] # "none" /\ enabled,
                start_attempted |-> FALSE, enablement_attempted |-> FALSE,
                candidate_stopped |-> FALSE, enablement_reverted |-> FALSE,
                complete |-> FALSE, rolled_back |-> FALSE, changes |-> <<>>]
  <1>1. /\ program # <<>> /\ Advance /\ HelperRest /\ Op.do = "begin" /\ ~Impossible(Op)
        /\ memory' = opened /\ journal' = opened /\ transactions' = transactions + 1
        /\ stages' = stages \cup {transactions + 1}
        /\ UNCHANGED <<visible, durable, onDisk, backups, enabled, running, edits>>
    BY DEF Open, At, unit
  <1>2. UNCHANGED <<phase, failed, finishing, operation, exit, before>>
    BY <1>1 DEF HelperRest
  <1>3. opened \in Journals
    <2>1. transactions + 1 \in Nat \ {0} /\ enabled \in BOOLEAN /\ running \in BOOLEAN
      BY DEF IInv, TypeInv
    <2>2. <<>> \in Seq(Change)
      OBVIOUS
    <2>3. (visible["record"] # "none") \in BOOLEAN /\ (visible["record"] # "none" /\ running) \in BOOLEAN
          /\ (visible["record"] # "none" /\ enabled) \in BOOLEAN
      BY <2>1
    <2> QED
      BY <2>1, <2>2, <2>3 DEF Journals
  <1>4. PICK j \in Journals :
          /\ j = opened /\ j.stage = transactions + 1 /\ ~j.complete /\ ~j.rolled_back
          /\ ~j.enablement_attempted /\ ~j.enablement_reverted /\ j.changes = <<>>
          /\ j.previousEnabled <=> visible["record"] # "none" /\ enabled
    BY <1>3
  <1> HIDE DEF opened
  <1>5. /\ Next1("begin") /\ program \in Seq(Instructions)
    BY <1>1, HeadOf DEF IInv
  <1>6. /\ ~Next1("save") /\ ~Next1("sync") /\ ~Next1("clean") /\ ~Next1("put") /\ ~Next1("intent")
        /\ ~Next1("syncFile") /\ ~Next1("enable")
    BY <1>5 DEF Next1, Is
  <1>7. phase = "work" /\ journal = NoJournal
    BY <1>1, <1>5, PhaseOf DEF IInv, Impossible
  <1>8. WorkInv /\ Unbegun /\ Working(program)
    BY <1>5, <1>7 DEF IInv, Control, WorkInv, Begun
  <1>9. TypeInv'
    <2>1. program' \in Seq(Instructions)
      BY <1>1, AdvanceOf DEF IInv
    <2>2. transactions' \in Nat
      BY <1>1 DEF IInv, TypeInv
    <2> QED
      BY <1>1, <1>2, <1>4, <2>1, <2>2 DEF IInv, TypeInv
  <1>10. /\ visible = before.files /\ durable = visible /\ Settled(onDisk)
         /\ enabled <=> before.enabled
    BY <1>8 DEF IInv, Ledger, Unbegun
  <1>11. Len(j.changes) = 0 /\ Names(j) = {}
    BY <1>4 DEF Names
  <1>12. Covers(j)'
    <2>1. j.stage \in stages'
      BY <1>1, <1>4
    <2>2. \A f \in Files : Intact(f)'
      BY <1>1, <1>2, <1>10 DEF Intact
    <2>3. j.previousEnabled <=> before'.files["record"] # "none" /\ before'.enabled
      BY <1>2, <1>4, <1>10
    <2>4. enabled' <=> before'.enabled
      BY <1>1, <1>2, <1>10
    <2>5. /\ \A i \in 1 .. Len(j.changes) : CoversChange(j, i)'
          /\ \A f \in Files \ Names(j) : Intact(f)'
      BY <1>11, <2>2
    <2>6. (\A f \in Files \ Names(j) : Intact(f))'
      BY <2>5
    <2> QED
      BY <1>4, <2>1, <2>3, <2>4, <2>5, <2>6 DEF Covers
  <1>13. Ledger'
    <2>1. Settled(onDisk)' /\ ~Settled(j)
      <3>1. ~Settled(j)
        BY <1>4, JournalOf
      <3>2. Settled(onDisk')
        BY <1>1, <1>10
      <3> QED
        BY <3>1, <3>2
    <2>2. Covers(journal)'
      BY <1>1, <1>4, <1>12
    <2>3. journal' # NoJournal /\ ~Settled(journal)'
      BY <1>1, <1>4, <2>1, NothingIsSettled DEF Settled
    <2> QED
      BY <1>1, <1>2, <1>4, <2>1, <2>2, <2>3 DEF IInv, Ledger
  <1>14. Working(program)' /\ Distinct(program)' /\ Aiming'
    BY <1>1, <1>2, <1>6, <1>8, AimingKept DEF IInv
  <1>15. Next1("published")'
    BY <1>1, <1>5, <1>8, Window DEF IInv
  <1>16. program' # <<>>
    BY <1>15 DEF Next1, Is
  <1>17. /\ ~Next1("validate")' /\ ~Next1("begin")' /\ ~Next1("put")' /\ ~Next1("sync")'
         /\ ~Next1("enable")' /\ ~Next1("clean")'
    BY <1>15 DEF Next1, Is
  <1>18. Begun'
    <2>1. ~Next2("sync", "put")' /\ ~Next2("sync", "enable")' /\ ~Next2("sync", "clean")'
      BY <1>17 DEF Next1, Next2
    <2>2. Deciding'
      BY <1>1, <1>4, <1>16, <1>17, <2>1 DEF Deciding
    <2>3. Settled(onDisk)'
      BY <1>1, <1>10 DEF Settled
    <2> QED
      BY <1>1, <1>4, <1>15, <1>17, <2>1, <2>2, <2>3 DEF Begun
  <1>19. Replaced'
    <2>1. Len(memory'.changes) = 0 /\ Names(memory)' = {}
      BY <1>1, <1>4, <1>11
    <2>2. \A f \in Files : visible'[f] = before'.files[f]
      BY <1>1, <1>2, <1>10
    <2> QED
      BY <2>1, <2>2 DEF Replaced
  <1>20. WorkInv'
    BY <1>1, <1>4, <1>14, <1>18, <1>19, NothingIsSettled DEF WorkInv
  <1> QED
    BY <1>1, <1>7, <1>9, <1>13, <1>20, StepOf DEF IInv

\* What covers depends on, but for the journal itself.
coverVars == <<visible, durable, stages, backups, enabled, edits, before>>

LEMMA OnDiskKept ==
  ASSUME UNCHANGED coverVars, UNCHANGED onDisk, Ledger
  PROVE  (~Settled(onDisk) => Covers(onDisk))' /\ Settled(onDisk)' = Settled(onDisk)
  BY DEF coverVars, Ledger, Covers, CoversChange, Intact, Edited, Names, Settled

LEMMA CoversMarked ==
  ASSUME UNCHANGED coverVars, NEW j \in Journals, NEW m \in SUBSET Flags, Covers(j),
         "rolled_back" \notin m, "enablement_reverted" \in m => ~enabled /\ ~j.previousEnabled
  PROVE  Covers(Marked(j, m))'
  <1>1. PICK k \in Journals : k = Marked(j, m)
    BY MarkedOf
  <1>2. /\ k.stage = j.stage /\ k.changes = j.changes /\ k.previousEnabled = j.previousEnabled
        /\ ~k.enablement_attempted => ~j.enablement_attempted
        /\ k.enablement_reverted => j.enablement_reverted \/ "enablement_reverted" \in m
        /\ k.rolled_back => j.rolled_back
    BY <1>1, MarkedOf
  <1>3. Covers(k)'
    <2>1. \A i \in 1 .. Len(k.changes) : CoversChange(k, i)'
      BY <1>2 DEF Covers, CoversChange, coverVars, Edited
    <2>2. \A f \in Files \ Names(k) : Intact(f)'
      BY <1>2 DEF Covers, coverVars, Edited, Intact, Names
    <2> QED
      BY <1>2, <2>1, <2>2 DEF Covers, coverVars
  <1>4. Marked(j, m)' = Marked(j, m)
    OBVIOUS
  <1> QED
    BY <1>1, <1>3

\* Nothing follows a decision but its removal.
LEMMA DecisionIsLast ==
  ASSUME TypeInv, program # <<>>, Closing(program), Decision(program, 1)
  PROVE  /\ \A f : ~Puts(program, f)
         /\ ~Has(program, "enable")
  <1>1. program \in Seq(Instructions) /\ Len(program) \in Nat \ {0}
    BY HeadOf
  <1>2. Is(program, 2, "sync") /\ Is(program, 3, "clean")
    BY <1>1 DEF Closing, ClosingAt
  <1>3. Len(program) = 3
    BY <1>1, <1>2 DEF Closing, ClosingAt, Is
  <1>4. \A i \in 1 .. Len(program) : program[i].do \in {"save", "sync", "clean"}
    BY <1>2, <1>3 DEF Decision, Is
  <1> QED
    BY <1>4 DEF Puts, Has

\* An operation that has nothing left to replace is at its target.
LEMMA AtTarget ==
  ASSUME TypeInv, WorkInv, program # <<>>, ~Next1("syncFile"), \A f : ~Puts(program, f),
         ~Has(program, "enable")
  PROVE  visible = Target /\ visible = durable /\ (visible["record"] = "none" => ~enabled)
  <1>1. \A f \in Files : visible[f] = Target[f] /\ durable[f] = visible[f]
    BY DEF WorkInv, Aiming
  <1>2. visible \in [Files -> Versions] /\ durable \in [Files -> Versions] /\ "record" \in Files
        /\ before.files \in [Files -> Versions]
    BY DEF TypeInv, Files
  <1>3. Target = [f \in Files |-> Target[f]]
    BY <1>2 DEF Target
  <1>4. visible = Target
    BY <1>1, <1>2, <1>3
  <1>5. visible = durable
    BY <1>1, <1>2
  <1>6. ASSUME visible["record"] = "none" PROVE ~enabled
    <2>1. operation # "install"
      BY <1>1, <1>2, <1>6 DEF Target
    <2>2. operation # "package" /\ (operation # "install" => before.files["record"] # "none")
      BY DEF WorkInv, Aiming
    <2>3. operation = "remove"
      BY <1>1, <1>2, <1>6, <2>1, <2>2 DEF Target
    <2> QED
      BY <2>3 DEF WorkInv, Aiming
  <1> QED
    BY <1>4, <1>5, <1>6

\* A flag of the journal, before or with what it stands for.
LEMMA SaveRenameKeeps ==
  ASSUME IInv, SaveRename
  PROVE  IInv'
  <1>1. /\ program # <<>> /\ Advance /\ HelperRest /\ Op.do = "save"
        /\ memory' = Marked(memory, Op.marks) /\ journal' = memory'
        /\ UNCHANGED <<visible, durable, onDisk, stages, backups, enabled, running, edits, transactions>>
    BY DEF SaveRename, At, unit, counters
  <1>2. UNCHANGED <<phase, failed, finishing, operation, exit, before>> /\ UNCHANGED coverVars
    BY <1>1 DEF HelperRest, coverVars
  <1>3. /\ Next1("save") /\ Op = program[1] /\ program[1] \in Instructions
        /\ program \in Seq(Instructions) /\ Len(program) \in Nat \ {0}
    BY <1>1, HeadOf DEF IInv
  <1>4. /\ ~Next1("sync") /\ ~Next1("clean") /\ ~Next1("put") /\ ~Next1("intent")
        /\ ~Next1("syncFile") /\ ~Next1("enable") /\ ~Next1("begin") /\ ~Next1("validate")
        /\ ~Next1("published") /\ ~Next2("sync", "clean")
    BY <1>3 DEF Next1, Next2, Is
  <1>5. phase \in {"work", "undo", "seal"} /\ memory \in Journals /\ memory # NoJournal
    BY <1>3, <1>4, PhaseOf, MemoryOf, NothingIsSettled DEF IInv
  <1>6. PICK j \in Journals, m \in SUBSET Flags : j = memory /\ m = program[1].marks
    BY <1>3, <1>5, InstructionOf DEF Next1, Is
  <1>7. PICK k \in Journals : k = Marked(j, m)
    BY MarkedOf
  <1>8. /\ memory' = k /\ journal' = k /\ k # NoJournal
        /\ k.stage = j.stage /\ k.changes = j.changes /\ k.previousEnabled = j.previousEnabled
        /\ k.enablement_attempted <=> j.enablement_attempted \/ "enablement_attempted" \in m
        /\ k.enablement_reverted <=> j.enablement_reverted \/ "enablement_reverted" \in m
        /\ k.complete <=> j.complete \/ "complete" \in m
        /\ k.rolled_back <=> j.rolled_back \/ "rolled_back" \in m
        /\ Settled(k) <=> k.complete
    BY <1>1, <1>3, <1>6, <1>7, MarkedOf, JournalOf
  <1>9. TypeInv'
    <2>1. program' \in Seq(Instructions)
      BY <1>1, AdvanceOf DEF IInv
    <2> QED
      BY <1>1, <1>2, <1>8, <2>1 DEF IInv, TypeInv
  <1>10. /\ (~Settled(onDisk) => Covers(onDisk))' /\ Settled(onDisk)' = Settled(onDisk)
         /\ Settled(journal)' <=> k.complete
    <2>1. (~Settled(onDisk) => Covers(onDisk))' /\ Settled(onDisk)' = Settled(onDisk)
      BY <1>1, <1>2, OnDiskKept DEF IInv
    <2>2. Settled(journal') <=> k.complete
      BY <1>8
    <2> QED
      BY <2>1, <2>2
  <1>11. ASSUME Covers(j), "rolled_back" \notin m,
                "enablement_reverted" \in m => ~enabled /\ ~j.previousEnabled
         PROVE  Covers(journal)'
    <2>1. Covers(Marked(j, m))'
      BY <1>2, <1>11, CoversMarked
    <2>2. Covers(k)'
      BY <1>7, <2>1
    <2> QED
      BY <1>8, <2>2
  <1>12. CASE phase = "work"
    <2>1. WorkInv /\ Begun /\ Replaced /\ Working(program) /\ Closing(program) /\ Deciding
      BY <1>5, <1>12 DEF IInv, Control, WorkInv, Begun, Working
    <2>2. ~j.complete /\ journal = memory /\ ~Settled(onDisk)
      BY <1>1, <1>4, <1>6, <2>1 DEF Begun, Deciding
    <2>3. "rolled_back" \notin m /\ "enablement_reverted" \notin m
      BY <1>3, <1>6, <2>1 DEF Working, WorkingAt, Next1, Is
    <2>4. Covers(j) /\ Covers(journal)'
      <3>1. Covers(j)
        BY <1>6, <2>2, JournalOf DEF IInv, Ledger
      <3> QED
        BY <1>11, <2>3, <3>1
    <2>5. k.complete <=> Decision(program, 1)
      BY <1>3, <1>6, <1>8, <2>2 DEF Decision, Next1
    <2>6. k.complete => visible = Target /\ visible = durable /\ (visible["record"] = "none" => ~enabled)
      BY <1>1, <1>4, <2>1, <2>5, DecisionIsLast, AtTarget DEF IInv
    <2>7. Ledger'
      BY <1>1, <1>2, <1>8, <1>10, <2>2, <2>4, <2>6 DEF IInv, Ledger
    <2>8. Working(program)' /\ Distinct(program)' /\ Aiming'
      BY <1>1, <1>2, <1>4, <2>1, AimingKept DEF IInv
    <2>9. Replaced'
      BY <1>1, <1>2, <1>4, <1>6, <1>8, <2>1, ReplacedKept DEF IInv
    <2>10. /\ ~Next1("clean")' /\ (Next2("sync", "clean")' <=> Decision(program, 1))
           /\ program' # <<>>
      BY <1>1, <1>4, <2>1, ClosingWindow DEF IInv
    <2>11. /\ ~Next1("validate")' /\ ~Next1("begin")' /\ ~Next1("published")' /\ ~Next1("put")'
           /\ ~Next2("sync", "put")' /\ ~Next1("enable")'
           /\ Next2("sync", "enable")' => Attempt(program, 1)
      BY <1>1, <1>4, <2>1, Window DEF IInv, Next1, Next2
    <2>12. Deciding'
      BY <1>8, <2>5, <2>10 DEF Deciding
    <2>13. Begun'
      <3>1. Attempt(program, 1) => k.enablement_attempted
        BY <1>6, <1>8 DEF Attempt
      <3>2. ~k.rolled_back /\ ~k.enablement_reverted
        BY <1>6, <1>8, <2>1, <2>3 DEF Begun
      <3> QED
        BY <1>8, <1>10, <2>2, <2>11, <2>12, <3>1, <3>2 DEF Begun
    <2>14. WorkInv'
      BY <1>8, <2>8, <2>9, <2>13 DEF WorkInv
    <2> QED
      BY <1>1, <1>9, <1>12, <2>7, <2>14, StepOf DEF IInv
  <1>13. CASE phase = "undo"
    <2>1. UndoInv /\ memory = journal /\ ~memory.complete
      BY <1>13 DEF IInv, Control, UndoInv
    <2>2. /\ m \in {{"candidate_stopped"}, {"enablement_reverted"}}
          /\ "enablement_reverted" \in m => ~enabled /\ ~j.previousEnabled
      BY <1>3, <1>6, <2>1 DEF UndoInv, Undoing, UndoingAt, Next1, Is
    <2>3. "rolled_back" \notin m /\ "complete" \notin m /\ "enablement_attempted" \notin m
      BY <2>2
    <2>4. Covers(j) /\ ~j.complete
      BY <1>6, <2>1, JournalOf DEF IInv, Ledger
    <2>5. Covers(journal)'
      BY <1>11, <2>2, <2>3, <2>4
    <2>6. Ledger'
      <3>1. ~Settled(journal)
        BY <1>6, <2>1, JournalOf
      <3>2. Settled(onDisk) => k.changes = <<>> /\ ~k.enablement_attempted
        BY <1>6, <1>8, <2>1, <2>3, <3>1 DEF IInv, Ledger
      <3> QED
        BY <1>1, <1>2, <1>8, <1>10, <2>3, <2>4, <2>5, <3>2 DEF IInv, Ledger
    <2>7. UndoInv'
      <3>1. /\ memory'.complete = memory.complete /\ memory'.previousEnabled = memory.previousEnabled
            /\ memory'.enablement_attempted = memory.enablement_attempted
        <4>1. {k.complete, j.complete, k.enablement_attempted, j.enablement_attempted} \subseteq BOOLEAN
          BY JournalOf
        <4> QED
          BY <1>6, <1>8, <2>3, <4>1
      <3> QED
        BY <1>1, <1>4, <2>1, <3>1, UndoKept DEF IInv
    <2> QED
      BY <1>1, <1>8, <1>9, <1>13, <2>6, <2>7, StepOf DEF IInv
  <1>14. CASE phase = "seal"
    <2>1. SealInv /\ Deciding /\ Sealing(program) /\ Closing(program)
      BY <1>14 DEF IInv, Control, SealInv, Sealing
    <2>2. m = {"rolled_back", "complete"}
      BY <1>3, <1>6, <2>1 DEF Sealing, SealingAt, Next1, Is
    <2>3. k.complete /\ k.rolled_back /\ Decision(program, 1)
      BY <1>3, <1>6, <1>8, <2>2 DEF Decision, Next1
    <2>4. visible = durable /\ (visible["record"] = "none" => ~enabled)
      <3>1. visible \in [Files -> Versions] /\ durable \in [Files -> Versions] /\ "record" \in Files
        BY DEF IInv, TypeInv, Files
      <3>2. \A f \in Files : visible[f] = durable[f]
        BY <2>1 DEF SealInv, Intact, Edited
      <3>3. visible["record"] = "none" => before.files["record"] = "none"
        BY <2>1, <3>1 DEF SealInv, Intact, Edited
      <3> QED
        BY <2>1, <3>1, <3>2, <3>3 DEF SealInv, IInv, Ledger
    <2>5. Ledger'
      BY <1>1, <1>2, <1>8, <1>10, <2>3, <2>4 DEF IInv, Ledger
    <2>6. Deciding'
      <3>1. ~Next1("clean")' /\ Next2("sync", "clean")' /\ program' # <<>>
        BY <1>1, <1>4, <2>1, <2>3, ClosingWindow DEF IInv
      <3> QED
        BY <1>8, <2>3, <3>1 DEF Deciding
    <2>7. SealInv'
      <3>1. Sealing(program')
        BY <1>1, <1>3, <2>1, SealingTail DEF Advance
      <3>2. \A f \in Files : Intact(f)'
        BY <1>1, <1>2, <2>1 DEF SealInv, Intact, Edited
      <3> QED
        BY <1>1, <1>2, <1>6, <1>8, <2>1, <2>3, <2>6, <3>1, <3>2 DEF SealInv
    <2> QED
      BY <1>1, <1>8, <1>9, <1>14, <2>5, <2>7, StepOf DEF IInv
  <1> QED
    BY <1>5, <1>12, <1>13, <1>14

\* The journal's name reaches the disk.
LEMMA SyncDecides ==
  ASSUME TypeInv, program # <<>>, Closing(program), Deciding, Advance, ~Next1("save"), ~Next1("clean"),
         UNCHANGED <<memory, journal>>, onDisk' = journal
  PROVE  Deciding'
  <1>1. /\ Next1("clean")' <=> Next2("sync", "clean")
        /\ ~Next2("sync", "clean")' /\ program' # <<>>
    BY ClosingWindow DEF Decision, Next1
  <1> QED
    BY <1>1 DEF Deciding

LEMMA SyncBaseKeeps ==
  ASSUME IInv, SyncBase
  PROVE  IInv'
  <1>1. /\ program # <<>> /\ Advance /\ HelperRest /\ Op.do \in {"sync", "published"} /\ onDisk' = journal
        /\ UNCHANGED <<visible, durable, journal, stages, backups, enabled, running, edits, transactions,
                       memory>>
    BY DEF SyncBase, At, unit, counters
  <1>2. UNCHANGED <<phase, failed, finishing, operation, exit, before>> /\ UNCHANGED coverVars
    BY <1>1 DEF HelperRest, coverVars
  <1>3. /\ Next1("sync") \/ Next1("published")
        /\ program \in Seq(Instructions) /\ Len(program) \in Nat \ {0}
    BY <1>1, HeadOf DEF IInv
  <1>4. /\ ~Next1("save") /\ ~Next1("clean") /\ ~Next1("put") /\ ~Next1("intent")
        /\ ~Next1("syncFile") /\ ~Next1("enable") /\ ~Next1("begin") /\ ~Next1("validate")
    BY <1>3 DEF Next1, Is
  <1>5. phase \in {"work", "undo", "seal", "settle"} /\ memory \in Journals /\ memory # NoJournal
    BY <1>1, <1>3, <1>4, PhaseOf, MemoryOf, NothingIsSettled DEF IInv
  <1>6. TypeInv'
    <2>1. program' \in Seq(Instructions)
      BY <1>1, AdvanceOf DEF IInv
    <2> QED
      BY <1>1, <1>2, <2>1 DEF IInv, TypeInv
  <1>7. Settled(onDisk)' = Settled(journal) /\ Settled(journal)' = Settled(journal)
    BY <1>1 DEF Settled
  <1>8. Ledger'
    <2>1. (~Settled(journal) => Covers(journal))'
      BY <1>1, <1>2 DEF coverVars, IInv, Ledger, Covers, CoversChange, Intact, Edited, Names, Settled
    <2>2. (~Settled(onDisk) => Covers(onDisk))'
      BY <1>1, <1>2 DEF coverVars, IInv, Ledger, Covers, CoversChange, Intact, Edited, Names, Settled
    <2> QED
      BY <1>1, <1>2, <1>7, <2>1, <2>2, NothingIsSettled DEF IInv, Ledger
  <1>9. CASE phase = "work"
    <2>1. WorkInv /\ Begun /\ Replaced /\ Working(program) /\ Closing(program) /\ Deciding
      BY <1>5, <1>9 DEF IInv, Control, WorkInv, Begun, Working
    <2>2. journal = memory
      BY <1>1, <2>1 DEF Deciding
    <2>3. Working(program)' /\ Distinct(program)' /\ Aiming'
      BY <1>1, <1>2, <1>4, <2>1, AimingKept DEF IInv
    <2>4. Replaced'
      BY <1>1, <1>2, <1>4, <2>1, ReplacedKept DEF IInv
    <2>5. Deciding'
      BY <1>1, <1>4, <2>1, SyncDecides DEF IInv
    <2>6. Begun'
      <3>1. /\ ~Next1("validate")' /\ ~Next1("begin")' /\ ~Next1("published")'
            /\ Next1("put")' => Next2("sync", "put") /\ program'[1] = program[2]
            /\ ~Next2("sync", "put")'
            /\ Next1("enable")' => Next2("sync", "enable")
            /\ ~Next2("sync", "enable")'
        BY <1>1, <1>4, <2>1, Window DEF IInv, Next1, Attempt
      <3>2. Next1("put")' => Noted(program[1])'
        BY <1>1, <2>1, <3>1 DEF Begun, Noted
      <3>3. Settled(onDisk)' <=> memory'.complete
        BY <1>1, <1>5, <1>7, <2>2, JournalOf
      <3> QED
        BY <1>1, <2>1, <2>5, <3>1, <3>2, <3>3 DEF Begun
    <2>7. WorkInv'
      BY <1>1, <1>5, <2>3, <2>4, <2>6 DEF WorkInv
    <2> QED
      BY <1>1, <1>6, <1>8, <1>9, <2>7, StepOf DEF IInv
  <1>10. CASE phase = "undo"
    <2>1. UndoInv'
      BY <1>1, <1>4, <1>10, UndoKept DEF IInv, Control, UndoInv
    <2> QED
      BY <1>1, <1>5, <1>6, <1>8, <1>10, <2>1, StepOf DEF IInv
  <1>11. CASE phase \in {"seal", "settle"}
    <2>1. Sealing(program) /\ Closing(program) /\ Deciding
      BY <1>11 DEF IInv, Control, SealInv, SettleInv, Sealing
    <2>2. Sealing(program')
      BY <1>1, <1>3, <2>1, SealingTail DEF Advance
    <2>3. Deciding'
      BY <1>1, <1>4, <2>1, SyncDecides DEF IInv
    <2>4. ASSUME phase = "seal" PROVE SealInv'
      <3>1. SealInv
        BY <2>4 DEF IInv, Control
      <3>2. \A f \in Files : Intact(f)'
        BY <1>1, <1>2, <3>1 DEF SealInv, Intact, Edited
      <3> QED
        BY <1>1, <1>2, <2>2, <2>3, <3>1, <3>2 DEF SealInv
    <2>5. ASSUME phase = "settle" PROVE SettleInv'
      <3>1. SettleInv
        BY <2>5 DEF IInv, Control
      <3>2. Target' = Target
        BY <1>2 DEF Target
      <3> QED
        BY <1>1, <1>2, <2>2, <2>3, <3>1, <3>2 DEF SettleInv
    <2> QED
      BY <1>1, <1>5, <1>6, <1>8, <1>11, <2>4, <2>5, StepOf DEF IInv
  <1> QED
    BY <1>5, <1>9, <1>10, <1>11

\* One more change is written down.
LEMMA AppendedOf ==
  ASSUME NEW j \in Journals, NEW c \in Change, NEW k, k = [j EXCEPT !.changes = Append(@, c)]
  PROVE  /\ k \in Journals /\ k.stage = j.stage /\ k.previousEnabled = j.previousEnabled
         /\ k.enablement_attempted = j.enablement_attempted
         /\ k.enablement_reverted = j.enablement_reverted
         /\ k.complete = j.complete /\ k.rolled_back = j.rolled_back
         /\ Len(j.changes) \in Nat /\ Len(k.changes) = Len(j.changes) + 1
         /\ k.changes[Len(j.changes) + 1] = c
         /\ \A i \in 1 .. Len(j.changes) : k.changes[i] = j.changes[i]
         /\ Names(k) = Names(j) \cup {c.name}
  <1> DEFINE s == Append(j.changes, c)
  <1>1. j.changes \in Seq(Change) /\ Len(j.changes) \in Nat
    BY JournalOf
  <1>2. /\ s \in Seq(Change) /\ Len(s) = Len(j.changes) + 1 /\ s[Len(j.changes) + 1] = c
        /\ \A i \in 1 .. Len(j.changes) : s[i] = j.changes[i]
    BY <1>1
  <1>3. k = [j EXCEPT !.changes = s]
    OBVIOUS
  <1> HIDE DEF s
  <1>4. k \in Journals /\ k.changes = s
    <2> HIDE DEF Change
    <2> QED
      BY <1>2, <1>3 DEF Journals
  <1>5. /\ k.stage = j.stage /\ k.previousEnabled = j.previousEnabled
         /\ k.enablement_attempted = j.enablement_attempted
         /\ k.enablement_reverted = j.enablement_reverted
         /\ k.complete = j.complete /\ k.rolled_back = j.rolled_back
    BY <1>3 DEF Journals
  <1>6. Names(k) = Names(j) \cup {c.name}
    <2>1. Names(k) = {s[i].name : i \in 1 .. Len(s)}
      BY <1>4 DEF Names
    <2>2. ASSUME NEW i \in 1 .. Len(s) PROVE s[i].name \in Names(j) \cup {c.name}
      <3>1. i \in 1 .. Len(j.changes) \/ i = Len(j.changes) + 1
        BY <1>1, <1>2
      <3> QED
        BY <1>2, <3>1 DEF Names
    <2>3. ASSUME NEW i \in 1 .. Len(j.changes) PROVE \E l \in 1 .. Len(s) : s[l].name = j.changes[i].name
      <3>1. i \in 1 .. Len(s) /\ s[i] = j.changes[i]
        BY <1>1, <1>2
      <3> QED
        BY <3>1
    <2>4. \E l \in 1 .. Len(s) : s[l].name = c.name
      <3>1. Len(j.changes) + 1 \in 1 .. Len(s)
        BY <1>1, <1>2
      <3> QED
        BY <1>2, <3>1
    <2> QED
      BY <2>1, <2>2, <2>3, <2>4 DEF Names
  <1> QED
    BY <1>1, <1>2, <1>4, <1>5, <1>6

LEMMA IntentKeeps ==
  ASSUME IInv, Intent
  PROVE  IInv'
  <1> DEFINE f == program[1].name
             n == Len(memory.changes) + 1
             mine == [name |-> program[1].name, prior |-> visible[program[1].name],
                      candidate |-> program[1].to]
  <1>1. /\ program # <<>> /\ Advance /\ HelperRest /\ Op.do = "intent"
        /\ UNCHANGED <<visible, durable, onDisk, stages, enabled, running, edits, transactions>>
    BY DEF Intent, At, unit, counters
  <1>2. UNCHANGED <<phase, failed, finishing, operation, exit, before>>
    BY <1>1 DEF HelperRest
  <1>3. /\ Next1("intent") /\ Op = program[1] /\ program[1] \in Instructions
        /\ program \in Seq(Instructions) /\ Len(program) \in Nat \ {0}
    BY <1>1, HeadOf DEF IInv
  <1>4. /\ backups' = IF visible[f] = "none" THEN backups ELSE backups \cup {<<memory.stage, n>>}
        /\ memory' = [memory EXCEPT !.changes = Append(@, mine)] /\ journal' = memory'
    BY <1>3 DEF Intent
  <1>5. f \in Files /\ program[1].to \in Candidates /\ visible[f] \in Versions
    BY <1>3, InstructionOf DEF Next1, Is, IInv, TypeInv
  <1>6. /\ ~Next1("save") /\ ~Next1("sync") /\ ~Next1("clean") /\ ~Next1("put")
        /\ ~Next1("syncFile") /\ ~Next1("enable") /\ ~Next1("begin") /\ ~Next1("validate")
        /\ ~Next1("published") /\ ~Next2("sync", "put")
    BY <1>3 DEF Next1, Next2, Is
  <1>7. phase = "work" /\ memory \in Journals /\ memory # NoJournal
    BY <1>1, <1>3, <1>6, PhaseOf, MemoryOf, NothingIsSettled DEF IInv
  <1>8. PICK j \in Journals, c \in Change : j = memory /\ c = mine
    BY <1>5, <1>7 DEF Change
  <1>9. PICK k : k = [j EXCEPT !.changes = Append(@, c)]
    OBVIOUS
  <1>10. /\ k \in Journals /\ k.stage = j.stage /\ k.previousEnabled = j.previousEnabled
         /\ k.enablement_attempted = j.enablement_attempted
         /\ k.enablement_reverted = j.enablement_reverted
         /\ k.complete = j.complete /\ k.rolled_back = j.rolled_back
         /\ Len(j.changes) \in Nat /\ Len(k.changes) = Len(j.changes) + 1
         /\ k.changes[Len(j.changes) + 1] = c
         /\ \A i \in 1 .. Len(j.changes) : k.changes[i] = j.changes[i]
         /\ Names(k) = Names(j) \cup {c.name}
    BY <1>9, AppendedOf
  <1>11. /\ memory' = k /\ journal' = k /\ k # NoJournal
         /\ c.name = program[1].name /\ c.prior = visible[c.name] /\ c.candidate = program[1].to
         /\ c.name \in Files
         /\ n = Len(j.changes) + 1
         /\ backups \subseteq backups' /\ (c.prior # "none" => <<j.stage, n>> \in backups')
    BY <1>4, <1>5, <1>8, <1>9, <1>10, NothingIsSettled
  <1> HIDE DEF f, n, mine
  <1>12. TypeInv'
    <2>1. program' \in Seq(Instructions)
      BY <1>1, AdvanceOf DEF IInv
    <2> QED
      BY <1>1, <1>2, <1>10, <1>11, <2>1 DEF IInv, TypeInv
  <1>13. WorkInv /\ Begun /\ Replaced /\ Working(program) /\ Closing(program) /\ Deciding
         /\ Distinct(program)
    BY <1>7 DEF IInv, Control, WorkInv, Begun, Working
  <1>14. Deciding' /\ ~j.complete /\ journal = j /\ ~Settled(onDisk)
    <2>1. Deciding' /\ ~memory.complete
      BY <1>1, <1>6, <1>8, <1>10, <1>11, <1>13, DecidingKept DEF IInv
    <2> QED
      BY <1>1, <1>6, <1>8, <1>13, <2>1 DEF Begun, Deciding
  <1>15. Covers(j) /\ Covers(onDisk)
    BY <1>14, JournalOf DEF IInv, Ledger
  <1>16. /\ c.name \notin Names(j) /\ visible[c.name] = before.files[c.name]
         /\ durable[c.name] = visible[c.name]
    <2>1. c.name \notin Names(j)
      BY <1>3, <1>8, <1>11, <1>13 DEF Replaced, Next1, Is
    <2> QED
      BY <1>6, <1>8, <1>11, <1>13, <2>1 DEF Replaced, WorkInv, Aiming
  <1>17. \A g \in Files : Intact(g) => Intact(g)'
    BY <1>1, <1>2 DEF Intact, Edited
  <1>18. Covers(k)'
    <2>1. ASSUME NEW i \in 1 .. Len(k.changes) PROVE CoversChange(k, i)'
      <3>1. CASE i \in 1 .. Len(j.changes)
        <4>1. CoversChange(j, i) /\ k.changes[i] = j.changes[i] /\ j.changes[i].name # c.name
          BY <1>10, <1>15, <1>16, <3>1 DEF Covers, Names
        <4>2. \A l \in 1 .. Len(k.changes) : k.changes[l].name = k.changes[i].name => l = i
          <5>1. \A l \in 1 .. Len(k.changes) : l \in 1 .. Len(j.changes) \/ l = Len(j.changes) + 1
            BY <1>10
          <5> QED
            BY <1>10, <4>1, <5>1 DEF CoversChange
        <4> QED
          BY <1>1, <1>2, <1>10, <1>11, <4>1, <4>2 DEF CoversChange, Edited
      <3>2. CASE i = Len(j.changes) + 1
        <4>1. k.changes[i] = c
          BY <1>10, <3>2
        <4>2. \A l \in 1 .. Len(k.changes) : k.changes[l].name = c.name => l = i
          <5>1. \A l \in 1 .. Len(k.changes) : l \in 1 .. Len(j.changes) \/ l = i
            BY <1>10, <3>2
          <5> QED
            BY <1>10, <1>16, <5>1 DEF Names
        <4> QED
          BY <1>1, <1>2, <1>10, <1>11, <1>16, <3>2, <4>1, <4>2 DEF CoversChange
      <3> QED
        BY <1>10, <3>1, <3>2
    <2>2. \A g \in Files \ Names(k) : Intact(g)'
      BY <1>10, <1>15, <1>17 DEF Covers
    <2> QED
      BY <1>1, <1>2, <1>10, <1>15, <2>1, <2>2 DEF Covers
  <1>19. Covers(onDisk)'
    <2>1. PICK d \in Journals : d = onDisk
      BY <1>14, NothingIsSettled DEF IInv, TypeInv
    <2>2. Covers(d)
      BY <1>15, <2>1
    <2>3. \A i \in 1 .. Len(d.changes) : CoversChange(d, i)'
      BY <1>1, <1>2, <1>11, <2>2 DEF Covers, CoversChange, Edited
    <2>4. \A g \in Files \ Names(d) : Intact(g)'
      BY <1>17, <2>2 DEF Covers
    <2>5. Covers(d)'
      BY <1>1, <1>2, <2>2, <2>3, <2>4 DEF Covers
    <2> QED
      BY <1>1, <2>1, <2>5
  <1>20. Settled(onDisk)' = Settled(onDisk) /\ ~Settled(journal)'
    <2>1. ~Settled(k)
      BY <1>10, <1>14, JournalOf
    <2>2. ~Settled(journal')
      BY <1>11, <2>1
    <2> QED
      BY <1>1, <2>2 DEF Settled
  <1>21. Ledger'
    <2>1. Covers(journal)'
      BY <1>11, <1>18
    <2> QED
      BY <1>2, <1>11, <1>14, <1>19, <1>20, <2>1 DEF IInv, Ledger
  <1>22. Working(program)' /\ Distinct(program)' /\ Aiming'
    BY <1>1, <1>2, <1>6, <1>13, AimingKept DEF IInv
  <1>23. /\ ~Next1("validate")' /\ ~Next1("begin")' /\ ~Next1("published")' /\ ~Next1("put")'
         /\ Next2("sync", "put")' /\ Same(program'[2], program[1])
         /\ ~Next1("enable")' /\ ~Next2("sync", "enable")'
    BY <1>1, <1>3, <1>6, <1>13, Window DEF IInv, Next1, Next2, Attempt
  <1>24. Begun'
    <2>1. Noted(program[2])'
      <3>1. /\ Len(j.changes) + 1 \in 1 .. Len(k.changes)
            /\ c.name = program'[2].name /\ c.candidate = program'[2].to
        BY <1>10, <1>11, <1>23 DEF Same
      <3> QED
        BY <1>10, <1>11, <3>1 DEF Noted
    <2> QED
      BY <1>8, <1>10, <1>11, <1>13, <1>14, <1>20, <1>23, <2>1 DEF Begun
  <1>25. Replaced'
    <2>1. Target' = Target
      BY <1>2 DEF Target
    <2>2. Names(memory)' = Names(k)
      BY <1>11
    <2>3. ASSUME NEW i \in 1 .. Len(program'), Is(program', i, "intent")
          PROVE  program'[i].name \notin Names(k)
      <3>1. i + 1 \in 1 .. Len(program) /\ program'[i] = program[i + 1] /\ Is(program, i + 1, "intent")
        BY <1>1, <1>3, <2>3, AdvanceOf DEF Is, IInv
      <3>2. program[i + 1].name \notin Names(j)
        BY <1>8, <1>13, <3>1 DEF Replaced
      <3>3. program[i + 1].name # program[1].name
        <4>1. 1 \in 1 .. Len(program) /\ i + 1 # 1
          BY <1>3
        <4> QED
          BY <1>3, <1>13, <3>1, <4>1 DEF Distinct, Next1
      <3> QED
        BY <1>10, <1>11, <3>1, <3>2, <3>3
    <2>4. \A g \in Files \ Names(k) : visible'[g] = before'.files[g]
      BY <1>1, <1>2, <1>8, <1>10, <1>13 DEF Replaced
    <2>5. ASSUME NEW i \in 1 .. Len(k.changes)
          PROVE  /\ k.changes[i].candidate = Target[k.changes[i].name]
                 /\ visible[k.changes[i].name] = k.changes[i].candidate \/ k.changes[i].name = c.name
      <3>1. CASE i \in 1 .. Len(j.changes)
        BY <1>6, <1>8, <1>10, <1>13, <3>1 DEF Replaced
      <3>2. CASE i = Len(j.changes) + 1
        BY <1>3, <1>10, <1>11, <1>13, <3>2 DEF WorkInv, Aiming, Next1, Is
      <3> QED
        BY <1>10, <3>1, <3>2
    <2>6. program'[2].name = c.name
      BY <1>11, <1>23 DEF Same
    <2> QED
      BY <1>1, <1>11, <1>23, <2>1, <2>2, <2>3, <2>4, <2>5, <2>6 DEF Replaced
  <1>26. WorkInv'
    BY <1>11, <1>22, <1>24, <1>25 DEF WorkInv
  <1> QED
    BY <1>1, <1>7, <1>12, <1>21, <1>26, StepOf DEF IInv

\* A replacement is one of the versions that the durable journal names.
LEMMA PutKeeps ==
  ASSUME IInv, Put
  PROVE  IInv'
  <1>1. /\ program # <<>> /\ Advance /\ HelperRest /\ Op.do = "put"
        /\ visible' = [visible EXCEPT ![Op.name] = Op.to]
        /\ UNCHANGED <<durable, journal, onDisk, stages, backups, enabled, running, edits, transactions,
                       memory>>
    BY DEF Put, At, unit, counters
  <1>2. UNCHANGED <<phase, failed, finishing, operation, exit, before>>
    BY <1>1 DEF HelperRest
  <1>3. /\ Next1("put") /\ Op = program[1] /\ program[1] \in Instructions
        /\ program \in Seq(Instructions) /\ Len(program) \in Nat \ {0}
    BY <1>1, HeadOf DEF IInv
  <1>4. PICK f \in Files, v \in Candidates : f = program[1].name /\ v = program[1].to
    BY <1>3, InstructionOf DEF Next1, Is
  <1>5. /\ visible' = [visible EXCEPT ![f] = v] /\ visible \in [Files -> Versions] /\ v \in Versions
        /\ visible'[f] = v /\ \A g \in Files : g # f => visible'[g] = visible[g]
    BY <1>1, <1>3, <1>4 DEF IInv, TypeInv, Candidates, Versions
  <1>6. /\ ~Next1("save") /\ ~Next1("sync") /\ ~Next1("clean") /\ ~Next1("intent")
        /\ ~Next1("syncFile") /\ ~Next1("enable") /\ ~Next1("begin") /\ ~Next1("validate")
        /\ ~Next1("published") /\ ~Next2("sync", "put")
    BY <1>3 DEF Next1, Next2, Is
  <1>7. phase = "work" /\ memory \in Journals /\ memory # NoJournal
    BY <1>1, <1>3, <1>6, PhaseOf, MemoryOf, NothingIsSettled DEF IInv
  <1>8. TypeInv'
    <2>1. program' \in Seq(Instructions) /\ visible' \in [Files -> Versions]
      BY <1>1, <1>5, AdvanceOf DEF IInv
    <2> QED
      BY <1>1, <1>2, <2>1 DEF IInv, TypeInv
  <1>9. WorkInv /\ Begun /\ Replaced /\ Working(program) /\ Aiming
    BY <1>7 DEF IInv, Control, WorkInv
  <1>10. Begun' /\ ~memory.complete /\ journal = memory /\ ~Settled(onDisk) /\ onDisk = journal
    BY <1>1, <1>3, <1>6, <1>9, BegunKept DEF IInv, Begun
  <1>11. PICK j \in Journals : j = memory
    BY <1>7
  <1>12. Covers(j) /\ ~Settled(j)
    BY <1>10, <1>11 DEF IInv, Ledger
  <1>13. /\ v = Target[f] /\ visible[f] = durable[f] /\ visible[f] \in {Target[f], before.files[f]}
    BY <1>3, <1>4, <1>6, <1>9 DEF Aiming, Next1, Is
  <1>14. PICK n \in 1 .. Len(j.changes) : j.changes[n].name = f /\ j.changes[n].candidate = v
    BY <1>3, <1>4, <1>9, <1>11 DEF Begun, Noted
  <1>15. f \in Names(j)
    BY <1>14 DEF Names
  <1>16. Covers(j)'
    <2>1. ASSUME NEW i \in 1 .. Len(j.changes) PROVE CoversChange(j, i)'
      <3>1. CoversChange(j, i) /\ CoversChange(j, n) /\ j.changes[i].name \in Files
        BY <1>12, JournalOf DEF Covers
      <3>2. CASE j.changes[i].name = f
        <4>1. i = n
          BY <1>14, <3>1, <3>2 DEF CoversChange
        <4>2. /\ j.changes[i].name = f /\ j.changes[i].candidate = v
              /\ j.changes[i].prior = before.files[f]
          BY <1>14, <3>1, <4>1 DEF CoversChange
        <4>3. {visible'[f], durable'[f]} \subseteq {j.changes[i].prior, j.changes[i].candidate}
          BY <1>1, <1>5, <1>13, <4>2
        <4> QED
          BY <1>1, <1>2, <3>1, <4>2, <4>3 DEF CoversChange
      <3>3. CASE j.changes[i].name # f
        BY <1>1, <1>2, <1>5, <3>1, <3>3 DEF CoversChange, Edited
      <3> QED
        BY <3>2, <3>3
    <2>2. \A g \in Files \ Names(j) : Intact(g)'
      BY <1>1, <1>2, <1>5, <1>12, <1>15 DEF Covers, Intact, Edited
    <2> QED
      BY <1>1, <1>2, <1>12, <2>1, <2>2 DEF Covers
  <1>17. Ledger'
    <2>1. Covers(journal)' /\ Covers(onDisk)'
      BY <1>1, <1>10, <1>11, <1>16
    <2>2. ~Settled(journal') /\ ~Settled(onDisk') /\ journal' # NoJournal
      BY <1>1, <1>7, <1>10
    <2> QED
      BY <1>2, <2>1, <2>2 DEF IInv, Ledger
  <1>18. /\ Working(program)' /\ Distinct(program)' /\ Target' = Target
    BY <1>1, <1>2, <1>6, <1>9, AimRest DEF IInv
  <1>19. Next1("syncFile")' /\ program'[1].name = f
    BY <1>1, <1>3, <1>4, <1>9, Window DEF IInv
  <1>20. Aiming'
    <2>1. \A g \in Files : visible'[g] # durable'[g] => g = f
      BY <1>1, <1>5, <1>6, <1>9 DEF Aiming
    <2>2. ASSUME NEW g \in Files PROVE visible'[g] = Target'[g] \/ Puts(program', g)
      <3>1. CASE g = f
        BY <1>5, <1>13, <1>18, <3>1
      <3>2. CASE g # f
        <4>1. Puts(program, g) => Puts(Tail(program), g)
          BY <1>1, <1>3, <1>4, <3>2, TailPuts
        <4> QED
          BY <1>1, <1>5, <1>9, <1>18, <3>2, <4>1 DEF Aiming, Advance
      <3> QED
        BY <3>1, <3>2
    <2>3. \A g \in Files : visible'[g] \in {Target'[g], before'.files[g]}
      BY <1>2, <1>5, <1>9, <1>13, <1>18 DEF Aiming
    <2> QED
      BY <1>1, <1>2, <1>6, <1>9, <1>19, <2>1, <2>2, <2>3, AimRest DEF IInv, Aiming
  <1>21. Replaced'
    <2>1. Names(memory)' = Names(j)
      BY <1>1, <1>11
    <2>2. ASSUME NEW i \in 1 .. Len(program'), Is(program', i, "intent")
          PROVE  program'[i].name \notin Names(j)
      <3>1. i + 1 \in 1 .. Len(program) /\ program'[i] = program[i + 1] /\ Is(program, i + 1, "intent")
        BY <1>1, <1>3, <2>2, AdvanceOf DEF Is, IInv
      <3> QED
        BY <1>9, <1>11, <3>1 DEF Replaced
    <2>3. \A g \in Files \ Names(j) : visible'[g] = before'.files[g]
      BY <1>2, <1>5, <1>9, <1>11, <1>15 DEF Replaced
    <2>4. ASSUME NEW i \in 1 .. Len(j.changes)
          PROVE  /\ j.changes[i].candidate = Target[j.changes[i].name]
                 /\ visible'[j.changes[i].name] = j.changes[i].candidate
      <3>1. j.changes[i].candidate = Target[j.changes[i].name] /\ j.changes[i].name \in Files
        BY <1>9, <1>11, JournalOf DEF Replaced
      <3>2. CASE j.changes[i].name = f
        BY <1>5, <1>13, <3>1, <3>2
      <3>3. CASE j.changes[i].name # f
        BY <1>4, <1>5, <1>6, <1>9, <1>11, <3>1, <3>3 DEF Replaced
      <3> QED
        BY <3>1, <3>2, <3>3
    <2> QED
      BY <1>1, <1>11, <1>18, <2>1, <2>2, <2>3, <2>4 DEF Replaced
  <1>22. WorkInv'
    BY <1>1, <1>7, <1>10, <1>18, <1>20, <1>21 DEF WorkInv
  <1> QED
    BY <1>1, <1>7, <1>8, <1>17, <1>22, StepOf DEF IInv

LEMMA CoversSynced ==
  ASSUME TypeInv, NEW f \in Files, durable' = [durable EXCEPT ![f] = visible[f]],
         UNCHANGED <<visible, stages, backups, enabled, edits, before>>, NEW j \in Journals, Covers(j)
  PROVE  Covers(j)'
  <1>1. /\ durable \in [Files -> Versions] /\ durable'[f] = visible[f]
        /\ \A g \in Files : g # f => durable'[g] = durable[g]
    BY DEF TypeInv
  <1>2. \A g \in Files : (Intact(g) => Intact(g)') /\ (Edited(g) => Edited(g)')
    BY <1>1 DEF Intact, Edited
  <1>3. ASSUME NEW i \in 1 .. Len(j.changes) PROVE CoversChange(j, i)'
    <2>1. CoversChange(j, i) /\ j.changes[i].name \in Files
      BY JournalOf DEF Covers
    <2> QED
      BY <1>1, <1>2, <2>1 DEF CoversChange
  <1>4. \A g \in Files \ Names(j) : Intact(g)'
    BY <1>2 DEF Covers
  <1> QED
    BY <1>3, <1>4 DEF Covers

\* A directory of the service files reaches the disk.
LEMMA SyncFileKeeps ==
  ASSUME IInv, SyncFile
  PROVE  IInv'
  <1>1. /\ program # <<>> /\ Advance /\ HelperRest /\ Op.do = "syncFile"
        /\ durable' = [durable EXCEPT ![Op.name] = visible[Op.name]]
        /\ UNCHANGED <<visible, journal, onDisk, stages, backups, enabled, running, edits, transactions,
                       memory>>
    BY DEF SyncFile, At, unit, counters
  <1>2. UNCHANGED <<phase, failed, finishing, operation, exit, before>>
    BY <1>1 DEF HelperRest
  <1>3. /\ Next1("syncFile") /\ Op = program[1] /\ program[1] \in Instructions
        /\ program \in Seq(Instructions) /\ Len(program) \in Nat \ {0}
    BY <1>1, HeadOf DEF IInv
  <1>4. PICK f \in Files : f = program[1].name
    BY <1>3, InstructionOf DEF Next1, Is
  <1>5. /\ durable' = [durable EXCEPT ![f] = visible[f]] /\ durable \in [Files -> Versions]
        /\ durable' \in [Files -> Versions]
        /\ durable'[f] = visible[f] /\ \A g \in Files : g # f => durable'[g] = durable[g]
    BY <1>1, <1>3, <1>4 DEF IInv, TypeInv
  <1>6. /\ ~Next1("save") /\ ~Next1("sync") /\ ~Next1("clean") /\ ~Next1("intent")
        /\ ~Next1("put") /\ ~Next1("enable") /\ ~Next1("begin") /\ ~Next1("validate")
        /\ ~Next1("published") /\ ~Next1("restore")
    BY <1>3 DEF Next1, Is
  <1>7. phase \in {"work", "restore"} /\ memory \in Journals /\ memory # NoJournal
    BY <1>1, <1>3, <1>6, PhaseOf, MemoryOf, NothingIsSettled DEF IInv
  <1>8. TypeInv'
    <2>1. program' \in Seq(Instructions)
      BY <1>1, AdvanceOf DEF IInv
    <2> QED
      BY <1>1, <1>2, <1>5, <2>1 DEF IInv, TypeInv
  <1>9. ~memory.complete /\ journal = memory
    <2>1. CASE phase = "work"
      <3>1. Begun /\ Working(program)
        BY <1>7, <2>1 DEF IInv, Control, WorkInv
      <3> QED
        BY <1>1, <1>6, <3>1, BegunKept DEF IInv
    <2>2. CASE phase = "restore"
      BY <2>2 DEF IInv, Control, RestoreInv
    <2> QED
      BY <1>7, <2>1, <2>2
  <1>10. Ledger'
    <2>1. PICK j \in Journals : j = journal
      BY <1>7, <1>9
    <2>2. ~Settled(j) /\ Covers(j) /\ j # NoJournal
      BY <1>9, <2>1, JournalOf DEF IInv, Ledger
    <2>3. Covers(journal)'
      BY <1>1, <1>2, <1>5, <2>1, <2>2, CoversSynced DEF IInv
    <2>4. ~Settled(onDisk) => Covers(onDisk)'
      <3>1. SUFFICES ASSUME ~Settled(onDisk) PROVE Covers(onDisk)'
        OBVIOUS
      <3>2. PICK d \in Journals : d = onDisk
        BY <3>1, NothingIsSettled DEF IInv, TypeInv
      <3>3. Covers(d)
        BY <3>1, <3>2 DEF IInv, Ledger
      <3> QED
        BY <1>1, <1>2, <1>5, <3>2, <3>3, CoversSynced DEF IInv
    <2>5. ~Settled(journal') /\ Settled(onDisk)' = Settled(onDisk)
      BY <1>1, <2>1, <2>2 DEF Settled
    <2> QED
      BY <1>1, <1>2, <2>1, <2>2, <2>3, <2>4, <2>5 DEF IInv, Ledger
  <1>11. CASE phase = "work"
    <2>1. WorkInv /\ Begun /\ Replaced /\ Working(program) /\ Aiming
      BY <1>7, <1>11 DEF IInv, Control, WorkInv
    <2>2. Begun'
      BY <1>1, <1>6, <2>1, BegunKept DEF IInv
    <2>3. Replaced'
      BY <1>1, <1>2, <1>6, <2>1, ReplacedKept DEF IInv
    <2>4. Aiming'
      <3>1. \A g \in Files : visible'[g] = durable'[g]
        BY <1>1, <1>4, <1>5, <2>1 DEF Aiming
      <3>2. \A g : Puts(program, g) => Puts(program', g)
        BY <1>1, <1>3, <1>6, TailPuts DEF Next1, Advance
      <3>3. Target' = Target
        BY <1>2 DEF Target
      <3>4. \A g \in Files : visible'[g] = Target'[g] \/ Puts(program', g)
        BY <1>1, <2>1, <3>2, <3>3 DEF Aiming
      <3>5. \A g \in Files : visible'[g] \in {Target'[g], before'.files[g]}
        BY <1>1, <1>2, <2>1, <3>3 DEF Aiming
      <3> QED
        BY <1>1, <1>2, <1>6, <2>1, <3>1, <3>4, <3>5, AimRest DEF IInv, Aiming
    <2>5. WorkInv'
      BY <1>1, <1>2, <1>6, <1>7, <2>1, <2>2, <2>3, <2>4, AimRest DEF IInv, WorkInv
    <2> QED
      BY <1>1, <1>8, <1>10, <1>11, <2>5, StepOf DEF IInv
  <1>12. CASE phase = "restore"
    <2>1. RestoreInv
      BY <1>12 DEF IInv, Control
    <2>2. RestoreInv'
      <3>1. program' = Tail(program)
        BY <1>1 DEF Advance
      <3>2. Restoring(program', memory)
        BY <1>1, <1>3, <2>1, <3>1, RestoringTail DEF RestoreInv
      <3>3. Has(program', "enable") <=> Has(program, "enable")
        BY <1>1, <1>3, <1>6, <3>1, TailHas DEF Next1
      <3>4. \A k : Restores(program, k) => Restores(program', k)
        BY <1>1, <1>3, <1>6, <3>1, TailRestores DEF Next1
      <3>5. ASSUME ~failed, NEW k \in 1 .. Len(memory.changes)
            PROVE  \/ Restores(program', k)
                   \/ /\ visible[memory.changes[k].name] = memory.changes[k].prior
                      /\ durable'[memory.changes[k].name] = memory.changes[k].prior
        <4>1. memory.changes[k].name \in Files
          BY <1>7, JournalOf
        <4> QED
          BY <1>4, <1>5, <2>1, <3>4, <3>5, <4>1 DEF RestoreInv
      <3> QED
        BY <1>1, <1>2, <2>1, <3>2, <3>3, <3>5 DEF RestoreInv
    <2> QED
      BY <1>1, <1>7, <1>8, <1>10, <1>12, <2>2, StepOf DEF IInv
  <1> QED
    BY <1>7, <1>11, <1>12

LEMMA CoversRestored ==
  ASSUME TypeInv, NEW f \in Files, visible' = [visible EXCEPT ![f] = before.files[f]],
         visible' = visible \/ ~Edited(f),
         UNCHANGED <<durable, stages, backups, enabled, edits, before>>, NEW j \in Journals, Covers(j)
  PROVE  Covers(j)'
  <1>1. /\ visible \in [Files -> Versions] /\ visible'[f] = before.files[f]
        /\ \A g \in Files : g # f => visible'[g] = visible[g]
    BY DEF TypeInv
  <1>2. \A g \in Files : (Intact(g) => Intact(g)')
    BY <1>1 DEF Intact, Edited
  <1>3. ASSUME NEW i \in 1 .. Len(j.changes) PROVE CoversChange(j, i)'
    <2>1. CoversChange(j, i) /\ j.changes[i].name \in Files
      BY JournalOf DEF Covers
    <2> QED
      BY <1>1, <2>1 DEF CoversChange, Edited
  <1>4. \A g \in Files \ Names(j) : Intact(g)'
    BY <1>2 DEF Covers
  <1> QED
    BY <1>3, <1>4 DEF Covers

\* A change is taken back, unless its bytes are not those of the transaction.
LEMMA RestoreKeeps ==
  ASSUME IInv, Restore
  PROVE  IInv'
  <1>1. /\ program # <<>> /\ Advance /\ HelperRest /\ Op.do = "restore" /\ ~Impossible(Op)
        /\ visible' = [visible EXCEPT ![memory.changes[Op.index].name] = memory.changes[Op.index].prior]
        /\ UNCHANGED <<durable, journal, onDisk, stages, backups, enabled, running, edits, transactions,
                       memory>>
    BY DEF Restore, At, unit, counters
  <1>2. UNCHANGED <<phase, failed, finishing, operation, exit, before>>
    BY <1>1 DEF HelperRest
  <1>3. /\ Next1("restore") /\ Op = program[1] /\ program \in Seq(Instructions)
        /\ Len(program) \in Nat \ {0}
    BY <1>1, HeadOf DEF IInv
  <1>4. /\ ~Next1("begin") /\ ~Next1("validate") /\ ~Next1("syncFile") /\ ~Next1("enable")
    BY <1>3 DEF Next1, Is
  <1>5. phase = "restore" /\ memory \in Journals /\ memory # NoJournal
    BY <1>1, <1>3, <1>4, PhaseOf, MemoryOf, NothingIsSettled DEF IInv
  <1>6. RestoreInv /\ memory = journal /\ ~memory.complete
    BY <1>5 DEF IInv, Control, RestoreInv
  <1>7. /\ program[1].index \in 1 .. Len(memory.changes)
        /\ Is(program, 2, "syncFile") /\ program[2].name = memory.changes[program[1].index].name
    <2>1. RestoringAt(program, 1, memory)
      BY <1>3, <1>6 DEF RestoreInv, Restoring
    <2> QED
      BY <1>3, <2>1 DEF RestoringAt, Next1
  <1>8. PICK j \in Journals : j = memory
    BY <1>5
  <1>9. PICK n \in 1 .. Len(j.changes) : n = program[1].index
    BY <1>7, <1>8
  <1>10. Covers(j) /\ ~Settled(j) /\ ~Settled(journal)
    BY <1>6, <1>8, JournalOf DEF IInv, Ledger
  <1>11. PICK f \in Files : f = j.changes[n].name
    BY JournalOf
  <1>12. /\ j.changes[n].prior = before.files[f] /\ j.changes[n].candidate \in Candidates
         /\ \A k \in 1 .. Len(j.changes) : j.changes[k].name = f => k = n
    BY <1>10, <1>11, JournalOf DEF Covers, CoversChange
  <1>13. /\ visible' = [visible EXCEPT ![f] = before.files[f]] /\ visible \in [Files -> Versions]
         /\ before.files[f] \in Versions /\ visible' \in [Files -> Versions]
         /\ visible'[f] = before.files[f] /\ \A g \in Files : g # f => visible'[g] = visible[g]
    BY <1>1, <1>3, <1>8, <1>9, <1>11, <1>12 DEF IInv, TypeInv
  <1>14. visible' = visible \/ ~Edited(f)
    <2>1. visible[f] # j.changes[n].prior => visible[f] \in {j.changes[n].prior, j.changes[n].candidate}
      BY <1>1, <1>3, <1>8, <1>9, <1>11 DEF Impossible, Unknown
    <2>2. CASE visible[f] = before.files[f]
      BY <1>13, <2>2
    <2>3. CASE visible[f] # before.files[f]
      BY <1>12, <2>1, <2>3 DEF Edited, Candidates
    <2> QED
      BY <2>2, <2>3
  <1>15. TypeInv'
    <2>1. program' \in Seq(Instructions)
      BY <1>1, AdvanceOf DEF IInv
    <2> QED
      BY <1>1, <1>2, <1>13, <2>1 DEF IInv, TypeInv
  <1>16. Ledger'
    <2>1. Covers(journal)'
      BY <1>1, <1>2, <1>6, <1>8, <1>10, <1>13, <1>14, CoversRestored DEF IInv
    <2>2. ~Settled(onDisk) => Covers(onDisk)'
      <3>1. SUFFICES ASSUME ~Settled(onDisk) PROVE Covers(onDisk)'
        OBVIOUS
      <3>2. PICK d \in Journals : d = onDisk
        BY <3>1, NothingIsSettled DEF IInv, TypeInv
      <3>3. Covers(d)
        BY <3>1, <3>2 DEF IInv, Ledger
      <3> QED
        BY <1>1, <1>2, <1>13, <1>14, <3>2, <3>3, CoversRestored DEF IInv
    <2>3. ~Settled(journal') /\ Settled(onDisk)' = Settled(onDisk)
      BY <1>1, <1>10 DEF Settled
    <2> QED
      BY <1>1, <1>2, <1>5, <1>6, <1>10, <2>1, <2>2, <2>3 DEF IInv, Ledger
  <1>17. RestoreInv'
    <2>1. program' = Tail(program)
      BY <1>1 DEF Advance
    <2>2. Restoring(program', memory)
      BY <1>1, <1>3, <1>6, <2>1, RestoringTail DEF RestoreInv
    <2>3. Has(program', "enable") <=> Has(program, "enable")
      BY <1>1, <1>3, <1>4, <2>1, TailHas DEF Next1
    <2>4. Next1("syncFile")' /\ program'[1].name = f
      <3>1. Next1("syncFile")' /\ Len(program') = Len(program) - 1
            /\ \A i \in 1 .. Len(program') : program'[i] = program[i + 1]
        BY <1>1, <1>7, AdvanceOf DEF IInv
      <3>2. program'[1] = program[2]
        BY <3>1 DEF Next1, Is
      <3> QED
        BY <1>7, <1>8, <1>9, <1>11, <3>1, <3>2
    <2>5. ASSUME ~failed, NEW k \in 1 .. Len(j.changes)
          PROVE  \/ Restores(program', k)
                 \/ /\ visible'[j.changes[k].name] = j.changes[k].prior
                    /\ durable'[j.changes[k].name] = j.changes[k].prior \/ j.changes[k].name = f
      <3>1. CASE k = n
        BY <1>11, <1>12, <1>13, <3>1
      <3>2. CASE k # n
        <4>1. Restores(program, k) => Restores(program', k)
          BY <1>1, <1>3, <1>9, <2>1, <3>2, TailRestores
        <4>2. j.changes[k].name # f /\ j.changes[k].name \in Files
          BY <1>12, <3>2, JournalOf
        <4> QED
          BY <1>1, <1>4, <1>6, <1>8, <1>13, <2>5, <4>1, <4>2 DEF RestoreInv
      <3> QED
        BY <3>1, <3>2
    <2> QED
      BY <1>1, <1>2, <1>6, <1>8, <2>2, <2>3, <2>4, <2>5 DEF RestoreInv
  <1> QED
    BY <1>1, <1>5, <1>15, <1>16, <1>17, StepOf DEF IInv

\* The journal of a decided transaction goes.
LEMMA CleanKeeps ==
  ASSUME IInv, Clean
  PROVE  IInv'
  <1>1. /\ program # <<>> /\ Advance /\ HelperRest /\ Op.do = "clean"
        /\ journal' \in {journal, NoJournal} /\ onDisk' \in {onDisk, NoJournal}
        /\ UNCHANGED <<visible, durable, enabled, running, edits, transactions, memory>>
    BY DEF Clean, At, unit
  <1>2. UNCHANGED <<phase, failed, finishing, operation, exit, before>>
    BY <1>1 DEF HelperRest
  <1>3. /\ Next1("clean") /\ program \in Seq(Instructions) /\ Len(program) \in Nat \ {0}
    BY <1>1, HeadOf DEF IInv
  <1>4. /\ ~Next1("begin") /\ ~Next1("validate") /\ ~Next1("syncFile") /\ ~Next1("enable")
        /\ ~Next1("put") /\ ~Next1("intent")
    BY <1>3 DEF Next1, Is
  <1>5. phase \in {"work", "seal", "settle"} /\ memory \in Journals /\ memory # NoJournal
    BY <1>1, <1>3, <1>4, PhaseOf, MemoryOf, NothingIsSettled DEF IInv
  <1>6. Deciding /\ Closing(program)
    BY <1>5 DEF IInv, Control, WorkInv, SealInv, SettleInv, Begun, Working, Sealing
  <1>7. memory.complete /\ journal = memory /\ onDisk = memory
    BY <1>1, <1>3, <1>6 DEF Deciding
  <1>8. program' = <<>>
    BY <1>1, <1>3, <1>6, ClosingWindow DEF IInv
  <1>9. TypeInv'
    <2>1. program' \in Seq(Instructions)
      BY <1>1, AdvanceOf DEF IInv
    <2> QED
      BY <1>1, <1>2, <2>1 DEF IInv, TypeInv
  <1>10. Settled(journal') /\ Settled(onDisk')
    BY <1>1, <1>5, <1>7, JournalOf, NothingIsSettled
  <1>11. Ledger'
    <2>1. Settled(journal)
      BY <1>5, <1>7, JournalOf
    <2> QED
      BY <1>1, <1>2, <1>10, <2>1 DEF IInv, Ledger
  <1>12. \A k : ~Next1(k)'
    BY <1>8 DEF Next1, Is
  <1>13. \A k, l : ~Next2(k, l)'
    BY <1>8 DEF Next2, Is
  <1>14. Deciding'
    BY <1>1, <1>7, <1>8, <1>10, <1>12 DEF Deciding
  <1>15. CASE phase = "work"
    <2>1. WorkInv /\ Begun /\ Replaced /\ Working(program)
      BY <1>5, <1>15 DEF IInv, Control, WorkInv
    <2>2. Working(program)' /\ Distinct(program)' /\ Aiming'
      BY <1>1, <1>2, <1>4, <2>1, AimingKept DEF IInv
    <2>3. Replaced'
      BY <1>1, <1>2, <1>4, <2>1, ReplacedKept DEF IInv
    <2>4. Begun'
      BY <1>1, <1>7, <1>12, <1>13, <1>14, <2>1 DEF Begun
    <2>5. WorkInv'
      BY <1>1, <1>5, <2>2, <2>3, <2>4 DEF WorkInv
    <2> QED
      BY <1>1, <1>9, <1>11, <1>15, <2>5, StepOf DEF IInv
  <1>16. CASE phase \in {"seal", "settle"}
    <2>1. Sealing(program)
      BY <1>16 DEF IInv, Control, SealInv, SettleInv
    <2>2. Sealing(program')
      BY <1>1, <1>3, <2>1, SealingTail DEF Advance
    <2>3. ASSUME phase = "seal" PROVE SealInv'
      <3>1. SealInv
        BY <2>3 DEF IInv, Control
      <3>2. \A f \in Files : Intact(f)'
        BY <1>1, <1>2, <3>1 DEF SealInv, Intact, Edited
      <3> QED
        BY <1>1, <1>2, <1>14, <2>2, <3>1, <3>2 DEF SealInv
    <2>4. ASSUME phase = "settle" PROVE SettleInv'
      <3>1. SettleInv
        BY <2>4 DEF IInv, Control
      <3>2. Target' = Target
        BY <1>2 DEF Target
      <3> QED
        BY <1>1, <1>2, <1>14, <2>2, <3>1, <3>2 DEF SettleInv
    <2> QED
      BY <1>1, <1>5, <1>9, <1>11, <1>16, <2>3, <2>4, StepOf DEF IInv
  <1> QED
    BY <1>5, <1>15, <1>16

\* A failure of the restoration is remembered.
LEMMA RestoreFails ==
  ASSUME IInv, program # <<>>, phase = "restore", failed' = TRUE,
         program' = (IF Op.do = "restore" THEN Tail(Tail(program)) ELSE Tail(program)),
         UNCHANGED <<phase, memory, finishing, operation, exit, before>>,
         UNCHANGED <<files, unit, transactions, edits>>
  PROVE  IInv'
  <1>1. /\ UNCHANGED <<visible, durable, journal, onDisk, stages, backups, enabled, running>>
        /\ UNCHANGED ledgerVars
    BY DEF files, unit, ledgerVars
  <1>2. program \in Seq(Instructions) /\ Len(program) \in Nat \ {0} /\ (Op.do = "restore" <=> Next1("restore"))
    BY HeadOf DEF IInv
  <1>3. RestoreInv /\ memory # NoJournal
    BY DEF IInv, Control
  <1>4. PICK t \in Seq(Instructions) :
          /\ t = Tail(program) /\ Restoring(t, memory) /\ (Has(t, "enable") => Has(program, "enable"))
          /\ (Next1("restore") => t # <<>>)
    <2>1. Tail(program) \in Seq(Instructions) /\ Len(Tail(program)) = Len(program) - 1
      BY <1>2, TailOf
    <2>2. Restoring(Tail(program), memory)
      BY <1>2, <1>3, RestoringTail DEF RestoreInv
    <2>3. Has(Tail(program), "enable") => Has(program, "enable")
      BY <1>2, TailHas
    <2>4. Next1("restore") => Is(program, 2, "syncFile")
      BY <1>2, <1>3 DEF RestoreInv, Restoring, RestoringAt, Next1
    <2>5. PICK t \in Seq(Instructions) : t = Tail(program)
      BY <2>1
    <2>6. Len(t) = Len(program) - 1
      BY <2>1, <2>5
    <2>7. Next1("restore") => t # <<>>
      <3>1. Next1("restore") => Len(program) >= 2
        BY <1>2, <2>4 DEF Is
      <3>2. t = <<>> => Len(t) = 0
        OBVIOUS
      <3> HIDE DEF Op
      <3> QED
        BY <1>2, <2>6, <3>1, <3>2
    <2> QED
      BY <2>2, <2>3, <2>5, <2>7
  <1>5. /\ program' \in Seq(Instructions) /\ Restoring(program', memory)
        /\ Has(program', "enable") => Has(program, "enable")
    <2>1. CASE Op.do = "restore"
      <3>1. t # <<>> /\ program' = Tail(t)
        BY <1>2, <1>4, <2>1
      <3>2. Tail(t) \in Seq(Instructions)
        BY <3>1, TailOf
      <3>3. Restoring(Tail(t), memory)
        BY <1>4, <3>1, RestoringTail
      <3>4. Has(Tail(t), "enable") => Has(t, "enable")
        BY <3>1, TailHas
      <3> QED
        BY <1>4, <3>1, <3>2, <3>3, <3>4
    <2>2. CASE Op.do # "restore"
      BY <1>4, <2>2
    <2> QED
      BY <2>1, <2>2
  <1>6. TypeInv'
    BY <1>1, <1>5 DEF IInv, TypeInv
  <1>7. Ledger'
    BY <1>1, LedgerKept DEF IInv
  <1>8. RestoreInv'
    BY <1>1, <1>3, <1>5 DEF RestoreInv
  <1>9. Control'
    BY <1>3, <1>8 DEF Control
  <1>10. Reported'
    BY Quietly DEF IInv
  <1> QED
    BY <1>6, <1>7, <1>9, <1>10 DEF IInv

\* Before its closure an operation has changed nothing.
LEMMA PrepareFails ==
  ASSUME IInv, program # <<>>, phase = "work", Op.do \in Preparing,
         StoppedWith(IF Op.do = "begin" /\ journal # NoJournal THEN "uncertain" ELSE "failed"),
         UNCHANGED <<files, unit, transactions, edits>>
  PROVE  IInv'
  <1>1. /\ UNCHANGED <<visible, durable, journal, onDisk, stages, backups, enabled, running>>
        /\ before' = before /\ UNCHANGED ledgerVars
    BY DEF files, unit, ledgerVars, StoppedWith
  <1>2. Next1("validate") \/ Next1("begin") \/ Next1("published")
    BY HeadOf DEF IInv, Preparing
  <1>3. WorkInv
    BY DEF IInv, Control
  <1>4. exit' \in {"uncertain", "failed"}
    BY DEF StoppedWith
  <1>5. ~Next1("syncFile")
    BY <1>2 DEF Next1, Is
  <1>6. /\ visible \in [Files -> Versions] /\ durable \in [Files -> Versions]
        /\ before.files \in [Files -> Versions]
    BY DEF IInv, TypeInv
  <1>7. visible = durable
    <2>1. \A f \in Files : visible[f] = durable[f]
      BY <1>3, <1>5 DEF WorkInv, Aiming
    <2> QED
      BY <1>6, <2>1
  <1>8. Settled(journal)' = Settled(journal) /\ Settled(onDisk)' = Settled(onDisk)
    BY <1>1 DEF Settled
  <1>9. CASE memory = NoJournal
    <2>1. /\ Settled(journal) /\ Settled(onDisk) /\ visible = before.files
          /\ enabled <=> before.enabled
      BY <1>3, <1>9 DEF WorkInv, Unbegun
    <2>2. enabled = before.enabled
      BY <2>1 DEF IInv, TypeInv
    <2>3. ReportIsDurable'
      BY <1>1, <1>4, <1>7, <1>8, <2>1, <2>2 DEF ReportIsDurable
    <2> QED
      BY <1>1, <2>3, StoppedReporting
  <1>10. CASE memory # NoJournal
    <2>1. Begun /\ Replaced /\ Next1("published") /\ memory \in Journals
      BY <1>2, <1>3, <1>10 DEF WorkInv, Begun, IInv, TypeInv
    <2>2. /\ memory.changes = <<>> /\ ~memory.enablement_attempted /\ Settled(onDisk) /\ journal = memory
          /\ ~memory.complete
      <3>1. ~Next1("clean") /\ ~Next2("sync", "clean")
        BY <2>1 DEF Next1, Next2, Is
      <3> QED
        BY <2>1, <3>1 DEF Begun, Deciding
    <2>3. Names(memory) = {}
      BY <2>2 DEF Names
    <2>4. visible = before.files
      <3>1. \A f \in Files : visible[f] = before.files[f]
        BY <2>1, <2>3 DEF Replaced
      <3> QED
        BY <1>6, <3>1
    <2>5. enabled = before.enabled
      <3>1. Covers(memory)
        BY <2>1, <2>2, JournalOf DEF IInv, Ledger
      <3> QED
        BY <2>2, <3>1 DEF Covers, IInv, TypeInv
    <2>6. ReportIsDurable'
      BY <1>1, <1>4, <1>7, <1>8, <2>2, <2>4, <2>5 DEF ReportIsDurable
    <2> QED
      BY <1>1, <2>6, StoppedReporting
  <1> QED
    BY <1>9, <1>10

\* Inside its closure a failed operation is recovered.
LEMMA WorkFails ==
  ASSUME IInv, program # <<>>, phase = "work", Op.do # "clean",
         phase' = "recover", program' = <<>>, memory' = NoJournal, finishing' = TRUE,
         Op.do \notin Preparing, UNCHANGED <<failed, operation, exit, before>>,
         UNCHANGED <<files, unit, transactions, edits>>
  PROVE  IInv'
  <1>1. /\ UNCHANGED <<visible, durable, journal, onDisk, stages, backups, enabled, running>>
        /\ UNCHANGED ledgerVars
    BY DEF files, unit, ledgerVars
  <1>2. TypeInv'
    <2>1. <<>> \in Seq(Instructions)
      OBVIOUS
    <2> QED
      BY <1>1, <2>1 DEF IInv, TypeInv
  <1>3. Ledger'
    BY <1>1, LedgerKept DEF IInv
  <1>4. Reported'
    BY Quietly DEF IInv
  <1>5. ASSUME journal # NoJournal, journal.complete PROVE ~journal.rolled_back /\ visible = Target
    <2>1. ~Next1("validate") /\ ~Next1("begin") /\ ~Next1("clean")
      BY HeadOf DEF IInv, Preparing
    <2>2. WorkInv /\ Begun /\ journal = memory
      BY <2>1 DEF IInv, Control, WorkInv, Unbegun, Begun, Deciding
    <2>3. Next2("sync", "clean")
      BY <1>5, <2>1, <2>2 DEF Begun, Deciding
    <2>4. ~Next1("syncFile")
      BY <2>3 DEF Next1, Next2, Is
    <2>5. \A i \in 1 .. Len(program) : program[i].do \in {"sync", "clean"}
      <3>1. program \in Seq(Instructions) /\ Len(program) \in Nat \ {0}
        BY HeadOf DEF IInv
      <3>2. Closing(program)
        BY <2>2 DEF WorkInv, Working
      <3>3. Len(program) = 2
        BY <2>3, <3>1, <3>2 DEF Closing, ClosingAt, Next2, Is
      <3> QED
        BY <2>3, <3>3 DEF Next2, Is
    <2>6. (\A f : ~Puts(program, f)) /\ ~Has(program, "enable")
      BY <2>5 DEF Puts, Has
    <2> QED
      BY <2>2, <2>4, <2>6, AtTarget DEF Begun, IInv
  <1>6. Target' = Target
    BY DEF Target
  <1>7. Control'
    BY <1>1, <1>5, <1>6 DEF Control
  <1> QED
    BY <1>2, <1>3, <1>4, <1>7 DEF IInv

LEMMA FailKeeps ==
  ASSUME IInv, Fail
  PROVE  IInv'
  <1>1. /\ program # <<>> /\ Op.do # "clean" /\ UNCHANGED <<files, unit, transactions, edits>>
    BY DEF Fail
  <1>2. CASE /\ phase = "restore" /\ failed' = TRUE
             /\ program' = IF Op.do = "restore" THEN Tail(Tail(program)) ELSE Tail(program)
             /\ UNCHANGED <<phase, memory, finishing, operation, exit, before>>
    BY <1>1, <1>2, RestoreFails
  <1>3. CASE /\ phase = "work" /\ Op.do \in Preparing
             /\ StoppedWith(IF Op.do = "begin" /\ journal # NoJournal THEN "uncertain" ELSE "failed")
    BY <1>1, <1>3, PrepareFails
  <1>4. CASE /\ phase = "work" /\ Op.do \notin Preparing
             /\ phase' = "recover" /\ program' = <<>> /\ memory' = NoJournal
             /\ finishing' = TRUE /\ UNCHANGED <<failed, operation, exit, before>>
    BY <1>1, <1>4, WorkFails
  <1>5. CASE phase \in {"undo", "seal", "settle"} /\ StoppedWith("uncertain")
    <2>1. UNCHANGED ledgerVars /\ UNCHANGED <<running, transactions>>
      BY <1>1, <1>5 DEF files, unit, ledgerVars, StoppedWith
    <2> QED
      BY <1>5, <2>1, Stopped
  <1> QED
    BY <1>2, <1>3, <1>4, <1>5 DEF Fail

-----------------------------------------------------------------------------
LEMMA HelperKeeps ==
  ASSUME IInv, HelperStep
  PROVE  IInv'
  BY LoadKeeps, OpenKeeps, SaveRenameKeeps, SyncBaseKeeps, IntentKeeps, PutKeeps, SyncFileKeeps,
     RestoreKeeps, CommandKeeps, CleanKeeps, EndedKeeps, FailKeeps DEF HelperStep

\* The updater and the service manager leave the transaction alone.
LEMMA UpdaterKeeps ==
  ASSUME IInv, Link \/ UpdaterStep \/ KillUpdater \/ ComeUp \/ UNCHANGED allVars
  PROVE  IInv'
  <1>1. CASE \E op \in {"install"} : Start(op)
    BY <1>1, StartKeeps
  <1>2. CASE UNCHANGED <<files, unit, helper, edits, transactions>>
    <2>1. UNCHANGED ledgerVars /\ UNCHANGED <<phase, program, memory, failed, finishing, operation, exit,
                                              transactions, running>>
      BY <1>2 DEF files, unit, helper, ledgerVars
    <2>2. running' \in BOOLEAN
      BY <2>1 DEF IInv, TypeInv
    <2> QED
      BY <2>1, <2>2, IdleKeeps
  <1>3. CASE ComeUp
    <2>1. UNCHANGED ledgerVars /\ UNCHANGED <<phase, program, memory, failed, finishing, operation, exit,
                                              transactions>> /\ running' = TRUE
      BY <1>3 DEF ComeUp, files, helper, counters, ledgerVars
    <2> QED
      BY <2>1, IdleKeeps
  <1> QED
    BY <1>1, <1>2, <1>3 DEF Link, UpdaterStep, Rename, SyncReplacement, Spawn, Wait, RestoreGui,
      SyncRestored, KillUpdater, allVars, vars, counters

LEMMA NextKeeps == IInv /\ [NextUpdate]_allVars => IInv'
  <1> SUFFICES ASSUME IInv, [NextUpdate]_allVars PROVE IInv'
    OBVIOUS
  <1>1. CASE \E op \in Operations : Start(op)
    BY <1>1, UpdateAssumption, StartKeeps
  <1> QED
    BY <1>1, HelperKeeps, KillKeeps, EditKeeps, PowerLossKeeps, UpdaterKeeps DEF NextUpdate

(***************************************************************************)
(* Results.                                                                 *)
(***************************************************************************)
\* Whatever order faults, kills, power losses, edits and recoveries come in, the
\* journal accounts for the files and the helper's remaining instructions fit
\* what it has done (Transaction and recover in linux/transaction.rs).
THEOREM UpdateInvariant == SpecUpdate => []IInv
  BY InitHolds, NextKeeps, PTL DEF SpecUpdate

\* What a helper reports holds on the disk: after "ok" the candidates and a
\* decided journal, after "failed" the files and the enablement of before
\* (exit_code and finish_operation in usque-update/src/linux.rs), for any
\* number of faults, kills, power losses, transactions and updates.
THEOREM ReportHolds == SpecUpdate => []ReportIsDurable
  <1>1. IInv => ReportIsDurable
    BY DEF IInv, Reported
  <1> QED
    BY <1>1, UpdateInvariant, PTL

\* Every undecided journal, visible or on the disk, names both versions of each
\* file it may find, keeps their backups, and leaves the other files as they
\* were (Transaction::intent, Store::save).
THEOREM IntentHolds == SpecUpdate => []IntentCoversFiles
  <1>1. IInv => IntentCoversFiles
    <2> SUFFICES ASSUME IInv, NEW j \in {journal, onDisk}, ~Settled(j), edits = 0
        PROVE  /\ j.stage \in stages
               /\ \A i \in DOMAIN j.changes :
                    LET c == j.changes[i]
                    IN /\ {visible[c.name], durable[c.name]} \subseteq {c.prior, c.candidate}
                       /\ c.prior # "none" => <<j.stage, i>> \in backups
               /\ \A f \in Files \ {c.name : c \in Range(j.changes)} :
                    {visible[f], durable[f]} = {before.files[f]}
      BY DEF IntentCoversFiles
    <2>1. Covers(j) /\ j \in Journals
      BY NothingIsSettled DEF IInv, Ledger, TypeInv
    <2>2. DOMAIN j.changes = 1 .. Len(j.changes)
      BY <2>1, JournalOf
    <2>3. {c.name : c \in Range(j.changes)} = Names(j)
      BY <2>2 DEF Names, Range
    <2>4. \A f : ~Edited(f)
      BY DEF Edited
    <2>5. ASSUME NEW i \in 1 .. Len(j.changes)
          PROVE  /\ {visible[j.changes[i].name], durable[j.changes[i].name]}
                       \subseteq {j.changes[i].prior, j.changes[i].candidate}
                 /\ j.changes[i].prior # "none" => <<j.stage, i>> \in backups
      BY <2>1, <2>4 DEF Covers, CoversChange
    <2>6. \A f \in Files \ Names(j) : {visible[f], durable[f]} = {before.files[f]}
      BY <2>1, <2>4 DEF Covers, Intact
    <2>7. j.stage \in stages
      BY <2>1 DEF Covers
    <2> QED
      BY <2>2, <2>3, <2>5, <2>6, <2>7
  <1> QED
    BY <1>1, UpdateInvariant, PTL

\* A power loss is told from the other steps by its count.
Counted == losses \in Nat

LEMMA LossesCounted == SpecUpdate => []Counted
  <1>1. InitUpdate => Counted
    BY DEF InitUpdate, Init, Counted
  <1>2. Counted /\ [NextUpdate]_allVars => Counted'
    <2> SUFFICES ASSUME losses \in Nat, [NextUpdate]_allVars PROVE losses' \in Nat
      BY DEF Counted
    <2>1. HelperStep \/ Kill \/ ComeUp \/ Edit => losses' = losses
      BY DEF HelperStep, Load, Open, SaveRename, SyncBase, Intent, Put, SyncFile, Restore, Command,
         Clean, Ended, Fail, Kill, ComeUp, Edit, counters
    <2>2. (\E op \in Operations : Start(op)) \/ Link \/ UpdaterStep \/ KillUpdater => losses' = losses
      BY DEF Start, Link, UpdaterStep, Rename, SyncReplacement, Spawn, Wait, RestoreGui, SyncRestored,
         KillUpdater, counters, vars
    <2>3. PowerLoss => losses' = losses + 1
      BY DEF PowerLoss
    <2>4. UNCHANGED allVars => losses' = losses
      BY DEF allVars, vars, counters
    <2> QED
      BY <2>1, <2>2, <2>3, <2>4 DEF NextUpdate
  <1> QED
    BY <1>1, <1>2, PTL DEF SpecUpdate

\* The service is started where all the changes are made, or all taken back.
LEMMA StartsKnown ==
  ASSUME IInv, At("start")
  PROVE  \/ \A c \in Changes : visible[c.name] = c.candidate
         \/ \A c \in Changes : visible[c.name] = c.prior
  <1>1. program # <<>> /\ Op.do = "start"
    BY DEF At
  <1>2. /\ Next1("start") /\ phase \in {"work", "undo", "restore", "seal", "settle"}
        /\ program \in Seq(Instructions) /\ 1 \in 1 .. Len(program) /\ program[1].do = "start"
    BY <1>1, HeadOf, PhaseOf DEF IInv, Next1, Is
  <1>3. ~Next1("put") /\ ~Next2("sync", "put") /\ ~Next1("clean") /\ ~Next2("sync", "clean")
    BY <1>2 DEF Next1, Next2, Is
  <1>4. CASE memory = NoJournal
    BY <1>4 DEF Changes
  <1>5. CASE memory # NoJournal
    <2>1. memory \in Journals
      BY <1>5 DEF IInv, TypeInv
    <2>2. ASSUME NEW c \in Changes PROVE \E i \in 1 .. Len(memory.changes) : c = memory.changes[i]
      <3>1. c \in {memory.changes[i] : i \in DOMAIN memory.changes}
        BY <1>5, <2>2 DEF Changes, Range
      <3>2. DOMAIN memory.changes = 1 .. Len(memory.changes)
        BY <2>1, JournalOf
      <3> QED
        BY <3>1, <3>2
    <2>3. phase # "undo"
      BY <1>2 DEF IInv, Control, UndoInv, Undoing, UndoingAt
    <2>4. phase # "restore"
      BY <1>2 DEF IInv, Control, RestoreInv, Restoring, RestoringAt
    <2>5. phase # "settle"
      BY <1>1, <1>3, SettledHead DEF IInv, Control
    <2>6. CASE phase = "work"
      <3>1. Replaced
        BY <1>5, <2>6 DEF IInv, Control, WorkInv
      <3>2. \A i \in 1 .. Len(memory.changes) :
              visible[memory.changes[i].name] = memory.changes[i].candidate
        BY <1>3, <3>1 DEF Replaced
      <3> QED
        BY <2>2, <3>2
    <2>7. CASE phase = "seal"
      <3>1. \A i \in 1 .. Len(memory.changes) :
              visible[memory.changes[i].name] = memory.changes[i].prior
        BY <2>7 DEF IInv, Control, SealInv
      <3> QED
        BY <2>2, <3>1
    <2> QED
      BY <1>2, <2>3, <2>4, <2>5, <2>6, <2>7
  <1> QED
    BY <1>4, <1>5

\* What changes a file while a transaction is recovered.
LEMMA RecoversKnown ==
  ASSUME IInv, phase \in {"undo", "restore", "seal", "settle"}, Restore \/ PowerLoss, NEW c \in Changes
  PROVE  visible[c.name] \in {c.prior, c.candidate} \/ visible'[c.name] = visible[c.name]
  <1>1. memory # NoJournal /\ memory \in Journals
    BY DEF IInv, Control, TypeInv
  <1>2. PICK i \in 1 .. Len(memory.changes) : c = memory.changes[i]
    <2>1. c \in {memory.changes[i] : i \in DOMAIN memory.changes}
      BY <1>1 DEF Changes, Range
    <2>2. DOMAIN memory.changes = 1 .. Len(memory.changes)
      BY <1>1, JournalOf
    <2> QED
      BY <2>1, <2>2
  <1>3. c.name \in Files /\ visible \in [Files -> Versions] /\ durable \in [Files -> Versions]
    BY <1>1, <1>2, JournalOf DEF IInv, TypeInv
  <1>4. CASE PowerLoss
    <2>1. visible'[c.name] \in {visible[c.name], durable[c.name]}
      BY <1>3, <1>4 DEF PowerLoss
    <2>2. CASE phase \in {"undo", "restore"}
      <3>1. memory = journal /\ ~memory.complete
        BY <2>2 DEF IInv, Control, UndoInv, RestoreInv
      <3>2. CoversChange(memory, i)
        BY <1>1, <3>1, JournalOf DEF IInv, Ledger, Covers
      <3> QED
        BY <1>2, <2>1, <3>2 DEF CoversChange, Edited
    <2>3. CASE phase = "seal"
      BY <1>2, <2>3 DEF IInv, Control, SealInv
    <2>4. CASE phase = "settle"
      <3>1. Settled(journal)
        <4>1. Deciding /\ memory.complete
          BY <2>4 DEF IInv, Control, SettleInv
        <4> QED
          BY <1>1, <4>1, JournalOf DEF Deciding
      <3>2. visible = durable
        BY <3>1 DEF IInv, Ledger
      <3> QED
        BY <2>1, <3>2
    <2> QED
      BY <2>2, <2>3, <2>4
  <1>5. CASE Restore
    <2>1. /\ program # <<>> /\ Op.do = "restore" /\ ~Impossible(Op)
          /\ visible' = [visible EXCEPT ![memory.changes[Op.index].name] = memory.changes[Op.index].prior]
      BY <1>5 DEF Restore, At
    <2>2. Next1("restore") /\ Op = program[1] /\ 1 \in 1 .. Len(program)
      BY <2>1, HeadOf DEF IInv
    <2>3. phase = "restore"
      BY <2>1, <2>2, PhaseOf DEF IInv
    <2>4. RestoreInv /\ memory = journal /\ ~memory.complete
      BY <2>3 DEF IInv, Control, RestoreInv
    <2>5. Op.index \in 1 .. Len(memory.changes)
      <3>1. RestoringAt(program, 1, memory)
        BY <2>2, <2>4 DEF RestoreInv, Restoring
      <3> QED
        BY <2>2, <3>1 DEF RestoringAt, Next1
    <2>6. CASE c.name = memory.changes[Op.index].name
      <3>1. CoversChange(memory, Op.index)
        BY <1>1, <2>4, <2>5, JournalOf DEF IInv, Ledger, Covers
      <3>2. i = Op.index
        BY <1>2, <2>6, <3>1 DEF CoversChange
      <3>3. visible[c.name] = c.prior \/ ~Unknown(c)
        BY <1>2, <2>1, <3>2 DEF Impossible
      <3> QED
        BY <3>3 DEF Unknown
    <2>7. CASE c.name # memory.changes[Op.index].name
      BY <1>3, <2>1, <2>7
    <2> QED
      BY <2>6, <2>7
  <1> QED
    BY <1>4, <1>5

\* Neither a start of the service nor a step of recovery acts on bytes that
\* the journal does not account for (recover's failed flag, and the comparison
\* with both recorded versions before a restoration in linux/transaction.rs),
\* whatever an administrator edits between two recoveries.
THEOREM KnownFilesHold == SpecUpdate => ActsOnKnownFiles
  <1>1. ASSUME IInv, Counted, [NextUpdate]_allVars
        PROVE  [wanted' /\ ~wanted /\ losses' = losses =>
                  \/ \A c \in Changes : visible[c.name] = c.candidate
                  \/ \A c \in Changes : visible[c.name] = c.prior]_vars
    <2> SUFFICES ASSUME wanted', ~wanted, losses' = losses PROVE At("start")
      BY <1>1, StartsKnown
    <2>1. HelperStep /\ ~At("start") => ~wanted'
      BY DEF HelperStep, Load, Open, SaveRename, SyncBase, Intent, Put, SyncFile, Restore, Command,
         Clean, Ended, Fail, unit
    <2>2. Kill \/ ComeUp \/ Edit \/ (\E op \in Operations : Start(op)) => ~wanted'
      BY DEF Kill, ComeUp, Edit, Start, unit
    <2>3. Link \/ UpdaterStep \/ KillUpdater \/ UNCHANGED allVars => ~wanted'
      BY DEF Link, UpdaterStep, Rename, SyncReplacement, Spawn, Wait, RestoreGui, SyncRestored,
         KillUpdater, Start, unit, vars, allVars
    <2>4. ~PowerLoss
      <3>1. PowerLoss => losses' = losses + 1
        BY DEF PowerLoss
      <3>2. losses + 1 # losses
        BY <1>1 DEF Counted
      <3> QED
        BY <3>1, <3>2
    <2> QED
      BY <1>1, <2>1, <2>2, <2>3, <2>4 DEF NextUpdate
  <1>2. ASSUME IInv, [NextUpdate]_allVars
        PROVE  [(phase \in {"undo", "restore", "seal", "settle"}) =>
                  (\A c \in Changes : visible[c.name] \in {c.prior, c.candidate}
                                       \/ visible'[c.name] = visible[c.name])]_vars
    <2> SUFFICES ASSUME phase \in {"undo", "restore", "seal", "settle"}, ~(Restore \/ PowerLoss)
                 PROVE  visible' = visible
      BY <1>2, RecoversKnown
    <2>1. Put => phase = "work"
      <3>1. Put => program # <<>> /\ Op.do = "put"
        BY DEF Put, At
      <3> QED
        BY <1>2, <3>1, HeadOf, PhaseOf DEF IInv
    <2>2. HelperStep => visible' = visible
      BY <2>1 DEF HelperStep, Load, Open, SaveRename, SyncBase, Intent, SyncFile, Command,
         Clean, Ended, Fail, files
    <2>3. Kill \/ ComeUp \/ Edit \/ (\E op \in Operations : Start(op)) => visible' = visible
      BY DEF Kill, ComeUp, Edit, Start, files
    <2>4. Link \/ UpdaterStep \/ KillUpdater \/ UNCHANGED allVars => visible' = visible
      BY DEF Link, UpdaterStep, Rename, SyncReplacement, Spawn, Wait, RestoreGui, SyncRestored,
         KillUpdater, Start, files, vars, allVars
    <2> QED
      BY <1>2, <2>2, <2>3, <2>4 DEF NextUpdate
  <1>3. SpecUpdate => NeverStartsMixed
    BY <1>1, UpdateInvariant, LossesCounted, PTL DEF SpecUpdate, NeverStartsMixed
  <1>4. SpecUpdate => RecoveryKeepsEdits
    BY <1>2, UpdateInvariant, PTL DEF SpecUpdate, RecoveryKeepsEdits
  <1> QED
    BY <1>3, <1>4 DEF ActsOnKnownFiles

-----------------------------------------------------------------------------
(***************************************************************************)
(* The AppImage and the service.                                            *)
(***************************************************************************)
\* The Agent's executable is one of the versions S, and recovery or the
\* operation under way brings none other back.
AgentIn(S) ==
  /\ visible["agent"] \in S /\ durable["agent"] \in S
  /\ phase = "work" \/ ~Settled(journal) \/ ~Settled(onDisk) => before.files["agent"] \in S

Older == {"none", "old", "edited"}
Newer == {"none", "new"}

Steps == Answers \cup {"rename", "sync", "spawn", "wait", "restore", "syncRestored"}

\* Who runs the helper, and what the updater has confirmed by then.
Parties ==
  /\ updater \in Steps /\ {gui, guiDisk, backup} \subseteq {"old", "new"} /\ ours \in BOOLEAN
  /\ ours <=> phase # "idle" /\ operation = "install"
  /\ ours => /\ gui = "new" /\ guiDisk = "new" /\ told = "none"
             /\ updater \in {"idle", "kept", "wait"}
  /\ updater \in {"rename", "sync", "spawn"} => told = "none"
  /\ updater \in {"sync", "spawn", "wait", "ok"} => gui = "new"
  /\ updater \in {"spawn", "wait", "ok"} => guiDisk = "new"
  /\ updater = "ok" => told \in {"none", "ok"}
  /\ updater \in {"syncRestored", "failed"} => gui = backup

\* The updater may still come back to the AppImage of before.
Returning ==
  \/ gui = "old" \/ guiDisk = "old"
  \/ backup = "old" /\ updater \in {"rename", "sync", "spawn", "restore"}
  \/ backup = "old" /\ updater = "wait" /\ told = "failed"
  \/ backup = "old" /\ updater = "wait" /\ ours /\ ~finishing /\ phase # "work"

Pairing ==
  /\ Returning => AgentIn(Older)
  /\ backup = "old" /\ updater = "wait" /\ ours /\ (finishing \/ phase = "work") =>
       before.files["agent"] \in Older
  /\ updater \in {"wait", "ok"} /\ told = "ok" => AgentIn(Newer)

PairInv == Parties /\ (edits = 0 => Pairing)

\* No step but an installation brings another version of the Agent.
LEMMA AgentKept ==
  ASSUME IInv, edits = 0, edits' = 0, [NextUpdate]_allVars, NEW S, "none" \in S, AgentIn(S),
         phase = "work" /\ operation = "install" => "new" \in S
  PROVE  AgentIn(S)'
  <1>1. /\ visible \in [Files -> Versions] /\ durable \in [Files -> Versions] /\ "agent" \in Files
        /\ visible["agent"] \in S /\ durable["agent"] \in S
        /\ phase = "work" \/ ~Settled(journal) \/ ~Settled(onDisk) => before.files["agent"] \in S
    BY DEF IInv, TypeInv, AgentIn, Files
  <1>2. CASE /\ UNCHANGED <<visible, durable, before>>
             /\ phase' = "work" \/ ~Settled(journal') \/ ~Settled(onDisk') =>
                  phase = "work" \/ ~Settled(journal) \/ ~Settled(onDisk)
    <2>1. AgentIn(S)'
      BY <1>1, <1>2 DEF AgentIn
    <2> QED
      BY <2>1
  <1>3. ASSUME UNCHANGED <<visible, durable, journal, onDisk, before>>, phase' = "work" => phase = "work"
        PROVE  AgentIn(S)'
    BY <1>2, <1>3
  <1>4. ASSUME Work, UNCHANGED files PROVE AgentIn(S)'
    BY <1>1, <1>4 DEF Work, files, AgentIn
  <1>5. CASE Put
    <2>1. /\ program # <<>> /\ Op.do = "put" /\ visible' = [visible EXCEPT ![Op.name] = Op.to]
          /\ UNCHANGED <<durable, journal, onDisk, before, phase>>
      BY <1>5 DEF Put, At, HelperRest
    <2>2. Next1("put") /\ Op = program[1] /\ phase = "work" /\ program[1] \in Instructions
      BY <2>1, HeadOf, PhaseOf DEF IInv
    <2>3. Op.name = "agent" => Op.to \in S
      <3>1. program[1].to = Target[program[1].name]
        BY <2>2 DEF IInv, Control, WorkInv, Aiming, Next1, Is
      <3>2. Target["agent"] \in S
        BY <1>1, <2>2 DEF Target
      <3> QED
        BY <2>2, <3>1, <3>2
    <2>4. visible'["agent"] \in S
      BY <1>1, <2>1, <2>3
    <2> QED
      BY <1>1, <2>1, <2>2, <2>4 DEF AgentIn
  <1>6. CASE SyncFile
    <2>1. durable' = [durable EXCEPT ![Op.name] = visible[Op.name]]
          /\ UNCHANGED <<visible, journal, onDisk, before, phase>>
      BY <1>6 DEF SyncFile, HelperRest
    <2>2. durable'["agent"] \in S
      BY <1>1, <2>1
    <2> QED
      BY <1>1, <2>1, <2>2 DEF AgentIn
  <1>7. CASE Restore
    <2>1. /\ program # <<>> /\ Op.do = "restore" /\ UNCHANGED <<durable, journal, onDisk, before, phase>>
          /\ visible' = [visible EXCEPT ![memory.changes[Op.index].name] = memory.changes[Op.index].prior]
      BY <1>7 DEF Restore, At, HelperRest
    <2>2. Next1("restore") /\ Op = program[1] /\ phase = "restore" /\ 1 \in 1 .. Len(program)
      BY <2>1, HeadOf, PhaseOf DEF IInv
    <2>3. RestoreInv /\ memory = journal /\ ~memory.complete /\ memory \in Journals
      BY <2>2 DEF IInv, Control, RestoreInv, TypeInv
    <2>4. Op.index \in 1 .. Len(memory.changes)
      <3>1. RestoringAt(program, 1, memory)
        BY <2>2, <2>3 DEF RestoreInv, Restoring
      <3> QED
        BY <2>2, <3>1 DEF RestoringAt, Next1
    <2>5. ~Settled(journal) /\ CoversChange(memory, Op.index)
      BY <2>3, <2>4, JournalOf DEF IInv, Ledger, Covers
    <2>6. memory.changes[Op.index].name = "agent" => memory.changes[Op.index].prior \in S
      BY <1>1, <2>5 DEF CoversChange
    <2>7. visible'["agent"] \in S
      BY <1>1, <2>1, <2>6
    <2> QED
      BY <1>1, <2>1, <2>7 DEF AgentIn
  <1>8. CASE PowerLoss
    <2>1. visible'["agent"] \in S /\ durable'["agent"] \in S
      BY <1>1, <1>8 DEF PowerLoss
    <2>2. before' = before /\ phase' = "idle"
      BY <1>8 DEF PowerLoss, helper, StoppedWith
    <2>3. journal' \in {journal, onDisk} /\ onDisk' = journal'
      BY <1>8 DEF PowerLoss
    <2> QED
      BY <1>1, <2>1, <2>2, <2>3 DEF AgentIn
  <1>9. ~Edit
    BY DEF Edit
  <1>10. CASE Load
    <2>1. Work \/ (UNCHANGED <<before>> /\ phase' # "work")
      BY <1>10 DEF Load, StoppedWith
    <2>2. UNCHANGED files
      BY <1>10 DEF Load
    <2> QED
      BY <1>3, <1>4, <2>1, <2>2 DEF files
  <1>11. CASE Ended
    <2>1. Work \/ (UNCHANGED <<before>> /\ phase' # "work")
      BY <1>11 DEF Ended, StoppedWith
    <2>2. UNCHANGED files
      BY <1>11 DEF Ended
    <2> QED
      BY <1>3, <1>4, <2>1, <2>2 DEF files
  <1>12. CASE Open
    <2>1. program # <<>> /\ Op.do = "begin"
      BY <1>12 DEF Open, At
    <2>2. phase = "work"
      BY <2>1, HeadOf, PhaseOf DEF IInv
    <2> QED
      BY <1>2, <1>12, <2>2 DEF Open, HelperRest
  <1>13. CASE SaveRename \/ Intent
    <2>1. /\ program # <<>> /\ Op.do \in {"save", "intent"}
          /\ UNCHANGED <<visible, durable, onDisk, phase, before>>
      BY <1>13 DEF SaveRename, Intent, At, HelperRest
    <2>2. phase = "work" \/ ~Settled(journal) \/ Settled(journal')
      <3>1. Next1("save") \/ Next1("intent")
        BY <2>1, HeadOf DEF IInv
      <3>2. phase \in {"work", "undo", "seal"}
        BY <2>1, <3>1, PhaseOf DEF IInv
      <3>3. phase = "undo" => ~Settled(journal)
        BY JournalOf DEF IInv, Control, UndoInv, TypeInv
      <3>4. phase = "seal" => ~Settled(journal)
        <4>1. ~Next1("clean") /\ ~Next2("sync", "clean")
          BY <3>1 DEF Next1, Next2, Is
        <4> QED
          BY <2>1, <4>1, JournalOf DEF IInv, Control, SealInv, Deciding, TypeInv
      <3> QED
        BY <3>2, <3>3, <3>4
    <2> QED
      BY <1>2, <2>1, <2>2
  <1>14. CASE SyncBase
    BY <1>2, <1>14 DEF SyncBase, HelperRest
  <1>15. CASE Clean
    <2>1. /\ journal' \in {journal, NoJournal} /\ onDisk' \in {onDisk, NoJournal}
          /\ UNCHANGED <<visible, durable, phase, before>>
      BY <1>15 DEF Clean, HelperRest
    <2> QED
      BY <1>2, <2>1, NothingIsSettled
  <1>16. CASE Command \/ Fail \/ Kill
    <2>1. UNCHANGED files /\ before' = before /\ (phase' = "work" => phase = "work")
      BY <1>16 DEF Command, Fail, Kill, StoppedWith, HelperRest
    <2> QED
      BY <1>3, <2>1 DEF files
  <1>17. CASE (\E op \in Operations : Start(op)) \/ ComeUp
    <2>1. UNCHANGED files /\ before' = before /\ (phase' = "work" => phase = "work")
      BY <1>17 DEF Start, ComeUp, helper
    <2> QED
      BY <1>3, <2>1 DEF files
  <1>18. CASE Link \/ UpdaterStep \/ KillUpdater \/ UNCHANGED allVars
    <2>1. UNCHANGED files /\ before' = before /\ (phase' = "work" => phase = "work")
      BY <1>18 DEF Link, UpdaterStep, Rename, SyncReplacement, Spawn, Wait, RestoreGui, SyncRestored,
         KillUpdater, Start, helper, vars, allVars
    <2> QED
      BY <1>3, <2>1 DEF files
  <1> QED
    BY <1>5, <1>6, <1>7, <1>8, <1>9, <1>10, <1>11, <1>12, <1>13, <1>14, <1>15, <1>16, <1>17, <1>18
    DEF NextUpdate, HelperStep

\* The helper keeps its command line; only a failed operation starts to finish.
LEMMA HelperShape ==
  ASSUME IInv, HelperStep \/ Kill
  PROVE  /\ phase # "idle" /\ operation' = operation /\ finishing' \in BOOLEAN
         /\ finishing => finishing'
         /\ ~finishing /\ finishing' => phase = "work"
         /\ phase = "work" /\ phase' # "idle" => phase' = "work" \/ finishing'
         /\ phase = "work" \/ finishing => before' = before
  <1>1. finishing \in BOOLEAN /\ (phase = "idle" => program = <<>>)
    BY DEF IInv, TypeInv, Control
  <1>2. CASE Load
    BY <1>1, <1>2 DEF Load, Work, StoppedWith
  <1>3. CASE Ended
    BY <1>1, <1>3 DEF Ended, Work, StoppedWith
  <1>4. CASE Fail
    <2>1. \A code : StoppedWith(code) => phase' = "idle" /\ UNCHANGED <<finishing, operation, before>>
      BY DEF StoppedWith
    <2>2. /\ program # <<>>
          /\ \/ UNCHANGED <<phase, finishing, operation, before>>
             \/ phase' = "idle" /\ UNCHANGED <<finishing, operation, before>>
             \/ phase = "work" /\ finishing' = TRUE /\ UNCHANGED <<operation, before>>
      BY <1>4, <2>1 DEF Fail
    <2>3. CASE UNCHANGED <<phase, finishing, operation, before>>
      BY <1>1, <2>2, <2>3
    <2>4. CASE phase' = "idle" /\ UNCHANGED <<finishing, operation, before>>
      BY <1>1, <2>2, <2>4
    <2>5. CASE phase = "work" /\ finishing' = TRUE /\ UNCHANGED <<operation, before>>
      BY <2>5
    <2> QED
      BY <2>2, <2>3, <2>4, <2>5
  <1>5. CASE Kill
    BY <1>1, <1>5 DEF Kill, StoppedWith
  <1>6. CASE program # <<>> /\ HelperRest
    BY <1>1, <1>6 DEF HelperRest
  <1> QED
    BY <1>2, <1>3, <1>4, <1>5, <1>6 DEF HelperStep, Open, SaveRename, SyncBase, Intent, Put, SyncFile,
      Restore, Command, Clean, At

LEMMA PairInit == InitUpdate => PairInv
  <1> SUFFICES ASSUME InitUpdate PROVE PairInv
    OBVIOUS
  <1>1. Parties
    BY DEF InitUpdate, Init, Parties, Steps, Answers
  <1>2. visible["agent"] \in Older /\ durable = visible /\ before.files = visible
    BY UpdateAssumption DEF InitUpdate, Init, Older, Files
  <1>3. Pairing
    BY <1>2 DEF InitUpdate, Init, Pairing, Returning, AgentIn
  <1> QED
    BY <1>1, <1>3 DEF PairInv

\* The helper, and the updater that waits for it.
LEMMA PairHelper ==
  ASSUME IInv, IInv', PairInv, NextUpdate, HelperStep \/ Kill, Reap
  PROVE  PairInv'
  <1>1. /\ phase # "idle" /\ operation' = operation /\ finishing' \in BOOLEAN
        /\ finishing => finishing'
        /\ ~finishing /\ finishing' => phase = "work"
        /\ phase = "work" /\ phase' # "idle" => phase' = "work" \/ finishing'
        /\ phase = "work" \/ finishing => before' = before
    BY HelperShape
  <1>2. UNCHANGED <<gui, guiDisk, backup, updater, updates>>
    BY DEF Reap
  <1>3. Parties /\ (ours <=> operation = "install") /\ ours \in BOOLEAN
    BY <1>1 DEF PairInv, Parties
  <1>4. ASSUME edits' = 0 PROVE edits = 0
    BY <1>4 DEF HelperStep, Kill, Load, Open, SaveRename, SyncBase, Intent, Put, SyncFile, Restore,
      Command, Clean, Ended, Fail, counters
  <1>5. ASSUME edits' = 0, NEW S, "none" \in S, AgentIn(S), phase # "work" \/ ~ours
        PROVE  AgentIn(S)'
    BY <1>3, <1>4, <1>5, AgentKept
  <1>6. "none" \in Older /\ "none" \in Newer /\ "new" \in Newer
    BY DEF Older, Newer
  <1>7. CASE ours /\ phase' = "idle"
    <2>1. told' = exit' /\ ours' = FALSE
      BY <1>1, <1>7 DEF Reap
    <2>2. gui = "new" /\ guiDisk = "new" /\ updater \in {"idle", "kept", "wait"}
      BY <1>3, <1>7 DEF Parties
    <2>3. Parties'
      BY <1>2, <1>3, <1>7, <2>1, <2>2 DEF Parties, Steps
    <2>4. ASSUME edits' = 0, backup = "old", updater = "wait", exit' = "failed" PROVE AgentIn(Older)'
      <3>1. Pairing
        BY <1>4, <2>4 DEF PairInv
      <3>2. CASE finishing \/ phase = "work"
        <4>1. before'.files["agent"] \in Older
          BY <1>1, <1>7, <2>4, <3>1, <3>2 DEF Pairing
        <4>2. visible' = before'.files /\ durable' = before'.files
          BY <2>4 DEF IInv, Reported, ReportIsDurable
        <4> QED
          BY <4>1, <4>2 DEF AgentIn
      <3>3. CASE ~finishing /\ phase # "work"
        <4>1. AgentIn(Older)
          BY <1>7, <2>4, <3>1, <3>3 DEF Pairing, Returning
        <4> QED
          BY <1>5, <1>6, <2>4, <3>3, <4>1
      <3> QED
        BY <3>2, <3>3
    <2>5. ASSUME edits' = 0, exit' = "ok" PROVE AgentIn(Newer)'
      <3>1. visible' = Target' /\ durable' = Target' /\ Settled(journal') /\ Settled(onDisk')
        BY <2>5 DEF IInv, Reported, ReportIsDurable
      <3>2. Target'["agent"] = "new"
        BY <1>1, <1>3, <1>7 DEF Target, Files
      <3> QED
        BY <1>6, <1>7, <3>1, <3>2 DEF AgentIn
    <2>6. edits' = 0 => Pairing'
      BY <1>2, <2>1, <2>2, <2>4, <2>5 DEF Pairing, Returning
    <2> QED
      BY <2>3, <2>6 DEF PairInv
  <1>8. CASE ~(ours /\ phase' = "idle")
    <2>1. UNCHANGED <<told, ours>>
      BY <1>1, <1>8 DEF Reap
    <2>2. Parties'
      <3>1. ours' <=> phase' # "idle" /\ operation' = "install"
        BY <1>1, <1>3, <1>8, <2>1
      <3> QED
        BY <1>2, <1>3, <2>1, <3>1 DEF Parties
    <2>3. CASE ~ours
      <3>1. Returning' => Returning
        BY <1>2, <2>1, <2>3 DEF Returning
      <3>2. edits' = 0 => Pairing'
        <4> SUFFICES ASSUME edits' = 0 PROVE Pairing'
          OBVIOUS
        <4>1. Pairing
          BY <1>4 DEF PairInv
        <4>2. (AgentIn(Older) => AgentIn(Older)') /\ (AgentIn(Newer) => AgentIn(Newer)')
          BY <1>5, <1>6, <2>3
        <4> QED
          BY <1>2, <2>1, <2>3, <3>1, <4>1, <4>2 DEF Pairing
      <3> QED
        BY <2>2, <3>2 DEF PairInv
    <2>4. CASE ours
      <3>1. gui = "new" /\ guiDisk = "new" /\ told = "none" /\ updater \in {"idle", "kept", "wait"}
        BY <1>3, <2>4 DEF Parties
      <3>2. ASSUME edits' = 0, backup = "old", updater = "wait", ~finishing, phase # "work"
            PROVE  AgentIn(Older)'
        <4>1. Pairing
          BY <1>4, <3>2 DEF PairInv
        <4>2. AgentIn(Older)
          BY <2>4, <3>2, <4>1 DEF Pairing, Returning
        <4> QED
          BY <1>5, <1>6, <3>2, <4>2
      <3>3. Returning' => backup = "old" /\ updater = "wait" /\ ~finishing /\ phase # "work"
        BY <1>1, <1>2, <1>8, <2>1, <2>4, <3>1 DEF Returning
      <3>4. ASSUME edits' = 0, backup = "old", updater = "wait", finishing' \/ phase' = "work"
            PROVE  before'.files["agent"] \in Older
        <4>1. CASE finishing \/ phase = "work"
          BY <1>1, <1>4, <2>4, <3>4, <4>1 DEF PairInv, Pairing
        <4>2. CASE ~finishing /\ phase # "work"
          BY <1>1, <3>2, <3>4, <4>2 DEF AgentIn
        <4> QED
          BY <4>1, <4>2
      <3>5. edits' = 0 => Pairing'
        BY <1>2, <2>1, <3>1, <3>2, <3>3, <3>4 DEF Pairing
      <3> QED
        BY <2>2, <3>5 DEF PairInv
    <2> QED
      BY <2>3, <2>4
  <1> QED
    BY <1>7, <1>8

\* The other steps of the machine and of the updater.
LEMMA PairOther ==
  ASSUME IInv, PairInv, [NextUpdate]_allVars, "install" \notin Operations,
         ~((HelperStep \/ Kill) /\ Reap)
  PROVE  PairInv'
  <1>1. Parties
    BY DEF PairInv
  <1>2. "none" \in Older /\ "none" \in Newer /\ "new" \in Newer
    BY DEF Older, Newer
  <1>3. ASSUME edits = 0, edits' = 0, ~ours
        PROVE  (AgentIn(Older) => AgentIn(Older)') /\ (AgentIn(Newer) => AgentIn(Newer)')
    BY <1>1, <1>2, <1>3, AgentKept DEF Parties
  <1>4. ASSUME Parties', edits' = edits, (edits = 0 /\ Pairing) => Pairing'
        PROVE  PairInv'
    BY <1>4 DEF PairInv
  <1>5. CASE (\E op \in Operations : Start(op)) /\ UNCHANGED guiVars
    <2>1. PICK op \in Operations : Start(op)
      BY <1>5
    <2>2. phase = "idle" /\ operation' = op /\ op # "install" /\ edits' = edits
      BY <2>1 DEF Start, counters
    <2>3. ~ours /\ UNCHANGED <<gui, guiDisk, backup, updater, ours, told>>
      BY <1>1, <1>5, <2>2 DEF Parties, guiVars
    <2>4. Parties'
      BY <1>1, <2>2, <2>3 DEF Parties
    <2>5. Returning' => Returning
      BY <2>3 DEF Returning
    <2> QED
      BY <1>3, <1>4, <2>2, <2>3, <2>4, <2>5 DEF Pairing
  <1>6. CASE Edit /\ UNCHANGED guiVars
    <2>1. edits' # 0 /\ UNCHANGED <<phase, operation>>
      BY <1>6 DEF Edit, helper, IInv, TypeInv
    <2>2. UNCHANGED <<gui, guiDisk, backup, updater, ours, told>>
      BY <1>6 DEF guiVars
    <2> QED
      BY <1>1, <2>1, <2>2 DEF Parties, PairInv
  <1>7. CASE (ComeUp /\ UNCHANGED guiVars) \/ UNCHANGED allVars
    <2>1. /\ UNCHANGED <<gui, guiDisk, backup, updater, ours, told>>
          /\ UNCHANGED <<visible, durable, journal, onDisk, phase, operation, finishing, before, edits>>
      BY <1>7 DEF ComeUp, guiVars, allVars, vars, files, helper, counters
    <2>2. Parties'
      BY <1>1, <2>1 DEF Parties
    <2>3. Pairing => Pairing'
      BY <2>1 DEF Pairing, Returning, AgentIn, Settled
    <2> QED
      BY <1>4, <2>1, <2>2, <2>3
  <1>8. CASE PowerLoss /\ LoseGui
    <2>1. /\ gui' \in {gui, guiDisk} /\ guiDisk' = gui' /\ ours' = FALSE /\ updater' = "idle"
          /\ UNCHANGED <<backup, told>>
      BY <1>8 DEF LoseGui
    <2>2. phase' = "idle" /\ edits' = edits
      BY <1>8 DEF PowerLoss, helper, StoppedWith
    <2>3. Parties'
      BY <1>1, <2>1, <2>2 DEF Parties, Steps, Answers
    <2>4. Returning' => Returning /\ ~ours
      BY <1>1, <2>1 DEF Returning, Parties
    <2> QED
      BY <1>3, <1>4, <2>1, <2>2, <2>3, <2>4 DEF Pairing
  <1>9. CASE Link
    <2>1. /\ updater \in Answers /\ ~ours /\ backup' = gui /\ updater' = "rename" /\ told' = "none"
          /\ UNCHANGED <<gui, guiDisk, ours, phase, operation, edits>>
      BY <1>9 DEF Link, vars, helper, counters
    <2>2. Parties'
      BY <1>1, <2>1 DEF Parties, Steps
    <2>3. Returning' => Returning
      BY <2>1 DEF Returning
    <2> QED
      BY <1>3, <1>4, <2>1, <2>2, <2>3 DEF Pairing
  <1>10. CASE Rename
    <2>1. /\ updater = "rename" /\ gui' = "new" /\ updater' = "sync"
          /\ UNCHANGED <<guiDisk, backup, told, ours, phase, operation, edits>>
      BY <1>10 DEF Rename, vars, helper, counters
    <2>2. ~ours
      BY <1>1, <2>1 DEF Parties
    <2>3. Parties'
      BY <1>1, <2>1, <2>2 DEF Parties, Steps
    <2>4. Returning' => Returning
      BY <2>1, <2>2 DEF Returning
    <2> QED
      BY <1>3, <1>4, <2>1, <2>2, <2>3, <2>4 DEF Pairing
  <1>11. CASE SyncReplacement
    <2>1. /\ updater = "sync" /\ updater' \in {"ok", "spawn", "restore"}
          /\ guiDisk' \in {gui, guiDisk} /\ (updater' # "restore" => guiDisk' = gui)
          /\ UNCHANGED <<gui, backup, told, ours, phase, operation, edits>>
      BY <1>11 DEF SyncReplacement, helper
    <2>2. ~ours /\ told = "none" /\ gui = "new"
      BY <1>1, <2>1 DEF Parties
    <2>3. Parties'
      BY <1>1, <2>1, <2>2 DEF Parties, Steps, Answers
    <2>4. Returning' => Returning
      BY <2>1, <2>2 DEF Returning
    <2> QED
      BY <1>3, <1>4, <2>1, <2>2, <2>3, <2>4 DEF Pairing
  <1>12. CASE Spawn
    <2>1. updater = "spawn" /\ UNCHANGED <<gui, guiDisk, backup, told>>
      BY <1>12 DEF Spawn
    <2>2. ~ours /\ told = "none" /\ gui = "new" /\ guiDisk = "new"
      BY <1>1, <2>1 DEF Parties
    <2>3. CASE updater' = "restore" /\ UNCHANGED <<vars, ours>>
      <3>1. UNCHANGED <<phase, operation, edits>>
        BY <2>3 DEF vars, helper, counters
      <3>2. Parties'
        BY <1>1, <2>1, <2>2, <2>3, <3>1 DEF Parties, Steps
      <3>3. Returning' => Returning
        BY <2>1, <2>2, <2>3 DEF Returning
      <3> QED
        BY <1>3, <1>4, <2>2, <2>3, <3>1, <3>2, <3>3 DEF Pairing
    <2>4. CASE phase = "idle" /\ Start("install") /\ ours' = TRUE /\ updater' = "wait"
      <3>1. phase' = "recover" /\ operation' = "install" /\ edits' = edits /\ finishing' = FALSE
        BY <2>4 DEF Start, counters
      <3>2. Parties'
        BY <1>1, <2>1, <2>2, <2>4, <3>1 DEF Parties, Steps
      <3>3. Returning' => Returning
        BY <2>1, <2>2, <2>4 DEF Returning
      <3> QED
        BY <1>3, <1>4, <2>1, <2>2, <2>4, <3>1, <3>2, <3>3 DEF Pairing
    <2> QED
      BY <1>12, <2>3, <2>4 DEF Spawn
  <1>13. CASE Wait
    <2>1. /\ updater = "wait" /\ UNCHANGED <<gui, guiDisk, backup, told, ours>>
          /\ \/ told = "ok" /\ updater' = "ok"
             \/ told = "failed" /\ updater' = "restore"
             \/ updater' = "kept"
      BY <1>13 DEF Wait
    <2>2. UNCHANGED <<visible, durable, journal, onDisk, phase, operation, finishing, before, edits>>
      BY <1>13 DEF Wait, vars, files, helper, counters
    <2>3. Parties'
      BY <1>1, <2>1, <2>2 DEF Parties, Steps, Answers
    <2>4. Returning' => Returning
      BY <2>1, <2>2 DEF Returning
    <2>5. (AgentIn(Older) => AgentIn(Older)') /\ (AgentIn(Newer) => AgentIn(Newer)')
      BY <2>2 DEF AgentIn, Settled
    <2> QED
      BY <1>4, <2>1, <2>2, <2>3, <2>4, <2>5 DEF Pairing
  <1>14. CASE RestoreGui
    <2>1. /\ updater = "restore" /\ UNCHANGED <<guiDisk, backup, told, ours, phase, operation, edits>>
          /\ \/ gui' = backup /\ updater' = "syncRestored"
             \/ gui' = gui /\ updater' = "kept"
      BY <1>14 DEF RestoreGui, helper
    <2>2. ~ours
      BY <1>1, <2>1 DEF Parties
    <2>3. Parties'
      BY <1>1, <2>1, <2>2 DEF Parties, Steps, Answers
    <2>4. Returning' => Returning
      BY <2>1, <2>2 DEF Returning
    <2> QED
      BY <1>3, <1>4, <2>1, <2>2, <2>3, <2>4 DEF Pairing
  <1>15. CASE SyncRestored
    <2>1. /\ updater = "syncRestored" /\ UNCHANGED <<gui, backup, told, ours, phase, operation, edits>>
          /\ guiDisk' \in {gui, guiDisk} /\ updater' \in {"kept", "failed"}
      BY <1>15 DEF SyncRestored, helper
    <2>2. ~ours
      BY <1>1, <2>1 DEF Parties
    <2>3. Parties'
      BY <1>1, <2>1, <2>2 DEF Parties, Steps, Answers
    <2>4. Returning' => Returning
      BY <2>1, <2>2 DEF Returning
    <2> QED
      BY <1>3, <1>4, <2>1, <2>2, <2>3, <2>4 DEF Pairing
  <1>16. CASE KillUpdater
    <2>1. /\ updater' = "idle" /\ UNCHANGED <<gui, guiDisk, backup, told, ours>>
      BY <1>16 DEF KillUpdater
    <2>2. UNCHANGED <<visible, durable, journal, onDisk, phase, operation, finishing, before, edits>>
      BY <1>16 DEF KillUpdater, files, helper
    <2>3. Parties'
      BY <1>1, <2>1, <2>2 DEF Parties, Steps, Answers
    <2>4. Returning' => Returning
      BY <2>1, <2>2 DEF Returning
    <2>5. (AgentIn(Older) => AgentIn(Older)') /\ (AgentIn(Newer) => AgentIn(Newer)')
      BY <2>2 DEF AgentIn, Settled
    <2> QED
      BY <1>4, <2>1, <2>2, <2>3, <2>4, <2>5 DEF Pairing
  <1> QED
    BY <1>5, <1>6, <1>7, <1>8, <1>9, <1>10, <1>11, <1>12, <1>13, <1>14, <1>15, <1>16
    DEF NextUpdate, UpdaterStep

LEMMA PairHas ==
  ASSUME IInv, PairInv
  PROVE  PairIsConsistent
  <1>1. Parties
    BY DEF PairInv
  <1>2. ASSUME edits = 0 PROVE Pairing
    BY <1>2 DEF PairInv
  <1>3. "new" \notin Older
    BY DEF Older
  <1>4. ServiceNotAheadOfGui
    <2>1. ASSUME edits = 0, gui = "old" \/ guiDisk = "old"
          PROVE  visible["agent"] # "new" /\ durable["agent"] # "new"
      BY <1>2, <1>3, <2>1 DEF Pairing, Returning, AgentIn
    <2> QED
      BY <1>1, <2>1 DEF ServiceNotAheadOfGui, Parties
  <1>5. AnswerMatchesPair
    <2>1. /\ updater = "ok" => gui = "new" /\ guiDisk = "new"
          /\ updater = "failed" => gui = backup
      BY <1>1 DEF Parties
    <2>2. ASSUME edits = 0, updater = "ok", told # "none", Settled(journal)
          PROVE  visible["agent"] \in {"new", "none"} /\ durable = visible
      <3>1. AgentIn(Newer)
        BY <1>1, <1>2, <2>2 DEF Parties, Pairing
      <3>2. durable = visible
        BY <2>2 DEF IInv, Ledger
      <3> QED
        BY <3>1, <3>2 DEF AgentIn, Newer
    <2> QED
      BY <2>1, <2>2 DEF AnswerMatchesPair
  <1> QED
    BY <1>4, <1>5 DEF PairIsConsistent

\* A newer service is never paired with an older AppImage, and what the updater
\* answers is the pair the user has (replace_appimage and
\* finish_appimage_replacement in usque-update/src/linux.rs), where the service
\* is installed by the updater alone, for any number of updates, faults, kills
\* and power losses.
THEOREM PairHolds ==
  ASSUME "install" \notin Operations
  PROVE  SpecUpdate => []PairIsConsistent
  <1>1. IInv /\ IInv' /\ PairInv /\ [NextUpdate]_allVars => PairInv'
    <2> SUFFICES ASSUME IInv, IInv', PairInv, [NextUpdate]_allVars PROVE PairInv'
      OBVIOUS
    <2>1. CASE (HelperStep \/ Kill) /\ Reap
      <3>1. NextUpdate
        BY <2>1 DEF NextUpdate
      <3> QED
        BY <2>1, <3>1, PairHelper
    <2>2. CASE ~((HelperStep \/ Kill) /\ Reap)
      BY <2>2, PairOther
    <2> QED
      BY <2>1, <2>2
  <1>2. IInv /\ PairInv => PairIsConsistent
    BY PairHas
  <1> QED
    BY <1>1, <1>2, PairInit, UpdateInvariant, PTL DEF SpecUpdate
=============================================================================
