------------------------- MODULE SafetyParts_proofs -------------------------
(***************************************************************************)
(* What is proved of the two consoles, and that the parts which SafetyParts*)
(* puts side by side keep together what each keeps alone.                  *)
(***************************************************************************)
EXTENDS SafetyParts, Access_proofs, Resources_proofs, Delivery_proofs,
        WellFoundedInduction

-----------------------------------------------------------------------------
(* Induction. The well-foundedness of the finite sets of numbers gives the *)
(* least number of a set, and with it facts about a recursive function.    *)

LEMMA LeastNumber ==
  ASSUME NEW T \in SUBSET Nat, T # {}
  PROVE  \E m \in T : \A k \in T : m <= k
  <1> DEFINE Below == {0..(m - 1) : m \in T}
  <1>1. IsWellFoundedOn(StrictSubsetOrdering(Nat), FiniteSubsetsOf(Nat))
    BY FS_StrictSubsetOrderingWellFounded
  <1>2. Below \subseteq FiniteSubsetsOf(Nat) /\ Below # {}
    <2>1. ASSUME NEW m \in T
          PROVE  0..(m - 1) \in FiniteSubsetsOf(Nat)
      BY FS_Interval DEF FiniteSubsetsOf
    <2> QED BY <2>1
  <1>3. PICK x \in Below : \A y \in Below : <<y, x>> \notin StrictSubsetOrdering(Nat)
    <2> HIDE DEF Below
    <2> QED BY <1>1, <1>2, WFMin
  <1>4. PICK m \in T : x = 0..(m - 1)
    OBVIOUS
  <1>5. ASSUME NEW k \in T, k < m
        PROVE  FALSE
    <2>1. 0..(k - 1) \subseteq 0..(m - 1) /\ k \in 0..(m - 1) /\ k \notin 0..(k - 1)
      BY <1>5
    <2>2. <<0..(k - 1), 0..(m - 1)>> \in StrictSubsetOrdering(Nat)
      <3>1. 0..(k - 1) # 0..(m - 1)
        BY <2>1
      <3>2. 0..(k - 1) \in SUBSET Nat /\ 0..(m - 1) \in SUBSET Nat
        OBVIOUS
      <3> QED BY <2>1, <3>1, <3>2 DEF StrictSubsetOrdering
    <2> QED BY <1>3, <1>4, <2>2
  <1> QED BY <1>5

\* The commands of a text: those of the text before its last block, and the last
\* block if it is a command. The function that collects them exists because the
\* least length for which it did not could be reached from the one before.
UpTo(text, n, f) ==
  f = [i \in 0..n |-> IF i = 0 THEN <<>>
                      ELSE IF text[i].content = Prose THEN f[i - 1]
                      ELSE Append(f[i - 1], text[i])]

LEMMA UpToExists ==
  ASSUME NEW text, NEW n \in Nat
  PROVE  \E f : UpTo(text, n, f)
  <1> DEFINE T == {m \in Nat : ~ \E f : UpTo(text, m, f)}
  <1>1. SUFFICES ASSUME T # {} PROVE FALSE
    OBVIOUS
  <1>2. PICK m \in T : \A k \in T : m <= k
    <2> HIDE DEF T
    <2>1. T \in SUBSET Nat
      BY DEF T
    <2> QED BY <1>1, <2>1, LeastNumber
  <1>3. UpTo(text, 0, [i \in 0..0 |-> <<>>])
    BY DEF UpTo
  <1>4. m # 0 /\ m - 1 \in Nat /\ m - 1 \notin T
    BY <1>2, <1>3
  <1>5. PICK f : UpTo(text, m - 1, f)
    BY <1>4
  <1> DEFINE g == [i \in 0..m |-> IF i < m THEN f[i]
                                  ELSE IF text[m].content = Prose THEN f[m - 1]
                                  ELSE Append(f[m - 1], text[m])]
  <1>6. \A i \in 0..(m - 1) :
          f[i] = IF i = 0 THEN <<>> ELSE IF text[i].content = Prose THEN f[i - 1]
                 ELSE Append(f[i - 1], text[i])
    BY <1>5 DEF UpTo
  <1>7. \A i \in 0..m :
          g[i] = IF i = 0 THEN <<>> ELSE IF text[i].content = Prose THEN g[i - 1]
                 ELSE Append(g[i - 1], text[i])
    BY <1>4, <1>6
  <1>8. UpTo(text, m, g)
    BY <1>7 DEF UpTo
  <1> QED BY <1>2, <1>8

\* Every value of the function is a sequence of blocks.
LEMMA UpToTyped ==
  ASSUME NEW text \in Seq(Blocks), NEW f, UpTo(text, Len(text), f)
  PROVE  f[Len(text)] \in Seq(Blocks)
  <1> DEFINE T == {m \in 0..Len(text) : f[m] \notin Seq(Blocks)}
  <1>1. SUFFICES ASSUME T # {} PROVE FALSE
    OBVIOUS
  <1>2. PICK m \in T : \A k \in T : m <= k
    <2> HIDE DEF T
    <2>1. T \in SUBSET Nat
      BY DEF T
    <2> QED BY <1>1, <2>1, LeastNumber
  <1>3. \A i \in 0..Len(text) :
          f[i] = IF i = 0 THEN <<>> ELSE IF text[i].content = Prose THEN f[i - 1]
                 ELSE Append(f[i - 1], text[i])
    BY DEF UpTo
  <1>4. f[0] \in Seq(Blocks)
    <2>1. 0 \in 0..Len(text)
      OBVIOUS
    <2>2. f[0] = <<>>
      <3> HIDE DEF T
      <3> QED BY <1>3, <2>1, Zenon
    <2> QED BY <2>2
  <1>5. m \in 1..Len(text) /\ m - 1 \in 0..Len(text) /\ m - 1 \notin T
    BY <1>2, <1>4
  <1>6. f[m - 1] \in Seq(Blocks) /\ text[m] \in Blocks
    BY <1>5
  <1>7. f[m] = f[m - 1] \/ f[m] = Append(f[m - 1], text[m])
    <2>1. m \in 0..Len(text) /\ m # 0
      BY <1>5
    <2> QED BY <1>3, <2>1, Zenon
  <1>8. Append(f[m - 1], text[m]) \in Seq(Blocks)
    BY <1>6
  <1> QED BY <1>2, <1>6, <1>7, <1>8

LEMMA CommandBlocksTyped ==
  ASSUME NEW text \in Seq(Blocks)
  PROVE  CommandBlocks(text) \in Seq(Blocks)
  <1> DEFINE F == CHOOSE f : UpTo(text, Len(text), f)
  <1>1. UpTo(text, Len(text), F)
    BY UpToExists
  <1>2. CommandBlocks(text) = F[Len(text)]
    BY DEF CommandBlocks, UpTo
  <1> QED BY <1>1, <1>2, UpToTyped

-----------------------------------------------------------------------------
(* The scrollback. It is stated of constants, so that each lemma says what *)
(* one change of the screen preserves.                                     *)

Prompts == [id : Nat, kind : {"prompt"}]
Replies == [id : Nat, kind : {"reply"}, text : Seq(Blocks), numbers : Seq(Nat),
            error : BOOLEAN]
Runs    == [id : Nat, kind : {"run"}, proposal : Nat, command : Blocks,
            outcome : {"waits", "dispatched", "refused"}]
Shown   == Prompts \cup Replies \cup Runs

ReplyMeans(e, ps) ==
  e.kind = "reply" /\ e.numbers # <<>> =>
    /\ Len(e.numbers) = Len(CommandBlocks(e.text))
    /\ \A k \in 1..Len(e.numbers) :
         /\ e.numbers[k] \in 1..Len(ps)
         /\ ps[e.numbers[k]] = CommandBlocks(e.text)[k]

RunMeans(e, ps, con) ==
  e.kind = "run" /\ con = "ai" => e.proposal \in 1..Len(ps) /\ ps[e.proposal] = e.command

Unanswered(e, r) == e.id = r => e.kind = "reply" /\ e.numbers = <<>>

\* Entries have the ids handed out so far, each its own; the reply under way has no
\* numbers yet, and an entry that waits for a call is a run.
Scrollback(es, ps, next, r, cs, con) ==
  /\ es \in Seq(Shown) /\ ps \in Seq(Blocks) /\ next \in Nat /\ r \in Nat /\ r < next
  /\ \A i \in 1..Len(es) : es[i].id \in 1..next - 1
  /\ \A i, j \in 1..Len(es) : es[i].id = es[j].id => i = j
  /\ \A i \in 1..Len(es) : Unanswered(es[i], r)
  /\ con = "ai" => \A c \in cs : /\ c.entry \in 1..next - 1
                                /\ \A i \in 1..Len(es) : es[i].id = c.entry => es[i].kind = "run"
  /\ \A i \in 1..Len(es) : ReplyMeans(es[i], ps) /\ RunMeans(es[i], ps, con)

LEMMA ScrollbackCleared ==
  ASSUME NEW es, NEW ps, NEW n, NEW r, NEW cs, NEW con, Scrollback(es, ps, n, r, cs, con)
  PROVE  Scrollback(<<>>, ps, n, r, cs, con)
  BY DEF Scrollback

LEMMA ScrollbackAppended ==
  ASSUME NEW es, NEW ps, NEW n, NEW r, NEW cs, NEW con, Scrollback(es, ps, n, r, cs, con),
         n > 0, NEW e \in Shown, e.id = n, ReplyMeans(e, ps), RunMeans(e, ps, con)
  PROVE  Scrollback(Append(es, e), ps, n + 1, r, cs, con)
  <1> DEFINE fs == Append(es, e)
  <1>1. /\ es \in Seq(Shown) /\ ps \in Seq(Blocks) /\ n \in Nat /\ r \in Nat /\ r < n
        /\ \A i \in 1..Len(es) : es[i].id \in 1..n - 1
        /\ \A i, j \in 1..Len(es) : es[i].id = es[j].id => i = j
    BY DEF Scrollback
  <1>2. /\ fs \in Seq(Shown) /\ Len(fs) = Len(es) + 1 /\ Len(es) \in Nat
        /\ \A i \in 1..Len(es) : fs[i] = es[i]
        /\ fs[Len(es) + 1] = e
    BY <1>1
  <1> HIDE DEF fs
  <1>3. \A i \in 1..Len(fs) : i \in 1..Len(es) \/ i = Len(es) + 1
    BY <1>2
  <1>4. \A i \in 1..Len(fs) : fs[i].id \in 1..n
    BY <1>1, <1>2, <1>3
  <1>5. \A i, j \in 1..Len(fs) : fs[i].id = fs[j].id => i = j
    <2> SUFFICES ASSUME NEW i \in 1..Len(fs), NEW j \in 1..Len(fs), fs[i].id = fs[j].id
                 PROVE  i = j
      OBVIOUS
    <2>1. \A k \in 1..Len(es) : fs[k].id = es[k].id /\ es[k].id # n
      BY <1>1, <1>2
    <2>2. fs[Len(es) + 1].id = n
      BY <1>2
    <2>3. CASE i \in 1..Len(es) /\ j \in 1..Len(es)
      BY <1>1, <2>1, <2>3
    <2>4. CASE i = Len(es) + 1 /\ j = Len(es) + 1
      BY <2>4
    <2>5. CASE (i = Len(es) + 1 /\ j \in 1..Len(es)) \/ (j = Len(es) + 1 /\ i \in 1..Len(es))
      BY <2>1, <2>2, <2>5
    <2> QED BY <1>3, <2>3, <2>4, <2>5, Zenon
  <1>6. \A i \in 1..Len(fs) : Unanswered(fs[i], r)
    <2>1. \A i \in 1..Len(es) : Unanswered(es[i], r)
      BY DEF Scrollback
    <2>2. Unanswered(e, r)
      BY <1>1 DEF Unanswered
    <2> QED BY <1>2, <1>3, <2>1, <2>2
  <1>7. con = "ai" => \A c \in cs :
          /\ c.entry \in 1..n
          /\ \A i \in 1..Len(fs) : fs[i].id = c.entry => fs[i].kind = "run"
    <2>1. con = "ai" => \A c \in cs :
            /\ c.entry \in 1..n - 1
            /\ \A i \in 1..Len(es) : es[i].id = c.entry => es[i].kind = "run"
      BY DEF Scrollback
    <2> QED BY <1>1, <1>2, <1>3, <2>1
  <1>8. \A i \in 1..Len(fs) : ReplyMeans(fs[i], ps) /\ RunMeans(fs[i], ps, con)
    <2>1. \A i \in 1..Len(es) : ReplyMeans(es[i], ps) /\ RunMeans(es[i], ps, con)
      BY DEF Scrollback
    <2> QED BY <1>2, <1>3, <2>1
  <1>9. n + 1 \in Nat /\ r < n + 1 /\ (n + 1) - 1 = n
    BY <1>1
  <1> QED BY <1>1, <1>2, <1>4, <1>5, <1>6, <1>7, <1>8, <1>9 DEF Scrollback, fs

\* Calls that end, and a call for an entry that is a run.
LEMMA ScrollbackCalls ==
  ASSUME NEW es, NEW ps, NEW n, NEW r, NEW cs, NEW con, Scrollback(es, ps, n, r, cs, con),
         NEW ds,
         con = "ai" => \A d \in ds \ cs :
           /\ d.entry \in 1..n - 1
           /\ \A i \in 1..Len(es) : es[i].id = d.entry => es[i].kind = "run"
  PROVE  Scrollback(es, ps, n, r, ds, con)
  <1>1. con = "ai" => \A d \in ds :
          /\ d.entry \in 1..n - 1
          /\ \A i \in 1..Len(es) : es[i].id = d.entry => es[i].kind = "run"
    BY DEF Scrollback
  <1> QED BY <1>1 DEF Scrollback

\* A question is asked, or its answer has ended.
LEMMA ScrollbackAsked ==
  ASSUME NEW es, NEW ps, NEW n, NEW r, NEW cs, NEW con, Scrollback(es, ps, n, r, cs, con),
         NEW q \in Nat, q < n, \A i \in 1..Len(es) : Unanswered(es[i], q)
  PROVE  Scrollback(es, ps, n, q, cs, con)
  BY DEF Scrollback

\* Entries are updated where they stand.
LEMMA ScrollbackUpdated ==
  ASSUME NEW es, NEW ps, NEW n, NEW r, NEW cs, NEW con, Scrollback(es, ps, n, r, cs, con),
         NEW fs \in Seq(Shown), Len(fs) = Len(es), NEW qs \in Seq(Blocks),
         NEW q \in Nat, q < n,
         \A i \in 1..Len(es) :
           /\ fs[i].id = es[i].id /\ fs[i].kind = es[i].kind
           /\ Unanswered(fs[i], q)
           /\ ReplyMeans(fs[i], qs) /\ RunMeans(fs[i], qs, con)
  PROVE  Scrollback(fs, qs, n, q, cs, con)
  <1>1. n \in Nat
    BY DEF Scrollback
  <1>2. \A i \in 1..Len(fs) : fs[i].id \in 1..n - 1
    BY DEF Scrollback
  <1>3. \A i, j \in 1..Len(fs) : fs[i].id = fs[j].id => i = j
    BY DEF Scrollback
  <1>4. con = "ai" => \A c \in cs :
          /\ c.entry \in 1..n - 1
          /\ \A i \in 1..Len(fs) : fs[i].id = c.entry => fs[i].kind = "run"
    BY DEF Scrollback
  <1> QED BY <1>1, <1>2, <1>3, <1>4 DEF Scrollback

LEMMA KindsOfEntries ==
  ASSUME NEW e \in Shown
  PROVE  /\ e.id \in Nat
         /\ e.kind = "reply" => e \in Replies
         /\ e.kind = "run" => e \in Runs
  BY DEF Shown, Prompts, Replies, Runs

LEMMA EntriesUpdated ==
  /\ \A e \in Replies, v \in Seq(Blocks) :
       LET f == [e EXCEPT !["text"] = v]
       IN  f \in Replies /\ f.id = e.id /\ f.kind = e.kind /\ f.numbers = e.numbers
  /\ \A e \in Replies, v \in BOOLEAN :
       LET f == [e EXCEPT !["error"] = v]
       IN  f \in Replies /\ f.id = e.id /\ f.kind = e.kind /\ f.numbers = e.numbers
  /\ \A e \in Replies, v \in Seq(Nat) :
       LET f == [e EXCEPT !.numbers = v]
       IN  /\ f \in Replies /\ f.id = e.id /\ f.kind = e.kind /\ f.text = e.text
           /\ f.numbers = v
  BY DEF Replies

LEMMA OutcomeUpdated ==
  ASSUME NEW e \in Runs, NEW v \in {"waits", "dispatched", "refused"},
         NEW f, f = [e EXCEPT !["outcome"] = v]
  PROVE  /\ f \in Runs /\ f.id = e.id /\ f.kind = e.kind
         /\ f.proposal = e.proposal /\ f.command = e.command
  BY DEF Runs

\* The update of the reply under way, which has no numbers, changes no meaning; nor
\* does that of the outcome of a run.
LEMMA ReplyUpdated ==
  ASSUME NEW r, NEW ps, NEW n, NEW cs, NEW con,
         Scrollback(entries, ps, n, r, cs, con),
         NEW field, NEW v,
         (field = "text" /\ v \in Seq(Blocks)) \/ (field = "error" /\ v \in BOOLEAN)
  PROVE  Scrollback(Updated(r, field, v), ps, n, r, cs, con)
  <1> DEFINE fs == Updated(r, field, v)
  <1>1. /\ entries \in Seq(Shown) /\ ps \in Seq(Blocks) /\ r \in Nat /\ r < n
        /\ \A i \in 1..Len(entries) : Unanswered(entries[i], r)
        /\ \A i \in 1..Len(entries) : ReplyMeans(entries[i], ps) /\ RunMeans(entries[i], ps, con)
    BY DEF Scrollback
  <1>2. ASSUME NEW i \in 1..Len(entries)
        PROVE  /\ fs[i] \in Shown
               /\ fs[i].id = entries[i].id /\ fs[i].kind = entries[i].kind
               /\ Unanswered(fs[i], r) /\ ReplyMeans(fs[i], ps) /\ RunMeans(fs[i], ps, con)
    <2>0. entries[i] \in Shown
      BY <1>1
    <2>1. CASE entries[i].id # r
      <3>1. fs[i] = entries[i]
        BY <2>1 DEF Updated
      <3> QED BY <1>1, <2>0, <3>1
    <2>2. CASE entries[i].id = r
      <3>1. entries[i] \in Replies /\ entries[i].numbers = <<>> /\ entries[i].kind = "reply"
        BY <1>1, <2>0, <2>2, KindsOfEntries DEF Unanswered
      <3>2. fs[i] = [entries[i] EXCEPT ![field] = v]
        BY <2>2 DEF Updated
      <3>3. /\ fs[i] \in Replies /\ fs[i].id = entries[i].id /\ fs[i].kind = entries[i].kind
            /\ fs[i].numbers = entries[i].numbers
        BY <3>1, <3>2, EntriesUpdated
      <3> QED BY <3>1, <3>3 DEF Shown, Unanswered, ReplyMeans, RunMeans
    <2> QED BY <2>1, <2>2
  <1>3. Len(fs) = Len(entries) /\ fs \in Seq(Shown)
    BY <1>1, <1>2 DEF Updated
  <1> HIDE DEF fs
  <1>4. Scrollback(fs, ps, n, r, cs, con)
    BY <1>1, <1>2, <1>3, ScrollbackUpdated
  <1> QED BY <1>4 DEF fs

LEMMA RunUpdated ==
  ASSUME NEW r, NEW ps, NEW n, NEW cs,
         Scrollback(entries, ps, n, r, cs, "ai"),
         NEW call \in cs, NEW v \in {"waits", "dispatched", "refused"}
  PROVE  Scrollback(Updated(call.entry, "outcome", v), ps, n, r, cs, "ai")
  <1> DEFINE fs == Updated(call.entry, "outcome", v)
  <1>1. /\ entries \in Seq(Shown) /\ ps \in Seq(Blocks) /\ r \in Nat /\ r < n
        /\ \A i \in 1..Len(entries) : Unanswered(entries[i], r)
        /\ \A i \in 1..Len(entries) : ReplyMeans(entries[i], ps) /\ RunMeans(entries[i], ps, "ai")
        /\ \A i \in 1..Len(entries) : entries[i].id = call.entry => entries[i].kind = "run"
    BY DEF Scrollback
  <1>2. ASSUME NEW i \in 1..Len(entries)
        PROVE  /\ fs[i] \in Shown
               /\ fs[i].id = entries[i].id /\ fs[i].kind = entries[i].kind
               /\ Unanswered(fs[i], r) /\ ReplyMeans(fs[i], ps) /\ RunMeans(fs[i], ps, "ai")
    <2>0. entries[i] \in Shown
      BY <1>1
    <2>1. CASE entries[i].id # call.entry
      <3>1. fs[i] = entries[i]
        BY <2>1 DEF Updated
      <3> QED BY <1>1, <2>0, <3>1
    <2>2. CASE entries[i].id = call.entry
      <3>1. entries[i] \in Runs /\ entries[i].kind = "run"
        BY <1>1, <2>0, <2>2, KindsOfEntries
      <3>2. fs[i] = [entries[i] EXCEPT !["outcome"] = v]
        BY <2>2 DEF Updated
      <3>3. /\ fs[i] \in Runs /\ fs[i].id = entries[i].id /\ fs[i].kind = entries[i].kind
            /\ fs[i].proposal = entries[i].proposal /\ fs[i].command = entries[i].command
        BY <3>1, <3>2, OutcomeUpdated
      <3>4. Unanswered(entries[i], r) /\ RunMeans(entries[i], ps, "ai")
        BY <1>1
      <3> QED BY <3>1, <3>3, <3>4 DEF Shown, Unanswered, ReplyMeans, RunMeans
    <2> QED BY <2>1, <2>2
  <1>3. Len(fs) = Len(entries) /\ fs \in Seq(Shown)
    BY <1>1, <1>2 DEF Updated
  <1> HIDE DEF fs
  <1>4. Scrollback(fs, ps, n, r, cs, "ai")
    BY <1>1, <1>2, <1>3, ScrollbackUpdated
  <1> QED BY <1>4 DEF fs

\* More proposals after those there are change no meaning.
LEMMA MeansStays ==
  ASSUME NEW ps \in Seq(Blocks), NEW qs \in Seq(Blocks), NEW con, NEW e \in Shown,
         ReplyMeans(e, ps), RunMeans(e, ps, con)
  PROVE  ReplyMeans(e, ps \o qs) /\ RunMeans(e, ps \o qs, con)
  <1>1. /\ Len(ps \o qs) = Len(ps) + Len(qs) /\ Len(ps) \in Nat /\ Len(qs) \in Nat
        /\ \A k \in 1..Len(ps) : (ps \o qs)[k] = ps[k] /\ k \in 1..Len(ps \o qs)
    OBVIOUS
  <1> QED BY <1>1 DEF ReplyMeans, RunMeans

\* The heart of the matter: numbers from the end of the proposals on are those of
\* the commands of the reply, and nobody else's.
LEMMA ScrollbackNumbered ==
  ASSUME NEW es, NEW ps, NEW n, NEW cs, Scrollback(es, ps, n, question.reply, cs, "ai")
  PROVE  Scrollback(WithNumbers(es, Len(ps) + 1), ps \o RepliedCommands(es), n, 0, cs, "ai")
  <1> DEFINE fs == WithNumbers(es, Len(ps) + 1)
             drafted == RepliedCommands(es)
             qs == ps \o drafted
             places == {i \in 1..Len(es) : es[i].id = question.reply}
             given == [k \in 1..Len(drafted) |-> Len(ps) + 1 + k - 1]
  <1>1. /\ es \in Seq(Shown) /\ ps \in Seq(Blocks) /\ n \in Nat /\ n > 0
        /\ \A i, j \in 1..Len(es) : es[i].id = es[j].id => i = j
        /\ \A i \in 1..Len(es) : es[i].id \in 1..n - 1
        /\ \A i \in 1..Len(es) : Unanswered(es[i], question.reply)
        /\ \A i \in 1..Len(es) : ReplyMeans(es[i], ps) /\ RunMeans(es[i], ps, "ai")
    BY DEF Scrollback
  <1>2. ASSUME NEW i \in places
        PROVE  /\ es[i] \in Replies /\ es[i].kind = "reply"
               /\ drafted = CommandBlocks(es[i].text) /\ drafted \in Seq(Blocks)
    <2>1. es[i] \in Shown
      BY <1>1
    <2>2. es[i].kind = "reply" /\ es[i] \in Replies
      BY <1>1, <2>1, KindsOfEntries DEF Unanswered
    <2>3. es[i].text \in Seq(Blocks)
      BY <2>2 DEF Replies
    <2>4. places = {i}
      BY <1>1
    <2>5. (CHOOSE p \in places : TRUE) = i
      BY <2>4
    <2>6. drafted = CommandBlocks(es[i].text)
      <3>1. drafted = CommandBlocks(es[CHOOSE p \in places : TRUE].text)
        BY DEF RepliedCommands
      <3> QED BY <2>5, <3>1
    <2> QED BY <2>2, <2>3, <2>6, CommandBlocksTyped
  <1>3. drafted \in Seq(Blocks)
    <2>1. CASE places = {}
      BY <2>1 DEF RepliedCommands
    <2>2. CASE places # {}
      BY <1>2, <2>2
    <2> QED BY <2>1, <2>2
  <1>4. /\ fs = [i \in 1..Len(es) |-> IF es[i].id = question.reply
                                     THEN [es[i] EXCEPT !.numbers = given] ELSE es[i]]
    BY DEF WithNumbers
  <1> HIDE DEF fs, drafted
  <1>5. /\ given \in Seq(Nat) /\ Len(given) = Len(drafted)
        /\ \A k \in 1..Len(drafted) : given[k] = Len(ps) + k
    BY <1>1, <1>3
  <1>6. /\ qs \in Seq(Blocks) /\ Len(qs) = Len(ps) + Len(drafted)
        /\ \A k \in 1..Len(drafted) : Len(ps) + k \in 1..Len(qs) /\ qs[Len(ps) + k] = drafted[k]
    BY <1>1, <1>3
  <1>7. ASSUME NEW i \in 1..Len(es)
        PROVE  /\ fs[i] \in Shown
               /\ fs[i].id = es[i].id /\ fs[i].kind = es[i].kind
               /\ Unanswered(fs[i], 0) /\ ReplyMeans(fs[i], qs) /\ RunMeans(fs[i], qs, "ai")
    <2>0. es[i] \in Shown /\ es[i].id # 0
      BY <1>1
    <2>1. CASE i \notin places
      <3>1. fs[i] = es[i]
        BY <1>4, <2>1
      <3> QED BY <1>1, <1>3, <2>0, <3>1, MeansStays DEF Unanswered
    <2>2. CASE i \in places
      <3>1. es[i] \in Replies /\ es[i].kind = "reply" /\ drafted = CommandBlocks(es[i].text)
        BY <1>2, <2>2
      <3>2. fs[i] = [es[i] EXCEPT !.numbers = given]
        BY <1>4, <2>2
      <3> HIDE DEF given
      <3>3. /\ fs[i] \in Replies /\ fs[i].id = es[i].id /\ fs[i].kind = es[i].kind
            /\ fs[i].text = es[i].text /\ fs[i].numbers = given
        BY <1>5, <3>1, <3>2, EntriesUpdated
      <3> HIDE DEF qs
      <3>4. ReplyMeans(fs[i], qs)
        BY <1>5, <1>6, <3>1, <3>3 DEF ReplyMeans
      <3> QED BY <2>0, <3>1, <3>3, <3>4 DEF Shown, Unanswered, RunMeans
    <2> QED BY <2>1, <2>2
  <1> HIDE DEF given, qs
  <1>8. Len(fs) = Len(es) /\ fs \in Seq(Shown)
    BY <1>1, <1>4, <1>7
  <1>9. Scrollback(fs, qs, n, 0, cs, "ai")
    BY <1>1, <1>6, <1>7, <1>8, ScrollbackUpdated
  <1> QED BY <1>9 DEF fs, qs, drafted

-----------------------------------------------------------------------------
(* The pages. *)

PageTypes ==
  /\ console \in {"none", "command", "ai"} /\ canExecute \in BOOLEAN /\ busy \in BOOLEAN
  /\ online \subseteq Hosts
  /\ chosen \in (SUBSET Hosts) \cup {NotChosen}
  /\ broadcast \in Broadcasts \cup {NoBroadcast}
  /\ lines \in 0..LineLimit
  /\ nextId \in 1..EntryLimit + 1
  /\ calls \subseteq [entry : 1..EntryLimit, command : Blocks]
  /\ aiBudget \in 0..AiPerHour

\* The assistant's page is busy while a question is answered; the command console
\* while its one call is under way, and then has room for the entry of the answer.
PageState ==
  /\ question.text \in Seq(Blocks)
  /\ question = NoQuestion <=> question.reply = 0
  /\ question.at \in {"none", "route", "stream"}
  /\ console = "ai" => busy = (question # NoQuestion)
  /\ console # "ai" => /\ question = NoQuestion
                       /\ \A c, d \in calls : c = d
                       /\ calls # {} => busy = TRUE /\ nextId <= EntryLimit
  /\ console = "none" => entries = <<>> /\ calls = {} /\ busy = FALSE

QuestionShape ==
  question = [reply |-> question.reply, turns |-> question.turns,
              scope |-> question.scope, at |-> question.at, text |-> question.text]

OnScreen == Scrollback(entries, proposals, nextId, question.reply, calls, console)

\* What the two pages maintain.
ConsolesInv == PageTypes /\ PageState /\ QuestionShape /\ OnScreen

LEMMA ConsoleLimits ==
  /\ LineLimit \in Nat /\ EntryLimit \in Nat /\ EntryLimit > 0
  /\ BlockLimit \in Nat /\ AiPerHour \in Nat
  BY ConsolesAssumption

LEMMA ConsolesInvImplies ==
  ASSUME ConsolesInv
  PROVE  ConsolesTypeOK /\ NumbersMeanWhatIsShown
  <1>1. /\ entries \in Seq(Shown) /\ proposals \in Seq(Blocks) /\ nextId \in Nat
        /\ \A i \in 1..Len(entries) : entries[i].id \in 1..nextId - 1
        /\ \A i, j \in 1..Len(entries) : entries[i].id = entries[j].id => i = j
        /\ \A i \in 1..Len(entries) :
              ReplyMeans(entries[i], proposals) /\ RunMeans(entries[i], proposals, console)
    BY DEF ConsolesInv, OnScreen, Scrollback
  <1>2. ConsolesTypeOK
    <2>1. \A i \in 1..Len(entries) : entries[i].kind \in {"prompt", "reply", "run"}
      BY <1>1 DEF Shown, Prompts, Replies, Runs
    <2>2. \A i \in 1..Len(entries) : /\ entries[i].id < nextId
                                    /\ \A j \in 1..i - 1 : entries[j].id # entries[i].id
      BY <1>1
    <2>3. \A n \in 1..Len(proposals) : proposals[n] \in Blocks
      BY <1>1
    <2> QED BY <2>1, <2>2, <2>3 DEF ConsolesInv, PageTypes, PageState, ConsolesTypeOK
  <1>3. NumbersMeanWhatIsShown
    BY <1>1 DEF NumbersMeanWhatIsShown, ReplyMeans, RunMeans
  <1> QED BY <1>2, <1>3

LEMMA ConsolesStart == ConsolesInit => ConsolesInv
  <1> SUFFICES ASSUME ConsolesInit PROVE ConsolesInv
    OBVIOUS
  <1>1. PageTypes
    <2>1. lines \in 0..LineLimit /\ nextId \in 1..EntryLimit + 1 /\ aiBudget \in 0..AiPerHour
      BY ConsoleLimits DEF ConsolesInit
    <2> QED BY <2>1 DEF ConsolesInit, PageTypes
  <1>2. PageState /\ QuestionShape
    BY DEF ConsolesInit, PageState, QuestionShape, NoQuestion
  <1>3. OnScreen
    <2>1. <<>> \in Seq(Shown) /\ <<>> \in Seq(Blocks) /\ question.reply = 0
      BY DEF ConsolesInit, NoQuestion
    <2> QED BY <2>1 DEF ConsolesInit, OnScreen, Scrollback
  <1> QED BY <1>1, <1>2, <1>3 DEF ConsolesInv

LEMMA LoadConsoleSafe ==
  ASSUME ConsolesInv, LoadConsole
  PROVE  ConsolesInv'
  <1>1. PageTypes'
    BY DEF ConsolesInv, PageTypes, LoadConsole, targetVars
  <1>2. PageState'
    BY DEF ConsolesInv, PageState, LoadConsole
  <1>3. QuestionShape'
    BY DEF ConsolesInv, QuestionShape, LoadConsole
  <1>4. OnScreen'
    <2>1. entries' = <<>> /\ calls' = {} /\ UNCHANGED <<proposals, nextId, question>>
      BY DEF ConsolesInv, PageState, LoadConsole
    <2> QED BY <2>1 DEF ConsolesInv, OnScreen, Scrollback
  <1> QED BY <1>1, <1>2, <1>3, <1>4 DEF ConsolesInv

\* The targets.
LEMMA ChosenHostsTyped ==
  ASSUME ConsolesInv
  PROVE  ChosenHosts \subseteq Hosts /\ online \subseteq Hosts
  BY DEF ConsolesInv, PageTypes, ChosenHosts

LEMMA TargetsTyped ==
  ASSUME ConsolesInv,
         \/ \E S \in SUBSET Hosts : SelectHosts(S)
         \/ \E g \in Broadcasts : SelectGroup(g)
         \/ \E g \in Broadcasts : PressGroup(g)
         \/ \E d \in Hosts : PressHost(d)
         \/ UseLine
  PROVE  chosen' \in (SUBSET Hosts) \cup {NotChosen} /\ broadcast' \in Broadcasts \cup {NoBroadcast}
  <1>1. chosen \in (SUBSET Hosts) \cup {NotChosen} /\ broadcast \in Broadcasts \cup {NoBroadcast}
    BY DEF ConsolesInv, PageTypes
  <1>2. CASE \E S \in SUBSET Hosts : SelectHosts(S)
    BY <1>2 DEF SelectHosts
  <1>3. CASE \E g \in Broadcasts : SelectGroup(g)
    BY <1>3 DEF SelectGroup
  <1>4. CASE \E g \in Broadcasts : PressGroup(g)
    BY <1>4 DEF PressGroup
  <1>5. CASE \E d \in Hosts : PressHost(d)
    BY <1>1, <1>5, ChosenHostsTyped DEF PressHost
  <1>6. CASE UseLine
    BY <1>1, <1>6, ChosenHostsTyped DEF UseLine, SelectHosts, SelectGroup, targetVars
  <1> QED BY <1>2, <1>3, <1>4, <1>5, <1>6

LEMMA PickerSafe ==
  ASSUME ConsolesInv, CommandPicker \/ AiPicker
  PROVE  ConsolesInv'
  <1>1. UNCHANGED <<console, canExecute, lines, busy, entries, nextId, proposals, calls,
                    question, online, aiBudget>>
    BY DEF CommandPicker, AiPicker, serverVars
  <1>2. \/ \E S \in SUBSET Hosts : SelectHosts(S)
        \/ \E g \in Broadcasts : PressGroup(g)
        \/ \E d \in Hosts : PressHost(d)
    BY ChosenHostsTyped DEF CommandPicker, AiPicker
  <1>3. PageTypes'
    BY <1>1, <1>2, TargetsTyped DEF ConsolesInv, PageTypes
  <1> QED BY <1>1, <1>3 DEF ConsolesInv, PageState, QuestionShape, OnScreen

LEMMA ClearOutputSafe ==
  ASSUME ConsolesInv, ClearOutput
  PROVE  ConsolesInv'
  <1>1. OnScreen'
    BY ScrollbackCleared DEF ConsolesInv, OnScreen, ClearOutput
  <1> QED BY <1>1 DEF ConsolesInv, PageTypes, PageState, QuestionShape, ClearOutput, targetVars,
                      serverVars

LEMMA ServerMovesSafe ==
  ASSUME ConsolesInv, ServerMoves
  PROVE  ConsolesInv'
  <1>1. PageTypes'
    BY ConsoleLimits DEF ConsolesInv, PageTypes, ServerMoves, targetVars
  <1> QED BY <1>1 DEF ConsolesInv, PageState, QuestionShape, OnScreen, ServerMoves

-----------------------------------------------------------------------------
(* The command console. *)

LEMMA CommandBuiltinSafe ==
  ASSUME ConsolesInv, CommandBuiltin
  PROVE  ConsolesInv'
  <1>1. /\ UNCHANGED <<console, canExecute, busy, nextId, proposals, calls, question, online, aiBudget>>
        /\ console = "command" /\ lines < LineLimit /\ lines' = lines + 1
        /\ entries' = <<>> \/ entries' = entries
        /\ UseLine \/ UNCHANGED targetVars
    BY DEF CommandBuiltin, Enter, serverVars
  <1>2. PageTypes'
    <2>1. chosen' \in (SUBSET Hosts) \cup {NotChosen} /\ broadcast' \in Broadcasts \cup {NoBroadcast}
      BY <1>1, TargetsTyped DEF ConsolesInv, PageTypes, targetVars
    <2> QED BY <1>1, <2>1, ConsoleLimits DEF ConsolesInv, PageTypes
  <1>3. OnScreen'
    BY <1>1, ScrollbackCleared DEF ConsolesInv, OnScreen
  <1> QED BY <1>1, <1>2, <1>3 DEF ConsolesInv, PageState, QuestionShape

LEMMA SubmitSafe ==
  ASSUME ConsolesInv, NEW c \in ShellCommands, Submit(c)
  PROVE  ConsolesInv'
  <1> DEFINE call == [entry |-> nextId, command |-> [content |-> c, whole |-> TRUE]]
  <1>1. /\ UNCHANGED <<console, canExecute, targetVars, entries, nextId, proposals, question,
                       online, aiBudget>>
        /\ console = "command" /\ lines < LineLimit /\ lines' = lines + 1 /\ ~busy
        /\ nextId <= EntryLimit /\ busy' = TRUE /\ calls' = calls \cup {call}
    BY DEF Submit, Enter, serverVars
  <1>2. calls = {}
    BY <1>1 DEF ConsolesInv, PageState
  <1>3. call \in [entry : 1..EntryLimit, command : Blocks]
    BY <1>1, ConsoleLimits DEF ConsolesInv, PageTypes, Blocks
  <1> HIDE DEF call
  <1>4. PageTypes'
    BY <1>1, <1>2, <1>3, ConsoleLimits DEF ConsolesInv, PageTypes, targetVars
  <1>5. PageState'
    BY <1>1, <1>2 DEF ConsolesInv, PageState
  <1>6. OnScreen'
    BY <1>1, ScrollbackCalls DEF ConsolesInv, OnScreen
  <1> QED BY <1>1, <1>4, <1>5, <1>6 DEF ConsolesInv, QuestionShape

LEMMA SubmitAnsweredSafe ==
  ASSUME ConsolesInv, NEW call \in calls, NEW answer \in {"dispatched", "refused"},
         SubmitAnswered(call, answer)
  PROVE  ConsolesInv'
  <1> DEFINE e == RunEntry(nextId, 0, call.command, answer)
  <1>1. /\ UNCHANGED <<console, canExecute, targetVars, lines, proposals, question, online, aiBudget>>
        /\ console = "command" /\ calls' = calls \ {call} /\ busy' = FALSE
        /\ nextId' = nextId + 1 /\ entries' = Append(entries, e)
    BY DEF SubmitAnswered, serverVars
  <1>2. calls' = {} /\ nextId <= EntryLimit
    BY <1>1 DEF ConsolesInv, PageState
  <1>3. PageTypes'
    <2>1. nextId' \in 1..EntryLimit + 1
      BY <1>1, <1>2, ConsoleLimits DEF ConsolesInv, PageTypes
    <2>2. calls' \subseteq [entry : 1..EntryLimit, command : Blocks] /\ busy' \in BOOLEAN
      BY <1>1, <1>2
    <2> QED BY <1>1, <2>1, <2>2 DEF ConsolesInv, PageTypes, targetVars
  <1>4. PageState'
    BY <1>1, <1>2 DEF ConsolesInv, PageState
  <1>5. OnScreen'
    <2>1. /\ e \in Shown /\ e.id = nextId /\ ReplyMeans(e, proposals) /\ RunMeans(e, proposals, console)
          /\ nextId > 0
      <3>1. call.command \in Blocks /\ nextId \in Nat /\ nextId > 0
        BY ConsoleLimits DEF ConsolesInv, PageTypes
      <3> QED BY <1>1, <3>1 DEF RunEntry, Shown, Runs, ReplyMeans, RunMeans
    <2> HIDE DEF e
    <2>2. Scrollback(entries', proposals, nextId', question.reply, calls, console)
      BY <1>1, <2>1, ScrollbackAppended DEF ConsolesInv, OnScreen
    <2>3. Scrollback(entries', proposals, nextId', question.reply, calls', console)
      BY <1>1, <2>2, ScrollbackCalls
    <2> QED BY <1>1, <2>3 DEF OnScreen
  <1> QED BY <1>1, <1>3, <1>4, <1>5 DEF ConsolesInv, QuestionShape

\* A call whose answer is lost, of either page.
LEMMA CallLostSafe ==
  ASSUME ConsolesInv, NEW call \in calls, SubmitLost(call) \/ RunLost(call)
  PROVE  ConsolesInv'
  <1>1. /\ UNCHANGED <<console, canExecute, targetVars, lines, busy, entries, nextId, proposals,
                       question, online, aiBudget>>
        /\ calls' = calls \ {call}
    BY DEF SubmitLost, RunLost, serverVars
  <1>2. PageTypes' /\ PageState'
    BY <1>1 DEF ConsolesInv, PageTypes, PageState, targetVars
  <1>3. OnScreen'
    BY <1>1, ScrollbackCalls DEF ConsolesInv, OnScreen
  <1> QED BY <1>1, <1>2, <1>3 DEF ConsolesInv, QuestionShape

-----------------------------------------------------------------------------
(* The console of the assistant. *)

LEMMA PromptAppended ==
  ASSUME ConsolesInv, console = "ai"
  PROVE  Scrollback(Append(entries, PromptEntry(nextId)), proposals, nextId + 1,
                    question.reply, calls, console)
  <1> DEFINE e == PromptEntry(nextId)
  <1>1. /\ e \in Shown /\ e.id = nextId /\ ReplyMeans(e, proposals) /\ RunMeans(e, proposals, console)
        /\ nextId > 0
    <2>1. nextId \in Nat /\ nextId > 0
      BY ConsoleLimits DEF ConsolesInv, PageTypes
    <2> QED BY <2>1 DEF PromptEntry, Shown, Prompts, ReplyMeans, RunMeans
  <1> HIDE DEF e
  <1>2. Scrollback(Append(entries, e), proposals, nextId + 1, question.reply, calls, console)
    BY <1>1, ScrollbackAppended DEF ConsolesInv, OnScreen
  <1> QED BY <1>2 DEF e

\* Whatever proposal is run, the entry shows the command of its number.
LEMMA RunProposalSafe ==
  ASSUME ConsolesInv, console = "ai", NEW screen, NEW id \in 1..EntryLimit,
         Scrollback(screen, proposals, id, question.reply, calls, console),
         NEW n, RunProposal(n, screen, id)
  PROVE  /\ Scrollback(entries', proposals, nextId', question.reply, calls', console)
         /\ nextId' \in 1..EntryLimit + 1
         /\ calls' \subseteq [entry : 1..EntryLimit, command : Blocks]
  <1>1. proposals \in Seq(Blocks) /\ calls \subseteq [entry : 1..EntryLimit, command : Blocks]
    BY DEF ConsolesInv, PageTypes, OnScreen, Scrollback
  <1>2. CASE UNCHANGED calls /\ entries' = screen /\ nextId' = id
    BY <1>1, <1>2, ConsoleLimits
  <1> DEFINE e == RunEntry(id, n, proposals[n], "waits")
             call == [entry |-> id, command |-> proposals[n]]
  <1>3. CASE /\ n \in 1..Len(proposals)
             /\ entries' = Append(screen, e)
             /\ calls' = calls \cup {call}
             /\ nextId' = id + 1
    <2>1. proposals[n] \in Blocks /\ n \in Nat
      BY <1>1, <1>3
    <2>2. /\ e \in Shown /\ e.id = id /\ e.kind = "run" /\ ReplyMeans(e, proposals)
          /\ RunMeans(e, proposals, console) /\ id > 0
      BY <1>3, <2>1 DEF RunEntry, Shown, Runs, ReplyMeans, RunMeans
    <2>3. call.entry = id /\ call \in [entry : 1..EntryLimit, command : Blocks]
      BY <2>1
    <2> HIDE DEF e, call
    <2>4. Scrollback(entries', proposals, nextId', question.reply, calls, console)
      BY <1>3, <2>2, ScrollbackAppended
    <2>5. \A i \in 1..Len(entries') : entries'[i].id = id => entries'[i].kind = "run"
      <3>1. /\ screen \in Seq(Shown)
            /\ \A i \in 1..Len(screen) : screen[i].id \in 1..id - 1
        BY DEF Scrollback
      <3>2. /\ Len(entries') = Len(screen) + 1 /\ Len(screen) \in Nat
            /\ \A i \in 1..Len(screen) : entries'[i] = screen[i]
            /\ entries'[Len(screen) + 1] = e
        BY <1>3, <2>2, <3>1
      <3>3. \A i \in 1..Len(screen) : screen[i].id # id
        BY <3>1
      <3>4. \A i \in 1..Len(entries') : i \in 1..Len(screen) \/ i = Len(screen) + 1
        BY <3>2
      <3> QED BY <2>2, <3>2, <3>3, <3>4
    <2>6. Scrollback(entries', proposals, nextId', question.reply, calls', console)
      <3>1. \A d \in calls' \ calls :
              /\ d.entry \in 1..nextId' - 1
              /\ \A i \in 1..Len(entries') : entries'[i].id = d.entry => entries'[i].kind = "run"
        BY <1>3, <2>3, <2>5
      <3> QED BY <2>4, <3>1, ScrollbackCalls
    <2> QED BY <1>1, <1>3, <2>3, <2>6, ConsoleLimits
  <1> QED BY <1>2, <1>3 DEF RunProposal

\* The steps that end with what RunProposalSafe gives.
LEMMA RunsSafe ==
  ASSUME ConsolesInv, console = "ai",
         UNCHANGED <<console, canExecute, busy, proposals, question, online, aiBudget>>,
         lines' \in 0..LineLimit,
         chosen' \in (SUBSET Hosts) \cup {NotChosen}, broadcast' \in Broadcasts \cup {NoBroadcast},
         Scrollback(entries', proposals, nextId', question.reply, calls', console),
         nextId' \in 1..EntryLimit + 1,
         calls' \subseteq [entry : 1..EntryLimit, command : Blocks]
  PROVE  ConsolesInv'
  <1>1. PageTypes'
    BY DEF ConsolesInv, PageTypes
  <1>2. PageState'
    BY DEF ConsolesInv, PageState
  <1>3. OnScreen'
    BY DEF OnScreen
  <1> QED BY <1>1, <1>2, <1>3 DEF ConsolesInv, QuestionShape

LEMMA AiBuiltinSafe ==
  ASSUME ConsolesInv, AiBuiltin
  PROVE  ConsolesInv'
  <1>1. /\ UNCHANGED <<console, canExecute, busy, proposals, question, online, aiBudget>>
        /\ console = "ai" /\ nextId < EntryLimit /\ lines < LineLimit /\ lines' = lines + 1
        /\ nextId \in 1..EntryLimit + 1 /\ calls \subseteq [entry : 1..EntryLimit, command : Blocks]
    BY DEF AiBuiltin, Enter, serverVars, ConsolesInv, PageTypes
  <1>2. lines' \in 0..LineLimit
    BY <1>1, ConsoleLimits DEF ConsolesInv, PageTypes
  <1>3. chosen' \in (SUBSET Hosts) \cup {NotChosen} /\ broadcast' \in Broadcasts \cup {NoBroadcast}
    <2>1. UseLine \/ UNCHANGED targetVars
      BY DEF AiBuiltin
    <2> QED BY <2>1, TargetsTyped DEF ConsolesInv, PageTypes, targetVars
  <1>4. CASE entries' = <<>> /\ UNCHANGED <<nextId, calls>>
    <2>1. Scrollback(entries', proposals, nextId', question.reply, calls', console)
      BY <1>4, ScrollbackCleared DEF ConsolesInv, OnScreen
    <2> QED BY <1>1, <1>2, <1>3, <1>4, <2>1, RunsSafe
  <1>5. CASE /\ entries' = Append(entries, PromptEntry(nextId))
             /\ nextId' = nextId + 1
             /\ UNCHANGED calls
    <2>1. Scrollback(entries', proposals, nextId', question.reply, calls', console)
      BY <1>1, <1>5, PromptAppended
    <2>2. nextId' \in 1..EntryLimit + 1
      BY <1>1, <1>5, ConsoleLimits
    <2> QED BY <1>1, <1>2, <1>3, <1>5, <2>1, <2>2, RunsSafe
  <1>6. CASE \E n \in 1..Len(proposals) + 1 :
               RunProposal(n, Append(entries, PromptEntry(nextId)), nextId + 1)
    <2>1. PICK n \in 1..Len(proposals) + 1 :
                 RunProposal(n, Append(entries, PromptEntry(nextId)), nextId + 1)
      BY <1>6
    <2>2. nextId + 1 \in 1..EntryLimit
      BY <1>1, ConsoleLimits
    <2>3. /\ Scrollback(entries', proposals, nextId', question.reply, calls', console)
          /\ nextId' \in 1..EntryLimit + 1
          /\ calls' \subseteq [entry : 1..EntryLimit, command : Blocks]
      BY <1>1, <2>1, <2>2, PromptAppended, RunProposalSafe
    <2> QED BY <1>1, <1>2, <1>3, <2>3, RunsSafe
  <1> QED BY <1>4, <1>5, <1>6 DEF AiBuiltin

LEMMA PressRunSafe ==
  ASSUME ConsolesInv, NEW n, PressRun(n)
  PROVE  ConsolesInv'
  <1>1. /\ UNCHANGED <<console, canExecute, lines, targetVars, busy, proposals, question, online, aiBudget>>
        /\ console = "ai" /\ nextId <= EntryLimit /\ RunProposal(n, entries, nextId)
    BY DEF PressRun, serverVars
  <1>2. /\ nextId \in 1..EntryLimit /\ lines' \in 0..LineLimit
        /\ chosen' \in (SUBSET Hosts) \cup {NotChosen}
        /\ broadcast' \in Broadcasts \cup {NoBroadcast}
    BY <1>1, ConsoleLimits DEF ConsolesInv, PageTypes, targetVars
  <1>3. Scrollback(entries, proposals, nextId, question.reply, calls, console)
    BY DEF ConsolesInv, OnScreen
  <1>4. /\ Scrollback(entries', proposals, nextId', question.reply, calls', console)
        /\ nextId' \in 1..EntryLimit + 1
        /\ calls' \subseteq [entry : 1..EntryLimit, command : Blocks]
    BY <1>1, <1>2, <1>3, RunProposalSafe
  <1> QED BY <1>1, <1>2, <1>4, RunsSafe

LEMMA RunAnsweredSafe ==
  ASSUME ConsolesInv, NEW call \in calls, NEW answer \in {"dispatched", "refused"},
         RunAnswered(call, answer)
  PROVE  ConsolesInv'
  <1>1. /\ UNCHANGED <<console, canExecute, lines, targetVars, busy, nextId, proposals, question,
                       online, aiBudget>>
        /\ console = "ai" /\ calls' = calls \ {call}
        /\ entries' = Updated(call.entry, "outcome", answer)
    BY DEF RunAnswered, serverVars
  <1>2. /\ nextId' \in 1..EntryLimit + 1 /\ lines' \in 0..LineLimit
        /\ chosen' \in (SUBSET Hosts) \cup {NotChosen}
        /\ broadcast' \in Broadcasts \cup {NoBroadcast}
        /\ calls' \subseteq [entry : 1..EntryLimit, command : Blocks]
    BY <1>1 DEF ConsolesInv, PageTypes, targetVars
  <1>3. Scrollback(entries', proposals, nextId', question.reply, calls, console)
    BY <1>1, RunUpdated DEF ConsolesInv, OnScreen
  <1>4. Scrollback(entries', proposals, nextId', question.reply, calls', console)
    BY <1>1, <1>3, ScrollbackCalls
  <1> QED BY <1>1, <1>2, <1>4, RunsSafe

-----------------------------------------------------------------------------
(* Questions. *)

LEMMA AskAssistantSafe ==
  ASSUME ConsolesInv, AskAssistant
  PROVE  ConsolesInv'
  <1> DEFINE e == PromptEntry(nextId)
             f == ReplyEntry(nextId + 1)
  <1>1. /\ UNCHANGED <<console, canExecute, targetVars, proposals, calls, online, aiBudget>>
        /\ console = "ai" /\ ~busy /\ nextId < EntryLimit /\ lines < LineLimit /\ lines' = lines + 1
        /\ entries' = entries \o <<e, f>>
        /\ nextId' = nextId + 2 /\ busy' = TRUE
        /\ question' = [reply |-> nextId + 1, turns |-> Append(PriorTurns, 1),
                        scope |-> AiSelected, at |-> "route", text |-> <<>>]
    BY DEF AskAssistant, Enter, serverVars
  <1>2. nextId \in Nat /\ nextId > 0
    BY ConsoleLimits DEF ConsolesInv, PageTypes
  <1>3. /\ question'.reply = nextId + 1 /\ question'.text = <<>> /\ question'.at = "route"
        /\ QuestionShape'
    BY <1>1 DEF QuestionShape
  <1>4. PageTypes'
    <2>1. nextId' \in 1..EntryLimit + 1 /\ lines' \in 0..LineLimit
      BY <1>1, <1>2, ConsoleLimits DEF ConsolesInv, PageTypes
    <2> QED BY <1>1, <2>1 DEF ConsolesInv, PageTypes, targetVars
  <1>5. PageState'
    <2>1. question' # NoQuestion /\ question'.reply # 0
      BY <1>2, <1>3 DEF NoQuestion
    <2>2. busy' = (question' # NoQuestion)
      BY <1>1, <2>1
    <2>3. question'.text \in Seq(Blocks) /\ question'.at \in {"none", "route", "stream"}
      BY <1>3
    <2> QED BY <1>1, <2>1, <2>2, <2>3, Zenon DEF PageState
  <1>6. OnScreen'
    <2>1. question.reply = 0
      BY <1>1 DEF ConsolesInv, PageState
    <2> DEFINE es == Append(entries, e)
               fs == Append(es, f)
    <2>2. Scrollback(es, proposals, nextId + 1, 0, calls, console)
      BY <1>1, <2>1, PromptAppended
    <2>3. /\ f \in Shown /\ f.id = nextId + 1 /\ f.kind = "reply" /\ f.numbers = <<>>
          /\ ReplyMeans(f, proposals) /\ RunMeans(f, proposals, console)
      BY <1>2 DEF ReplyEntry, Shown, Replies, ReplyMeans, RunMeans
    <2> HIDE DEF f, es
    <2>4. Scrollback(fs, proposals, nextId + 1 + 1, 0, calls, console)
      BY <1>2, <2>2, <2>3, ScrollbackAppended
    <2>5. nextId + 1 + 1 = nextId + 2 /\ nextId + 1 \in Nat /\ nextId + 1 < nextId + 2
      BY <1>2
    <2>6. \A i \in 1..Len(fs) : Unanswered(fs[i], nextId + 1)
      <3>1. es \in Seq(Shown) /\ \A i \in 1..Len(es) : es[i].id \in 1..(nextId + 1) - 1
        BY <2>2 DEF Scrollback
      <3>2. /\ Len(fs) = Len(es) + 1 /\ Len(es) \in Nat
            /\ \A i \in 1..Len(es) : fs[i] = es[i]
            /\ fs[Len(es) + 1] = f
        BY <2>3, <3>1
      <3>3. \A i \in 1..Len(es) : es[i].id # nextId + 1
        BY <1>2, <3>1
      <3>4. \A i \in 1..Len(fs) : i \in 1..Len(es) \/ i = Len(es) + 1
        BY <3>2
      <3> QED BY <2>3, <3>2, <3>3, <3>4 DEF Unanswered
    <2>7. Scrollback(fs, proposals, nextId + 2, nextId + 1, calls, console)
      <3>1. Scrollback(fs, proposals, nextId + 2, 0, calls, console)
        BY <2>4, <2>5, Zenon
      <3> HIDE DEF fs
      <3> QED BY <2>5, <2>6, <3>1, ScrollbackAsked
    <2>8. entries' = fs
      <3>1. entries \in Seq(Shown) /\ e \in Shown
        BY <1>2 DEF ConsolesInv, OnScreen, Scrollback, PromptEntry, Shown, Prompts
      <3> HIDE DEF e
      <3>2. entries \o <<e, f>> = Append(Append(entries, e), f)
        BY <2>3, <3>1
      <3> QED BY <1>1, <3>2 DEF es, e, f
    <2> QED BY <1>1, <1>3, <2>7, <2>8 DEF OnScreen
  <1> QED BY <1>3, <1>4, <1>5, <1>6 DEF ConsolesInv

LEMMA AcceptQuestionSafe ==
  ASSUME ConsolesInv, AcceptQuestion
  PROVE  ConsolesInv'
  <1>1. /\ UNCHANGED <<console, canExecute, targetVars, lines, busy, entries, nextId, proposals,
                       calls, online>>
        /\ question # NoQuestion /\ aiBudget > 0 /\ aiBudget' = aiBudget - 1
    BY DEF AcceptQuestion
  <1>2. PICK turns, scope :
               question' = [question EXCEPT !.at = "stream", !.turns = turns, !.scope = scope]
    BY DEF AcceptQuestion
  <1>3. QuestionShape /\ question.text \in Seq(Blocks) /\ question.reply # 0
    BY <1>1 DEF ConsolesInv, PageState
  <1>4. /\ question'.reply = question.reply /\ question'.text = question.text
        /\ question'.at = "stream" /\ QuestionShape'
    BY <1>2, <1>3 DEF QuestionShape
  <1>5. question' # NoQuestion
    BY <1>3, <1>4 DEF NoQuestion
  <1>6. PageTypes'
    BY <1>1, ConsoleLimits DEF ConsolesInv, PageTypes, targetVars
  <1>7. PageState'
    BY <1>1, <1>3, <1>4, <1>5 DEF ConsolesInv, PageState
  <1>8. OnScreen'
    BY <1>1, <1>4 DEF ConsolesInv, OnScreen
  <1> QED BY <1>4, <1>6, <1>7, <1>8 DEF ConsolesInv

\* A question ends with what is then on the screen.
LEMMA FinishSafe ==
  ASSUME ConsolesInv, question # NoQuestion, NEW screen, Finish(screen),
         Scrollback(screen, proposals', nextId, 0, calls, console)
  PROVE  ConsolesInv'
  <1>1. /\ UNCHANGED <<console, canExecute, targetVars, lines, nextId, calls, online, aiBudget>>
        /\ entries' = screen /\ busy' = FALSE /\ question' = NoQuestion
    BY DEF Finish, serverVars
  <1>2. console = "ai"
    BY DEF ConsolesInv, PageState
  <1>3. question'.reply = 0 /\ question'.text = <<>> /\ question'.at = "none"
    BY <1>1 DEF NoQuestion
  <1>4. QuestionShape'
    BY <1>1 DEF QuestionShape, NoQuestion
  <1>5. PageTypes'
    BY <1>1 DEF ConsolesInv, PageTypes, targetVars
  <1>6. PageState'
    <2>1. question'.text \in Seq(Blocks) /\ question'.at \in {"none", "route", "stream"}
      BY <1>3
    <2>2. console' = "ai" /\ busy' = (question' # NoQuestion)
      BY <1>1, <1>2
    <2> QED BY <1>1, <1>3, <2>1, <2>2, Zenon DEF PageState
  <1>7. OnScreen'
    BY <1>1, <1>3 DEF OnScreen
  <1> QED BY <1>4, <1>5, <1>6, <1>7 DEF ConsolesInv

LEMMA QuestionFailsSafe ==
  ASSUME ConsolesInv, QuestionFails
  PROVE  ConsolesInv'
  <1> DEFINE screen == Updated(question.reply, "error", TRUE)
  <1>1. question # NoQuestion /\ Finish(screen) /\ UNCHANGED proposals
    BY DEF QuestionFails
  <1>2. Scrollback(screen, proposals, nextId, question.reply, calls, console)
    BY ReplyUpdated DEF ConsolesInv, OnScreen
  <1>3. Scrollback(screen, proposals, nextId, 0, calls, console)
    <2>1. nextId \in Nat /\ 0 < nextId
      BY ConsoleLimits DEF ConsolesInv, PageTypes
    <2>2. \A i \in 1..Len(screen) : Unanswered(screen[i], 0)
      <3> HIDE DEF screen
      <3>1. \A i \in 1..Len(screen) : screen[i].id \in 1..nextId - 1
        BY <1>2 DEF Scrollback
      <3> QED BY <2>1, <3>1 DEF Unanswered
    <2> HIDE DEF screen
    <2> QED BY <1>2, <2>1, <2>2, ScrollbackAsked
  <1> HIDE DEF screen
  <1> QED BY <1>1, <1>3, FinishSafe

LEMMA GrownTyped ==
  ASSUME NEW text \in Seq(Blocks)
  PROVE  Grown(text) \subseteq Seq(Blocks) /\ WithProse(text) \in Seq(Blocks)
  <1>1. WithProse(text) \in Seq(Blocks)
    BY DEF WithProse, Blocks
  <1>2. ASSUME IsOpen(text)
        PROVE  [text EXCEPT ![Len(text)].whole = TRUE] \in Seq(Blocks)
    <2>1. Len(text) \in 1..Len(text)
      BY <1>2 DEF IsOpen
    <2>2. text[Len(text)] \in Blocks
      BY <2>1
    <2>3. [text[Len(text)] EXCEPT !.whole = TRUE] \in Blocks
      BY <2>2 DEF Blocks
    <2> QED BY <2>1, <2>3
  <1>3. ASSUME NEW c \in ShellCommands
        PROVE  Append(text, [content |-> c, whole |-> FALSE]) \in Seq(Blocks)
    BY DEF Blocks
  <1> QED BY <1>1, <1>2, <1>3 DEF Grown

LEMMA ReplyGrowsSafe ==
  ASSUME ConsolesInv, ReplyGrows
  PROVE  ConsolesInv'
  <1>1. PICK text \in Grown(question.text) :
               /\ question' = [question EXCEPT !.text = text]
               /\ entries' = Updated(question.reply, "text", text)
    BY DEF ReplyGrows
  <1>2. /\ UNCHANGED <<console, canExecute, targetVars, lines, busy, nextId, proposals, calls,
                       online, aiBudget>>
        /\ question # NoQuestion
    BY DEF ReplyGrows, serverVars
  <1>3. text \in Seq(Blocks)
    BY GrownTyped DEF ConsolesInv, PageState
  <1>4. QuestionShape /\ question.at \in {"none", "route", "stream"} /\ question.reply # 0
    BY <1>2 DEF ConsolesInv, PageState
  <1>5. /\ question'.reply = question.reply /\ question'.text = text
        /\ question'.at = question.at /\ QuestionShape'
    BY <1>1, <1>4 DEF QuestionShape
  <1>6. question' # NoQuestion
    BY <1>4, <1>5 DEF NoQuestion
  <1>7. PageTypes'
    BY <1>2 DEF ConsolesInv, PageTypes, targetVars
  <1>8. PageState'
    <2>1. console' = "ai" /\ busy = (question # NoQuestion)
      BY <1>2 DEF ConsolesInv, PageState
    <2>2. busy' = (question' # NoQuestion)
      BY <1>2, <1>6, <2>1
    <2>3. question'.text \in Seq(Blocks) /\ question'.at \in {"none", "route", "stream"}
      BY <1>3, <1>4, <1>5
    <2> QED BY <1>4, <1>5, <1>6, <2>1, <2>2, <2>3, Zenon DEF PageState
  <1>9. OnScreen'
    <2>1. Scrollback(entries, proposals, nextId, question.reply, calls, console)
      BY DEF ConsolesInv, OnScreen
    <2>2. Scrollback(Updated(question.reply, "text", text), proposals, nextId, question.reply,
                     calls, console)
      BY <1>3, <2>1, ReplyUpdated
    <2> QED BY <1>1, <1>2, <1>5, <2>2 DEF OnScreen
  <1> QED BY <1>5, <1>7, <1>8, <1>9 DEF ConsolesInv

LEMMA ReplyEndsSafe ==
  ASSUME ConsolesInv, ReplyEnds
  PROVE  ConsolesInv'
  <1>1. question # NoQuestion /\ console = "ai" /\ question.text \in Seq(Blocks)
    BY DEF ReplyEnds, ConsolesInv, PageState
  <1>2. ASSUME NEW screen, Scrollback(screen, proposals, nextId, question.reply, calls, console),
               Numbered(screen)
        PROVE  ConsolesInv'
    <2>1. Scrollback(WithNumbers(screen, Len(proposals) + 1), proposals', nextId, 0, calls, console)
      BY <1>1, <1>2, ScrollbackNumbered DEF Numbered
    <2> QED BY <1>1, <1>2, <2>1, FinishSafe DEF Numbered
  <1>3. CASE Numbered(entries)
    BY <1>2, <1>3 DEF ConsolesInv, OnScreen
  <1>4. CASE Numbered(Updated(question.reply, "text", WithProse(question.text)))
    <2>1. WithProse(question.text) \in Seq(Blocks)
      BY <1>1, GrownTyped
    <2>2. Scrollback(Updated(question.reply, "text", WithProse(question.text)), proposals, nextId,
                     question.reply, calls, console)
      <3>1. Scrollback(entries, proposals, nextId, question.reply, calls, console)
        BY DEF ConsolesInv, OnScreen
      <3> QED BY <2>1, <3>1, ReplyUpdated
    <2> QED BY <1>2, <1>4, <2>2
  <1> QED BY <1>3, <1>4 DEF ReplyEnds

LEMMA ConsolesStep ==
  ASSUME ConsolesInv, [ConsolesNext]_consoleVars
  PROVE  ConsolesInv'
  <1>1. CASE UNCHANGED consoleVars
    BY <1>1 DEF consoleVars, targetVars, serverVars, ConsolesInv, PageTypes, PageState,
                QuestionShape, OnScreen
  <1>2. CASE LoadConsole
    BY <1>2, LoadConsoleSafe
  <1>3. CASE CommandPicker \/ AiPicker
    BY <1>3, PickerSafe
  <1>4. CASE ClearOutput
    BY <1>4, ClearOutputSafe
  <1>5. CASE CommandBuiltin \/ AiBuiltin
    BY <1>5, CommandBuiltinSafe, AiBuiltinSafe
  <1>6. CASE AskAssistant \/ AcceptQuestion
    BY <1>6, AskAssistantSafe, AcceptQuestionSafe
  <1>7. CASE \E c \in ShellCommands : Submit(c)
    BY <1>7, SubmitSafe
  <1>8. CASE \E call \in calls, answer \in {"dispatched", "refused"} :
               SubmitAnswered(call, answer) \/ RunAnswered(call, answer)
    BY <1>8, SubmitAnsweredSafe, RunAnsweredSafe
  <1>9. CASE \E call \in calls : SubmitLost(call) \/ RunLost(call)
    BY <1>9, CallLostSafe
  <1>10. CASE \E n \in 1..Len(proposals) : PressRun(n)
    BY <1>10, PressRunSafe
  <1>11. CASE ReplyGrows \/ ReplyEnds \/ QuestionFails
    BY <1>11, ReplyGrowsSafe, ReplyEndsSafe, QuestionFailsSafe
  <1>12. CASE ServerMoves
    BY <1>12, ServerMovesSafe
  <1> QED BY <1>1, <1>2, <1>3, <1>4, <1>5, <1>6, <1>7, <1>8, <1>9, <1>10, <1>11, <1>12
          DEF ConsolesNext

LEMMA ConsolesInvHolds == ConsolesSpec => []ConsolesInv
  BY ConsolesStart, ConsolesStep, PTL DEF ConsolesSpec

\* The type invariant of the two consoles: entries keep the ids they were given, each
\* its own, although asking, running and clearing overlap.
THEOREM ConsolesTypeCorrect == ConsolesSpec => []ConsolesTypeOK
  BY ConsolesInvHolds, ConsolesInvImplies, PTL

\* "run n" and the button of a reply: for any replies, lines, targets and bounds, the
\* number shown beside a command is that of the command, for as long as it is shown.
THEOREM NumbersKeepTheirMeaning == ConsolesSpec => []NumbersMeanWhatIsShown
  BY ConsolesInvHolds, ConsolesInvImplies, PTL

\* A number is given once: it stands for the same command in every later step, also of
\* replies that come, are cleared or fail.
NumbersAreGivenOnce ==
  \A n \in 1..Len(proposals) : n \in 1..Len(proposals') /\ proposals'[n] = proposals[n]

LEMMA RepliedCommandsTyped ==
  ASSUME NEW screen \in Seq(Shown), \A i \in 1..Len(screen) : Unanswered(screen[i], question.reply)
  PROVE  RepliedCommands(screen) \in Seq(Blocks)
  <1> DEFINE places == {i \in 1..Len(screen) : screen[i].id = question.reply}
             place  == CHOOSE i \in places : TRUE
  <1>1. CASE places = {}
    BY <1>1 DEF RepliedCommands
  <1>2. CASE places # {}
    <2>1. place \in 1..Len(screen) /\ screen[place].id = question.reply
      BY <1>2
    <2>2. screen[place] \in Shown /\ screen[place].kind = "reply"
      BY <2>1 DEF Unanswered
    <2>3. screen[place].text \in Seq(Blocks)
      BY <2>2, KindsOfEntries DEF Replies
    <2> QED BY <1>2, <2>3, CommandBlocksTyped DEF RepliedCommands
  <1> QED BY <1>1, <1>2

\* However often the assistant is asked, "run n" runs what it would have run when n was
\* given. With NumbersKeepTheirMeaning: what was read beside the number.
THEOREM NumbersAreFinal == ConsolesSpec => [][NumbersAreGivenOnce]_consoleVars
  <1>1. ASSUME ConsolesInv, [ConsolesNext]_consoleVars
        PROVE  [NumbersAreGivenOnce]_consoleVars
    <2>1. proposals \in Seq(Blocks) /\ question.text \in Seq(Blocks)
      BY <1>1 DEF ConsolesInv, PageState, OnScreen, Scrollback
    <2>2. CASE UNCHANGED proposals
      BY <2>2 DEF NumbersAreGivenOnce
    <2>3. CASE ReplyEnds
      <3>1. ASSUME NEW screen, Scrollback(screen, proposals, nextId, question.reply, calls, console),
                   Numbered(screen)
            PROVE  NumbersAreGivenOnce
        <4>1. RepliedCommands(screen) \in Seq(Blocks)
          BY <3>1, RepliedCommandsTyped DEF Scrollback
        <4>2. proposals' = proposals \o RepliedCommands(screen)
          BY <3>1 DEF Numbered
        <4> QED BY <2>1, <4>1, <4>2 DEF NumbersAreGivenOnce
      <3>2. Scrollback(entries, proposals, nextId, question.reply, calls, console)
        BY <1>1 DEF ConsolesInv, OnScreen
      <3>3. Scrollback(Updated(question.reply, "text", WithProse(question.text)), proposals,
                       nextId, question.reply, calls, console)
        <4>1. WithProse(question.text) \in Seq(Blocks)
          BY <2>1, GrownTyped
        <4> QED BY <3>2, <4>1, ReplyUpdated
      <3> QED BY <2>3, <3>1, <3>2, <3>3 DEF ReplyEnds
    <2>4. UNCHANGED proposals \/ ReplyEnds
      BY <1>1 DEF ConsolesNext, consoleVars, targetVars, LoadConsole, CommandPicker, AiPicker,
         ClearOutput, CommandBuiltin, AiBuiltin, AskAssistant, Submit, SubmitAnswered,
         RunAnswered, SubmitLost, RunLost, PressRun, AcceptQuestion, ReplyGrows, QuestionFails,
         ServerMoves
    <2> QED BY <2>2, <2>3, <2>4
  <1> QED BY <1>1, ConsolesInvHolds, PTL DEF ConsolesSpec

\* The command console shows outcomes in the order of the lines, because it never has
\* two calls under way: while there is one, Enter is ignored.
OneLineAtATime ==
  console = "command" => /\ Cardinality(calls) <= 1
                         /\ calls # {} => busy

\* For any lines, lost calls and targets chosen meanwhile.
THEOREM LinesRunInOrder == ConsolesSpec => []OneLineAtATime
  <1>1. ConsolesInv => OneLineAtATime
    <2> SUFFICES ASSUME ConsolesInv, console = "command"
                 PROVE  Cardinality(calls) <= 1 /\ (calls # {} => busy)
      BY DEF OneLineAtATime
    <2>1. (\A c, d \in calls : c = d) /\ (calls # {} => busy)
      BY DEF ConsolesInv, PageState
    <2>2. CASE calls = {}
      BY <2>1, <2>2, FS_EmptySet
    <2>3. CASE calls # {}
      <3>1. PICK c \in calls : calls = {c}
        BY <2>1, <2>3
      <3> QED BY <2>1, <3>1, FS_Singleton
    <2> QED BY <2>2, <2>3
  <1> QED BY <1>1, ConsolesInvHolds, PTL

-----------------------------------------------------------------------------
(* The parts together. No part has a variable of another, so a step of the *)
(* whole is a step of one part and a stutter of all others, and a behaviour*)
(* of the whole is a behaviour of each part: what is proved of a part holds*)
(* of it wherever it runs.                                                 *)

LEMMA StepsOfParts ==
  ASSUME [PartsNext]_partsVars
  PROVE  /\ [TeamsNext]_teamsVars /\ [EnrollmentNext]_enrollmentVars
         /\ [SchedulesNext]_scheduleVars /\ [RetentionNext]_retentionVars
         /\ [BudgetNext]_budgetVars /\ [OutputNext]_outputVars
         /\ [EventStreamNext]_eventVars /\ [ConfigNext]_configVars
         /\ [SignInNext]_signInVars /\ [ConsolesNext]_consoleVars
         /\ [GroupsNext]_groupVars
         /\ part' = part
  BY DEF PartsNext, partsVars, TeamStep, CredentialStep, ScheduleStep, RetentionStep,
         BudgetStep, OutputStep, EventStep, ConfigStep, AccountStep, ConsoleStep,
         MembershipStep

LEMMA PartIsNamed == PartsSpec => [](part \in PartNames)
  <1>1. PartsInit => part \in PartNames
    BY DEF PartsInit
  <1>2. part \in PartNames /\ [PartsNext]_partsVars => (part \in PartNames)'
    BY StepsOfParts
  <1> QED BY <1>1, <1>2, PTL DEF PartsSpec

-----------------------------------------------------------------------------

\* Side by side, each part behaves as it is specified to alone: requests to the web
\* process, passes of the worker, goroutines of the agent and pages of the dashboard
\* that share no state do not disturb each other.
THEOREM SafetyPartsBehaveAsAlone ==
  PartsSpec => /\ TeamsSpec /\ EnrollmentSpec /\ SchedulesSpec /\ RetentionSpec
               /\ BudgetSpec /\ OutputSpec /\ EventStreamSpec /\ ConfigSpec
               /\ SignInSpec /\ ConsolesSpec /\ GroupsSpec
  <1>1. PartsInit => /\ TeamsInit /\ EnrollmentInit /\ SchedulesInit /\ RetentionInit
                     /\ BudgetInit /\ OutputInit /\ EventStreamInit /\ ConfigInit
                     /\ SignInInit /\ ConsolesInit /\ GroupsInit
    BY DEF PartsInit
  <1> QED BY <1>1, StepsOfParts, PTL
          DEF PartsSpec, TeamsSpec, EnrollmentSpec, SchedulesSpec, RetentionSpec, BudgetSpec,
              OutputSpec, EventStreamSpec, ConfigSpec, SignInSpec, ConsolesSpec, GroupsSpec

\* The type invariant of the whole.
THEOREM SafetyPartsTypeCorrect == PartsSpec => []PartsTypeOK
  <1> DEFINE Typed ==
        /\ part \in PartNames /\ TeamsTypeOK /\ EnrollmentTypeOK /\ SchedulesTypeOK
        /\ RetentionTypeOK /\ BudgetTypeOK /\ OutputTypeOK /\ EventStreamTypeOK
        /\ ConfigTypeOK /\ SignInTypeOK /\ ConsolesTypeOK /\ GroupsTypeOK
  <1>1. PartsSpec => []Typed
    BY PartIsNamed, SafetyPartsBehaveAsAlone, TeamsTypeCorrect, EnrollmentTypeCorrect,
       SchedulesTypeCorrect, RetentionTypeCorrect, BudgetTypeCorrect, OutputTypeCorrect,
       EventStreamTypeCorrect, ConfigTypeCorrect, SignInTypeCorrect, ConsolesTypeCorrect,
       GroupsTypeCorrect, PTL
  <1>2. Typed => PartsTypeOK
    BY DEF PartsTypeOK
  <1> QED BY <1>1, <1>2, PTL

\* What the whole promises of teams, credentials and schedules, in spite of whatever
\* the other parts do.
THEOREM RecordsAreKept ==
  PartsSpec => [](/\ ExactlyOneOwner /\ RolesAreOfTheTeam
                  /\ RevokedIsDead /\ HandedIsLive
                  /\ OvershootIsBounded /\ EnabledSecretIsScanned
                  /\ DispatchedOnce /\ DeletedGroupIsGone)
  BY SafetyPartsBehaveAsAlone, OneOwnerEver, OnlyRolesOfTheTeam, RevocationsHold, HandedOutWorks,
     OvershootBounded, NobodyLockedOut, OccurrencesRunOnce, DeletionIsFinal, PTL

\* And of what it shows and keeps: samples, budgets, output, subscriptions, the config
\* file, and the numbers of the assistant's commands.
THEOREM DataAreKept ==
  PartsSpec => /\ PrunedIsRolled
               /\ [](/\ AdmittedWithinBudget /\ EveryUnitOnce /\ CaptureIsHeadAndTail
                     /\ SubscribedAsCounted /\ WholeUnlessOverlapped
                     /\ NumbersMeanWhatIsShown)
  BY SafetyPartsBehaveAsAlone, OnlyRolledIsPruned, BudgetsAreKept, UnitsAreShownOnce, CaptureIsFaithful,
     SubscriptionsMatch, ConfigIsWhole, NumbersKeepTheirMeaning, PTL
=============================================================================
