------------------------ MODULE ParkingLedgerProofs ------------------------
(***************************************************************************)
(* For any number of plates, threads, pass events, charges and failing     *)
(* statements: the tables keep their types, no stored value leaves an      *)
(* account unaccounted for, the exit gate opens after the charge is        *)
(* recorded, and no vehicle is left in park_inner_cars by a request that   *)
(* did not fail.                                                           *)
(*                                                                         *)
(* The invariants speak of tables, but what keeps them is in the lists of  *)
(* statements that the threads have still to execute: the inductive        *)
(* invariant says of every such list that it is Good.                      *)
(***************************************************************************)
EXTENDS ParkingLedger, SequenceTheorems, FiniteSetTheorems, TLAPS

PassRecords ==
    [plate : Plates, carno : Plates, device : {"entrance", "exit"},
     direction : {"in", "out"}, fee : Nat]

(* Rows, quotes and statements about the pass events in D.                 *)
RowSet(D) ==
    [id : 1 .. MaxCharges, enter : D \cup {NoPass}, exit : D, charge : Nat,
     pay : {"stored", "other", "cash", "no_entry"}, payer : SUBSET Plates]
QuoteSet(D) ==
    [id : 0 .. MaxCharges, enter : D \cup {NoPass}, exit : D, require : Nat]
Stmts(D) ==
    [op : {"insert"}, row : RowSet(D)]
      \cup [op : {"delete"}, pass : D]
      \cup [op : {"delete_by_plate", "latest_charge"}, plate : Plates]
      \cup [op : {"update"}, plate : Plates, money : Nat]
      \cup [op : {"find_entry"}, exit : D, then : {"charge", "free", "free_closed"}]
      \cup [op : {"handle_charge"}, enter : D \cup {NoPass}, exit : D, plate : Plates,
            by : {"device", "match"}]
      \cup [op : {"notify_quote", "reply_quote", "reply_paid"}, quote : QuoteSet(D)]
      \cup [op : {"notify_unmatched", "open_or_throw"}, exit : D]
      \cup [op : {"notify_free"}, exit : D, auto : BOOLEAN]
      \cup [op : {"open"}, exit : D, why : {"charged", "unmatched"}]

(* A list of statements is good for the rows ch and the accounted money    *)
(* acc: every balance it writes is accounted for, at the latest by a row   *)
(* that it inserts before; every gate it opens is for an exit recorded, at *)
(* the latest by a row that it inserts before; every entry it records as   *)
(* charged is deleted after; and the query that always ends the handler is *)
(* its last statement.                                                     *)
UpdatesBacked(s, acc) ==
    \A i \in DOMAIN s : s[i].op = "update" =>
      \/ InitBalance[s[i].plate] - s[i].money <= acc[s[i].plate]
      \/ \E j \in 1 .. (i - 1) :
           /\ s[j].op = "insert" /\ s[i].plate \in s[j].row.payer
           /\ InitBalance[s[i].plate] - s[i].money <= acc[s[i].plate] + s[j].row.charge

Opens(st, x) ==
    \/ st.op = "open" /\ st.why = "charged" /\ x = st.exit
    \/ st.op \in {"open_or_throw", "notify_free"} /\ x = st.exit
    \/ st.op = "notify_quote" /\ st.quote.require = 0 /\ x = st.quote.exit
OpeningsRecorded(s, ch) ==
    \A i \in DOMAIN s : \A x \in 1 .. MaxPasses : Opens(s[i], x) =>
      \/ \E r \in ch : r.exit = x
      \/ \E j \in 1 .. (i - 1) : s[j].op = "insert" /\ s[j].row.exit = x

Removes(st, e) == st.op = "delete" /\ st.pass = e
EntriesLeave(s) ==
    \A i \in DOMAIN s :
      (s[i].op = "insert" /\ s[i].row.enter # NoPass /\ s[i].row.pay # "no_entry") =>
        \E k \in DOMAIN s : i < k /\ Removes(s[k], s[i].row.enter)

NoLatest(s) == \A i \in DOMAIN s : s[i].op # "latest_charge"
LatestIsLast(s) == \A i \in DOMAIN s : s[i].op = "latest_charge" => i = Len(s)

Good(s, ch, acc) ==
    UpdatesBacked(s, acc) /\ OpeningsRecorded(s, ch) /\ EntriesLeave(s) /\ LatestIsLast(s)

(* The inductive invariant.                                                *)
ListsTyped == todo \in [Threads -> Seq(Stmts(DOMAIN passes))]
ListsGood == \A t \in Threads : Good(todo[t], charges, accounted)
Typed ==
    /\ TypeOK
    /\ Len(passes) <= MaxPasses
    /\ charges \subseteq RowSet(DOMAIN passes)
    /\ quotes \subseteq QuoteSet(DOMAIN passes)
Inv ==
    /\ Typed /\ ListsTyped /\ ListsGood
    /\ NeverOvercharged /\ OpenedOnlyAfterRecorded
    /\ RecordedEntryLeaves /\ NoPhantomInside

-----------------------------------------------------------------------------
(* The lists of statements.                                                *)

(* A statement has the fields that its operation needs.                    *)
LEMMA StmtFields ==
    ASSUME NEW D, NEW st \in Stmts(D)
    PROVE  /\ st.op = "insert" => st.row \in RowSet(D)
           /\ st.op = "delete" => st.pass \in D
           /\ st.op \in {"delete_by_plate", "latest_charge", "update", "handle_charge"} =>
                st.plate \in Plates
           /\ st.op = "update" => st.money \in Nat
           /\ st.op = "find_entry" => st.then \in {"charge", "free", "free_closed"}
           /\ st.op = "handle_charge" =>
                st.enter \in D \cup {NoPass} /\ st.by \in {"device", "match"}
           /\ st.op \in {"find_entry", "handle_charge", "notify_unmatched",
                         "open_or_throw", "notify_free", "open"} => st.exit \in D
           /\ st.op = "open" => st.why \in {"charged", "unmatched"}
           /\ st.op \in {"notify_quote", "reply_quote", "reply_paid"} =>
                st.quote \in QuoteSet(D)
  BY DEF Stmts

(* More pass events make more statements.                                  *)
LEMMA StmtsMonotonic ==
    ASSUME NEW D, NEW E, D \subseteq E
    PROVE  /\ RowSet(D) \subseteq RowSet(E) /\ QuoteSet(D) \subseteq QuoteSet(E)
           /\ Stmts(D) \subseteq Stmts(E)
  <1>1. RowSet(D) \subseteq RowSet(E) /\ QuoteSet(D) \subseteq QuoteSet(E)
    BY DEF RowSet, QuoteSet
  <1> QED BY <1>1 DEF Stmts

(* Executing the first statement of a good list leaves a good list, with   *)
(* the row added and its charge accounted for if that was an insert.       *)
LEMMA GoodTail ==
    ASSUME NEW D, NEW s \in Seq(Stmts(D)), s # <<>>,
           NEW ch, NEW ch2, ch \subseteq ch2,
           NEW acc \in [Plates -> Nat], NEW acc2 \in [Plates -> Nat],
           \A p \in Plates : acc[p] <= acc2[p],
           Head(s).op = "insert" =>
             /\ Head(s).row \in ch2
             /\ \A p \in Head(s).row.payer \cap Plates :
                  acc[p] + Head(s).row.charge <= acc2[p],
           Good(s, ch, acc)
    PROVE  Good(Tail(s), ch2, acc2)
  <1> DEFINE u == Tail(s)
  <1>1. /\ u \in Seq(Stmts(D)) /\ Len(u) = Len(s) - 1 /\ Len(s) \in Nat \ {0}
        /\ DOMAIN u = 1 .. Len(u) /\ DOMAIN s = 1 .. Len(s)
        /\ \A i \in DOMAIN u : u[i] = s[i + 1] /\ i + 1 \in DOMAIN s
        /\ \A i \in DOMAIN s : s[i] \in Stmts(D)
        /\ s[1] = Head(s) /\ 1 \in DOMAIN s
    OBVIOUS
  <1> HIDE DEF u
  <1>0. /\ Len(u) = Len(s) - 1 /\ Len(s) \in Nat \ {0}
        /\ DOMAIN u = 1 .. Len(u) /\ DOMAIN s = 1 .. Len(s)
    BY <1>1
  <1>2. UpdatesBacked(u, acc2)
    <2> SUFFICES ASSUME NEW i \in DOMAIN u, u[i].op = "update",
                        ~(InitBalance[u[i].plate] - u[i].money <= acc2[u[i].plate])
                 PROVE  \E j \in 1 .. (i - 1) :
                          /\ u[j].op = "insert" /\ u[i].plate \in u[j].row.payer
                          /\ InitBalance[u[i].plate] - u[i].money
                               <= acc2[u[i].plate] + u[j].row.charge
      BY DEF UpdatesBacked
    <2>1. i + 1 \in DOMAIN s /\ s[i + 1] = u[i] /\ u[i].plate \in Plates /\ u[i].money \in Nat
      BY <1>1, StmtFields
    <2>2. InitBalance[u[i].plate] \in Nat BY <2>1, LedgerAssumption
    <2>3. ~(InitBalance[u[i].plate] - u[i].money <= acc[u[i].plate]) BY <2>1, <2>2
    <2>4. PICK j \in 1 .. ((i + 1) - 1) :
             /\ s[j].op = "insert" /\ u[i].plate \in s[j].row.payer
             /\ InitBalance[u[i].plate] - u[i].money <= acc[u[i].plate] + s[j].row.charge
      BY <2>1, <2>3 DEF Good, UpdatesBacked
    <2>5. j \in DOMAIN s /\ s[j].row.charge \in Nat BY <1>1, <2>4, StmtFields DEF RowSet
    <2>6. j # 1
      <3> SUFFICES ASSUME j = 1 PROVE FALSE
        OBVIOUS
      <3>1. Head(s) = s[j] BY <1>1
      <3>2. acc[u[i].plate] + s[j].row.charge <= acc2[u[i].plate]
        BY <2>1, <2>4, <3>1
      <3>3. acc[u[i].plate] \in Nat /\ acc2[u[i].plate] \in Nat BY <2>1
      <3> QED BY <2>1, <2>2, <2>4, <2>5, <3>2, <3>3
    <2>7. j - 1 \in 1 .. (i - 1) /\ j - 1 \in DOMAIN u /\ (j - 1) + 1 = j
      BY <1>0, <2>5, <2>6
    <2>9. u[j - 1] = s[j] BY <1>1, <2>7
    <2>8. InitBalance[u[i].plate] - u[i].money <= acc2[u[i].plate] + s[j].row.charge
      BY <2>1, <2>2, <2>4, <2>5
    <2> QED BY <2>4, <2>7, <2>8, <2>9
  <1>3. OpeningsRecorded(u, ch2)
    <2> SUFFICES ASSUME NEW i \in DOMAIN u, NEW x \in 1 .. MaxPasses, Opens(u[i], x),
                        ~\E r \in ch2 : r.exit = x
                 PROVE  \E j \in 1 .. (i - 1) : u[j].op = "insert" /\ u[j].row.exit = x
      BY DEF OpeningsRecorded
    <2>1. i + 1 \in DOMAIN s /\ s[i + 1] = u[i] BY <1>1
    <2>2. PICK j \in 1 .. ((i + 1) - 1) : s[j].op = "insert" /\ s[j].row.exit = x
      <3>1. OpeningsRecorded(s, ch) BY DEF Good
      <3>2. Opens(s[i + 1], x) /\ ~\E r \in ch : r.exit = x BY <2>1
      <3> QED BY <2>1, <3>1, <3>2 DEF OpeningsRecorded
    <2>3. j # 1 BY <1>1, <2>2
    <2>4. j - 1 \in 1 .. (i - 1) /\ j - 1 \in DOMAIN u /\ (j - 1) + 1 = j
      BY <1>0, <2>3
    <2>5. u[j - 1] = s[j] BY <1>1, <2>4
    <2> QED BY <2>2, <2>4, <2>5
  <1>4. EntriesLeave(u)
    <2> SUFFICES ASSUME NEW i \in DOMAIN u, u[i].op = "insert", u[i].row.enter # NoPass,
                        u[i].row.pay # "no_entry"
                 PROVE  \E k \in DOMAIN u : i < k /\ Removes(u[k], u[i].row.enter)
      BY DEF EntriesLeave
    <2>1. i + 1 \in DOMAIN s /\ s[i + 1] = u[i] BY <1>1
    <2>2. PICK k \in DOMAIN s : i + 1 < k /\ Removes(s[k], u[i].row.enter)
      BY <2>1 DEF Good, EntriesLeave
    <2>3. k - 1 \in DOMAIN u /\ i < k - 1 /\ (k - 1) + 1 = k
      BY <1>0, <2>2
    <2>4. u[k - 1] = s[k] BY <1>1, <2>3
    <2> QED BY <2>2, <2>3, <2>4
  <1>5. LatestIsLast(u)
    <2> SUFFICES ASSUME NEW i \in DOMAIN u, u[i].op = "latest_charge"
                 PROVE  i = Len(u)
      BY DEF LatestIsLast
    <2>1. i + 1 = Len(s) BY <1>1 DEF Good, LatestIsLast
    <2> QED BY <1>0, <2>1
  <1> QED BY <1>2, <1>3, <1>4, <1>5 DEF Good, u

(* A list put in front of another one: the statements of the second may    *)
(* count on the rows that the first inserts.                               *)
LEMMA GoodConcat ==
    ASSUME NEW D, NEW a \in Seq(Stmts(D)), NEW b \in Seq(Stmts(D)),
           NEW ch, NEW ch2, NEW acc \in [Plates -> Nat],
           \A r \in ch2 \ ch : \E j \in DOMAIN a : a[j].op = "insert" /\ a[j].row = r,
           NoLatest(a), Good(a, ch, acc), Good(b, ch2, acc)
    PROVE  a \o b \in Seq(Stmts(D)) /\ Good(a \o b, ch, acc)
  <1> DEFINE s == a \o b
             n == Len(a)
  <1>1. /\ s \in Seq(Stmts(D)) /\ n \in Nat /\ Len(b) \in Nat /\ Len(s) = n + Len(b)
        /\ DOMAIN s = 1 .. Len(s) /\ DOMAIN a = 1 .. n /\ DOMAIN b = 1 .. Len(b)
        /\ \A i \in DOMAIN a : i \in DOMAIN s /\ s[i] = a[i]
        /\ \A i \in DOMAIN b : i + n \in DOMAIN s /\ s[i + n] = b[i]
        /\ \A i \in DOMAIN s : i \in DOMAIN a \/ i - n \in DOMAIN b
    OBVIOUS
  <1> HIDE DEF s, n
  <1>0. /\ n \in Nat /\ Len(b) \in Nat /\ Len(s) = n + Len(b)
        /\ DOMAIN s = 1 .. Len(s) /\ DOMAIN a = 1 .. n /\ DOMAIN b = 1 .. Len(b)
    BY <1>1
  <1>2. UpdatesBacked(s, acc)
    <2> SUFFICES ASSUME NEW i \in DOMAIN s, s[i].op = "update",
                        ~(InitBalance[s[i].plate] - s[i].money <= acc[s[i].plate])
                 PROVE  \E j \in 1 .. (i - 1) :
                          /\ s[j].op = "insert" /\ s[i].plate \in s[j].row.payer
                          /\ InitBalance[s[i].plate] - s[i].money
                               <= acc[s[i].plate] + s[j].row.charge
      BY DEF UpdatesBacked
    <2>1. CASE i \in DOMAIN a
      <3>1. s[i] = a[i] BY <1>1, <2>1
      <3>2. PICK j \in 1 .. (i - 1) :
               /\ a[j].op = "insert" /\ s[i].plate \in a[j].row.payer
               /\ InitBalance[s[i].plate] - s[i].money <= acc[s[i].plate] + a[j].row.charge
        BY <2>1, <3>1 DEF Good, UpdatesBacked
      <3>3. j \in DOMAIN a BY <1>0, <2>1
      <3>4. s[j] = a[j] BY <1>1, <3>3
      <3> QED BY <3>2, <3>4
    <2>2. CASE i - n \in DOMAIN b
      <3>1. s[i] = b[i - n] BY <1>1, <2>2
      <3>2. PICK j \in 1 .. ((i - n) - 1) :
               /\ b[j].op = "insert" /\ s[i].plate \in b[j].row.payer
               /\ InitBalance[s[i].plate] - s[i].money <= acc[s[i].plate] + b[j].row.charge
        BY <2>2, <3>1 DEF Good, UpdatesBacked
      <3>3. j \in DOMAIN b /\ j + n \in 1 .. (i - 1) BY <1>0, <2>2
      <3>4. s[j + n] = b[j] BY <1>1, <3>3
      <3> QED BY <3>2, <3>3, <3>4
    <2> QED BY <1>1, <2>1, <2>2
  <1>3. OpeningsRecorded(s, ch)
    <2> SUFFICES ASSUME NEW i \in DOMAIN s, NEW x \in 1 .. MaxPasses, Opens(s[i], x),
                        ~\E r \in ch : r.exit = x
                 PROVE  \E j \in 1 .. (i - 1) : s[j].op = "insert" /\ s[j].row.exit = x
      BY DEF OpeningsRecorded
    <2>1. CASE i \in DOMAIN a
      <3>1. s[i] = a[i] BY <1>1, <2>1
      <3>2. PICK j \in 1 .. (i - 1) : a[j].op = "insert" /\ a[j].row.exit = x
        BY <2>1, <3>1 DEF Good, OpeningsRecorded
      <3>3. j \in DOMAIN a BY <1>0, <2>1
      <3>4. s[j] = a[j] BY <1>1, <3>3
      <3> QED BY <3>2, <3>4
    <2>2. CASE i - n \in DOMAIN b
      <3>1. s[i] = b[i - n] BY <1>1, <2>2
      <3>2. \/ \E r \in ch2 : r.exit = x
            \/ \E j \in 1 .. ((i - n) - 1) : b[j].op = "insert" /\ b[j].row.exit = x
        BY <2>2, <3>1 DEF Good, OpeningsRecorded
      <3>3. CASE \E r \in ch2 : r.exit = x
        <4>1. PICK j \in DOMAIN a : a[j].op = "insert" /\ a[j].row.exit = x BY <3>3
        <4>2. j \in 1 .. (i - 1) BY <1>0, <2>2
        <4>3. s[j] = a[j] BY <1>1
        <4> QED BY <4>1, <4>2, <4>3
      <3>4. CASE \E j \in 1 .. ((i - n) - 1) : b[j].op = "insert" /\ b[j].row.exit = x
        <4>1. PICK j \in 1 .. ((i - n) - 1) : b[j].op = "insert" /\ b[j].row.exit = x BY <3>4
        <4>2. j \in DOMAIN b /\ j + n \in 1 .. (i - 1) BY <1>0, <2>2
        <4> QED BY <1>1, <4>1, <4>2
      <3> QED BY <3>2, <3>3, <3>4
    <2> QED BY <1>1, <2>1, <2>2
  <1>4. EntriesLeave(s)
    <2> SUFFICES ASSUME NEW i \in DOMAIN s, s[i].op = "insert", s[i].row.enter # NoPass,
                        s[i].row.pay # "no_entry"
                 PROVE  \E k \in DOMAIN s : i < k /\ Removes(s[k], s[i].row.enter)
      BY DEF EntriesLeave
    <2>1. CASE i \in DOMAIN a
      BY <1>1, <2>1 DEF Good, EntriesLeave
    <2>2. CASE i - n \in DOMAIN b
      <3>1. s[i] = b[i - n] BY <1>1, <2>2
      <3>2. PICK k \in DOMAIN b : i - n < k /\ Removes(b[k], s[i].row.enter)
        BY <2>2, <3>1 DEF Good, EntriesLeave
      <3>3. i < k + n BY <1>0, <3>2
      <3>4. k + n \in DOMAIN s /\ s[k + n] = b[k] BY <1>1
      <3> QED BY <3>2, <3>3, <3>4
    <2> QED BY <1>1, <2>1, <2>2
  <1>5. LatestIsLast(s)
    <2> SUFFICES ASSUME NEW i \in DOMAIN s, s[i].op = "latest_charge"
                 PROVE  i = Len(s)
      BY DEF LatestIsLast
    <2>1. i \notin DOMAIN a BY <1>1 DEF NoLatest
    <2>2. i - n \in DOMAIN b /\ s[i] = b[i - n] BY <1>1, <2>1
    <2>3. i - n = Len(b) BY <2>2 DEF Good, LatestIsLast
    <2> QED BY <1>0, <2>3
  <1> QED BY <1>1, <1>2, <1>3, <1>4, <1>5 DEF Good, s

-----------------------------------------------------------------------------
(* The programs that the handlers put in front of a list.                  *)
GoodProgram(a, D, ch, acc) == a \in Seq(Stmts(D)) /\ NoLatest(a) /\ Good(a, ch, acc)
Recorded(ch, x) == \E r \in ch : r.exit = x

(* Two programs, one after the other.                                      *)
LEMMA TwoPrograms ==
    ASSUME NEW D, NEW a, NEW b, NEW ch, NEW ch2, NEW acc \in [Plates -> Nat],
           \A r \in ch2 \ ch : \E j \in DOMAIN a : a[j].op = "insert" /\ a[j].row = r,
           GoodProgram(a, D, ch, acc), GoodProgram(b, D, ch2, acc)
    PROVE  GoodProgram(a \o b, D, ch, acc)
  <1>1. a \in Seq(Stmts(D)) /\ b \in Seq(Stmts(D)) /\ NoLatest(a) /\ NoLatest(b)
        /\ Good(a, ch, acc) /\ Good(b, ch2, acc)
    BY DEF GoodProgram
  <1>2. a \o b \in Seq(Stmts(D)) /\ Good(a \o b, ch, acc) BY <1>1, GoodConcat
  <1>3. NoLatest(a \o b)
    <2> SUFFICES ASSUME NEW i \in DOMAIN (a \o b) PROVE (a \o b)[i].op # "latest_charge"
      BY DEF NoLatest
    <2>1. CASE i \in DOMAIN a BY <1>1, <2>1 DEF NoLatest
    <2>2. CASE i \notin DOMAIN a
      <3>1. i - Len(a) \in DOMAIN b /\ (a \o b)[i] = b[i - Len(a)] BY <1>1, <2>2
      <3> QED BY <1>1, <3>1 DEF NoLatest
    <2> QED BY <2>1, <2>2
  <1> QED BY <1>2, <1>3 DEF GoodProgram

(* The empty program, and a statement that neither inserts nor updates.    *)
LEMMA NoProgram ==
    ASSUME NEW D, NEW ch, NEW acc
    PROVE  GoodProgram(<<>>, D, ch, acc)
  BY DEF GoodProgram, NoLatest, Good, UpdatesBacked, OpeningsRecorded, EntriesLeave,
         LatestIsLast

(* A single statement that neither charges nor settles is a good program   *)
(* when the opening it orders, if any, is recorded.                        *)
LEMMA OneStatement ==
    ASSUME NEW D, NEW ch, NEW acc, NEW st \in Stmts(D),
           st.op \notin {"insert", "update", "latest_charge"},
           \A x \in 1 .. MaxPasses : Opens(st, x) => Recorded(ch, x)
    PROVE  GoodProgram(<<st>>, D, ch, acc)
  <1> DEFINE s == <<st>>
  <1>1. s \in Seq(Stmts(D)) /\ DOMAIN s = {1} /\ s[1] = st OBVIOUS
  <1> HIDE DEF s
  <1>2. UpdatesBacked(s, acc) /\ EntriesLeave(s) /\ LatestIsLast(s) /\ NoLatest(s)
    BY <1>1 DEF UpdatesBacked, EntriesLeave, LatestIsLast, NoLatest
  <1>3. OpeningsRecorded(s, ch) BY <1>1 DEF OpeningsRecorded, Recorded
  <1> QED BY <1>1, <1>2, <1>3 DEF GoodProgram, Good, s

(* A list of two statements.                                               *)
LEMMA PairOf ==
    ASSUME NEW x, NEW y
    PROVE  <<x>> \o <<y>> = <<x, y>>
  <1>1. <<x>> \in Seq({x, y}) /\ <<y>> \in Seq({x, y}) /\ <<x, y>> \in Seq({x, y})
        /\ Len(<<x>>) = 1 /\ Len(<<y>>) = 1 /\ Len(<<x, y>>) = 2
    OBVIOUS
  <1>2. /\ <<x>> \o <<y>> \in Seq({x, y}) /\ Len(<<x>> \o <<y>>) = 2
        /\ (<<x>> \o <<y>>)[1] = x /\ (<<x>> \o <<y>>)[2] = y
    BY <1>1, ConcatProperties
  <1>3. \A i \in 1 .. Len(<<x>> \o <<y>>) : (<<x>> \o <<y>>)[i] = <<x, y>>[i]
    BY <1>2
  <1> QED BY <1>1, <1>2, <1>3, SeqEqual

(* The row first and the entry after it.                                   *)
LEMMA RecordIsGood ==
    ASSUME NEW D, NEW ch, NEW acc, NEW row \in RowSet(D)
    PROVE  /\ GoodProgram(Record(row), D, ch, acc)
           /\ \E j \in DOMAIN Record(row) :
                Record(row)[j].op = "insert" /\ Record(row)[j].row = row
  <1>1. Insert(row) \in Stmts(D) /\ Insert(row).op = "insert" /\ Insert(row).row = row
    BY DEF Insert, Stmts
  <1>2. CASE row.enter = NoPass
    <2> DEFINE s == <<Insert(row)>>
    <2>1. Record(row) = s BY <1>2 DEF Record, delete_temporary_passrecord
    <2>2. s \in Seq(Stmts(D)) /\ DOMAIN s = {1} /\ s[1] = Insert(row) BY <1>1
    <2> HIDE DEF s
    <2>3. Good(s, ch, acc) /\ NoLatest(s)
      BY <1>1, <1>2, <2>2 DEF Good, UpdatesBacked, OpeningsRecorded, Opens, EntriesLeave,
                              LatestIsLast, NoLatest
    <2> QED BY <1>1, <2>1, <2>2, <2>3 DEF GoodProgram
  <1>3. CASE row.enter # NoPass
    <2> DEFINE d == Delete(row.enter)
               s == <<Insert(row), d>>
    <2>1. Record(row) = s BY <1>3, PairOf DEF Record, delete_temporary_passrecord
    <2>2. d \in Stmts(D) /\ d.op = "delete" /\ d.pass = row.enter
      BY <1>3 DEF Delete, Stmts, RowSet
    <2> HIDE DEF d
    <2>3. /\ s \in Seq(Stmts(D)) /\ DOMAIN s = {1, 2}
          /\ s[1] = Insert(row) /\ s[2] = d
      BY <1>1, <2>2
    <2> HIDE DEF s
    <2>4. EntriesLeave(s) BY <1>1, <2>2, <2>3 DEF EntriesLeave, Removes
    <2>5. Good(s, ch, acc) /\ NoLatest(s)
      BY <1>1, <2>2, <2>3, <2>4 DEF Good, UpdatesBacked, OpeningsRecorded, Opens,
                                    LatestIsLast, NoLatest
    <2> QED BY <1>1, <2>1, <2>3, <2>5 DEF GoodProgram
  <1> QED BY <1>2, <1>3

(* Rows of their type.                                                     *)
LEMMA RowsTyped ==
    ASSUME NEW D, NEW id \in 1 .. MaxCharges, NEW enter \in D \cup {NoPass}, NEW exit \in D,
           NEW charge \in Nat, NEW pay \in {"stored", "other", "cash", "no_entry"}
    PROVE  /\ Row(id, enter, exit, charge, pay) \in RowSet(D)
           /\ \A p \in Plates : StoredRow(id, enter, exit, charge, p) \in RowSet(D)
  BY DEF Row, StoredRow, RowSet

Inserts(s, row) == \E j \in DOMAIN s : s[j].op = "insert" /\ s[j].row = row
Backs(row, p, money, acc) ==
    p \in row.payer /\ InitBalance[p] - money <= acc[p] + row.charge

(* StoredValueCharge with enough money: the balance is written after the   *)
(* row that accounts for it.                                               *)
LEMMA StoredValueIsGood ==
    ASSUME NEW D, NEW ch, NEW acc \in [Plates -> Nat],
           NEW row \in RowSet(D), NEW p \in Plates, NEW money \in Nat,
           Backs(row, p, money, acc)
    PROVE  /\ GoodProgram(Record(row) \o <<Update(p, money)>>, D, ch, acc)
           /\ Inserts(Record(row) \o <<Update(p, money)>>, row)
  <1> DEFINE a == Record(row)
             w == Update(p, money)
             s == a \o <<w>>
             n == Len(a)
  <1>1. w \in Stmts(D) /\ w.op = "update" /\ w.plate = p /\ w.money = money
    BY DEF Update, Stmts
  <1>2. a \in Seq(Stmts(D)) /\ NoLatest(a) /\ Good(a, ch, acc)
    BY RecordIsGood DEF GoodProgram
  <1>3. PICK j \in DOMAIN a : a[j].op = "insert" /\ a[j].row = row
    BY RecordIsGood
  <1> HIDE DEF a, w
  <1>4. /\ s \in Seq(Stmts(D)) /\ n \in Nat /\ DOMAIN a = 1 .. n /\ DOMAIN s = 1 .. (n + 1)
        /\ \A i \in 1 .. n : s[i] = a[i]
        /\ s[n + 1] = w
    BY <1>1, <1>2
  <1>5. j \in 1 .. ((n + 1) - 1) /\ s[j] = a[j] /\ j \in DOMAIN s BY <1>3, <1>4
  <1> HIDE DEF s, n
  <1>6. UpdatesBacked(s, acc)
    <2> SUFFICES ASSUME NEW i \in DOMAIN s, s[i].op = "update",
                        ~(InitBalance[s[i].plate] - s[i].money <= acc[s[i].plate])
                 PROVE  \E k \in 1 .. (i - 1) :
                          /\ s[k].op = "insert" /\ s[i].plate \in s[k].row.payer
                          /\ InitBalance[s[i].plate] - s[i].money
                               <= acc[s[i].plate] + s[k].row.charge
      BY DEF UpdatesBacked
    <2>1. CASE i = n + 1
      BY <1>1, <1>3, <1>4, <1>5, <2>1 DEF Backs
    <2>2. CASE i \in 1 .. n
      <3>1. PICK k \in 1 .. (i - 1) :
               /\ a[k].op = "insert" /\ a[i].plate \in a[k].row.payer
               /\ InitBalance[a[i].plate] - a[i].money <= acc[a[i].plate] + a[k].row.charge
        BY <1>2, <1>4, <2>2 DEF Good, UpdatesBacked
      <3>2. s[k] = a[k] /\ s[i] = a[i] BY <1>4, <2>2
      <3> QED BY <3>1, <3>2
    <2> QED BY <1>4, <2>1, <2>2
  <1>7. OpeningsRecorded(s, ch)
    <2> SUFFICES ASSUME NEW i \in DOMAIN s, NEW x \in 1 .. MaxPasses, Opens(s[i], x),
                        ~\E r \in ch : r.exit = x
                 PROVE  \E k \in 1 .. (i - 1) : s[k].op = "insert" /\ s[k].row.exit = x
      BY DEF OpeningsRecorded
    <2>1. i \in 1 .. n /\ s[i] = a[i] BY <1>1, <1>4 DEF Opens
    <2>2. PICK k \in 1 .. (i - 1) : a[k].op = "insert" /\ a[k].row.exit = x
      BY <1>2, <1>4, <2>1 DEF Good, OpeningsRecorded
    <2>3. s[k] = a[k] BY <1>4, <2>1
    <2> QED BY <2>2, <2>3
  <1>8. EntriesLeave(s)
    <2> SUFFICES ASSUME NEW i \in DOMAIN s, s[i].op = "insert", s[i].row.enter # NoPass,
                        s[i].row.pay # "no_entry"
                 PROVE  \E k \in DOMAIN s : i < k /\ Removes(s[k], s[i].row.enter)
      BY DEF EntriesLeave
    <2>1. i \in 1 .. n /\ s[i] = a[i] BY <1>1, <1>4
    <2>2. PICK k \in DOMAIN a : i < k /\ Removes(a[k], a[i].row.enter)
      BY <1>2, <1>4, <2>1 DEF Good, EntriesLeave
    <2> QED BY <1>4, <2>1, <2>2
  <1>9. NoLatest(s) /\ LatestIsLast(s)
    BY <1>1, <1>2, <1>4 DEF NoLatest, LatestIsLast
  <1> QED BY <1>3, <1>4, <1>5, <1>6, <1>7, <1>8, <1>9 DEF GoodProgram, Good, Inserts, s, a, w

(* The statements of the programs have their types.                        *)
LEMMA StatementsTyped ==
    ASSUME NEW D
    PROVE  /\ \A e \in D : Delete(e) \in Stmts(D) /\ Delete(e).op = "delete"
                             /\ Delete(e).pass = e
           /\ \A p \in Plates : DeleteByPlate(p) \in Stmts(D)
                                  /\ DeleteByPlate(p).op = "delete_by_plate"
           /\ \A p \in Plates : LatestCharge(p) \in Stmts(D)
                                  /\ LatestCharge(p).op = "latest_charge"
           /\ \A x \in D : \A w \in {"charge", "free", "free_closed"} :
                FindEntry(x, w) \in Stmts(D) /\ FindEntry(x, w).op = "find_entry"
           /\ \A e \in D \cup {NoPass} : \A x \in D : \A p \in Plates :
                \A by \in {"device", "match"} :
                  HandleCharge(e, x, p, by) \in Stmts(D)
                    /\ HandleCharge(e, x, p, by).op = "handle_charge"
           /\ \A q \in QuoteSet(D) :
                /\ NotifyQuote(q) \in Stmts(D) /\ NotifyQuote(q).op = "notify_quote"
                /\ NotifyQuote(q).quote = q
                /\ ReplyQuote(q) \in Stmts(D) /\ ReplyQuote(q).op = "reply_quote"
                /\ ReplyPaid(q) \in Stmts(D) /\ ReplyPaid(q).op = "reply_paid"
           /\ \A x \in D :
                /\ NotifyUnmatched(x) \in Stmts(D) /\ NotifyUnmatched(x).op = "notify_unmatched"
                /\ OpenOrThrow(x) \in Stmts(D) /\ OpenOrThrow(x).op = "open_or_throw"
                /\ OpenOrThrow(x).exit = x
           /\ \A x \in D : \A auto \in BOOLEAN :
                NotifyFree(x, auto) \in Stmts(D) /\ NotifyFree(x, auto).op = "notify_free"
                  /\ NotifyFree(x, auto).exit = x
           /\ \A x \in D : \A why \in {"charged", "unmatched"} :
                OpenGate(x, why) \in Stmts(D) /\ OpenGate(x, why).op = "open"
                  /\ OpenGate(x, why).exit = x /\ OpenGate(x, why).why = why
  BY DEF Stmts, Delete, DeleteByPlate, LatestCharge, FindEntry, HandleCharge, NotifyQuote,
         ReplyQuote, ReplyPaid, NotifyUnmatched, OpenOrThrow, NotifyFree, OpenGate

(* What follows a charge: an exit with nothing left to pay must have been  *)
(* recorded.                                                               *)
LEMMA AfterChargeIsGood ==
    ASSUME NEW D, NEW ch, NEW acc \in [Plates -> Nat], NEW q \in QuoteSet(D),
           NEW by \in {"device", "match"}, q.require = 0 => Recorded(ch, q.exit)
    PROVE  GoodProgram(AfterCharge(by, q), D, ch, acc)
  <1>1. GoodProgram(<<ReplyQuote(q)>>, D, ch, acc)
    BY OneStatement, StatementsTyped DEF Opens
  <1>2. CASE by = "device"
    <2>1. GoodProgram(<<NotifyQuote(q)>>, D, ch, acc)
      BY OneStatement, StatementsTyped DEF Opens
    <2> QED BY <1>2, <2>1 DEF AfterCharge
  <1>3. CASE by = "match" /\ q.require = 0
    <2> DEFINE g == OpenGate(q.exit, "charged")
    <2>1. q.exit \in D BY DEF QuoteSet
    <2>2. g \in Stmts(D) /\ g.op = "open" /\ g.exit = q.exit BY <2>1, StatementsTyped
    <2>3. \A x \in 1 .. MaxPasses : Opens(g, x) => Recorded(ch, x) BY <1>3, <2>2 DEF Opens
    <2> HIDE DEF g
    <2>4. GoodProgram(<<g>>, D, ch, acc) BY <2>2, <2>3, OneStatement
    <2>5. GoodProgram(<<g>> \o <<ReplyQuote(q)>>, D, ch, acc)
      BY <1>1, <2>4, TwoPrograms
    <2> QED BY <1>3, <2>5, PairOf DEF AfterCharge, g
  <1>4. CASE by = "match" /\ q.require # 0
    BY <1>1, <1>4 DEF AfterCharge
  <1> QED BY <1>2, <1>3, <1>4

(* What handle_charge does, whoever asked for it.                          *)
LEMMA ChargeIsGood ==
    ASSUME NEW D, NEW ch, NEW acc \in [Plates -> Nat], NEW acc2,
           NEW p \in Plates, NEW id \in 1 .. MaxCharges, NEW enter \in D \cup {NoPass},
           NEW exit \in D, NEW fee \in Nat, NEW money \in Nat, NEW by \in {"device", "match"},
           InitBalance[p] - money <= acc[p],
           acc2 = IF Kind[p] = "stored" /\ money < fee
                  THEN [acc EXCEPT ![p] = @ + money] ELSE acc,
           NEW q, q = [id |-> id, enter |-> enter, exit |-> exit,
                       require |-> RequireCharge(p, fee, money)]
    PROVE  GoodProgram((IF Kind[p] = "stored"
                        THEN StoredValueProgram(p, id, enter, exit, fee, money)
                        ELSE TimedProgram(id, enter, exit, fee)) \o AfterCharge(by, q),
                       D, ch, acc2)
  <1> DEFINE free == Row(id, enter, exit, 0, "other")
             paid == StoredRow(id, enter, exit, fee, p)
             a == IF Kind[p] = "stored"
                  THEN StoredValueProgram(p, id, enter, exit, fee, money)
                  ELSE TimedProgram(id, enter, exit, fee)
  <1>0. acc2 \in [Plates -> Nat] OBVIOUS
  <1>1. InitBalance[p] \in Nat BY LedgerAssumption
  <1>2. q \in QuoteSet(D) /\ q.exit = exit /\ q.require = RequireCharge(p, fee, money)
    BY DEF QuoteSet, RequireCharge
  <1>3. /\ free \in RowSet(D) /\ paid \in RowSet(D)
        /\ free.exit = exit /\ paid.exit = exit /\ p \in paid.payer /\ paid.charge = fee
    <2>1. free \in RowSet(D) /\ paid \in RowSet(D) BY RowsTyped
    <2>2. free.exit = exit /\ paid.exit = exit /\ p \in paid.payer /\ paid.charge = fee
      BY DEF Row, StoredRow
    <2> QED BY <2>1, <2>2
  <1> HIDE DEF free, paid
  <1>4. GoodProgram(Record(free), D, ch, acc2)
        /\ \E j \in DOMAIN Record(free) : Record(free)[j].op = "insert"
                                            /\ Record(free)[j].row = free
    BY <1>3, RecordIsGood
  <1>a. a = IF Kind[p] = "stored"
            THEN StoredValueProgram(p, id, enter, exit, fee, money)
            ELSE TimedProgram(id, enter, exit, fee)
    OBVIOUS
  <1> HIDE DEF a
  <1>5. /\ GoodProgram(a, D, ch, acc2)
        /\ q.require = 0 =>
             \E row : row.exit = exit /\ \E j \in DOMAIN a : a[j].op = "insert" /\ a[j].row = row
    <2>1. CASE Kind[p] = "stored" /\ money >= fee
      <3> DEFINE m == money - fee
                 w == <<Update(p, m)>>
                 b == Record(paid) \o w
      <3>1. acc2 = acc /\ m \in Nat BY <2>1
      <3>2. Backs(paid, p, m, acc2) BY <1>1, <1>3, <3>1 DEF Backs
      <3>3. m = money - fee OBVIOUS
      <3> HIDE DEF m
      <3>4. GoodProgram(b, D, ch, acc2)
            /\ Inserts(b, paid)
        BY <1>0, <1>3, <3>1, <3>2, StoredValueIsGood
      <3>5. Update(p, m) \in Stmts(D) BY <3>1 DEF Update, Stmts
      <3>6. Record(paid) \in Seq(Stmts(D)) /\ Record(free) \in Seq(Stmts(D))
        <4>1. GoodProgram(Record(paid), D, ch, acc2) BY <1>3, RecordIsGood
        <4> QED BY <1>4, <4>1 DEF GoodProgram
      <3>7. w \in Seq(Stmts(D)) BY <3>5
      <3>8. CASE fee # 0
        <4>1. a = <<>> \o Record(paid) \o w
          BY <1>a, <2>1, <3>3, <3>8 DEF StoredValueProgram, paid
        <4> HIDE DEF w
        <4>2. a = b BY <3>6, <3>7, <4>1
        <4> QED BY <1>3, <3>4, <4>2 DEF Inserts
      <3>9. CASE fee = 0
        <4>1. a = (Record(free) \o Record(paid)) \o w
          BY <1>a, <2>1, <3>3, <3>9 DEF StoredValueProgram, paid, free
        <4> HIDE DEF w
        <4>2. a = Record(free) \o b
          <5> DEFINE x == Record(free)
                     y == Record(paid)
          <5>1. x \in Seq(Stmts(D)) /\ y \in Seq(Stmts(D)) BY <3>6
          <5>2. a = (x \o y) \o w BY <4>1
          <5> HIDE DEF x, y
          <5>3. (x \o y) \o w = x \o (y \o w) BY <3>7, <5>1, ConcatAssociative
          <5> QED BY <5>2, <5>3 DEF x, y
        <4>3. b \in Seq(Stmts(D)) BY <3>6, <3>7
        <4> HIDE DEF b
        <4>4. GoodProgram(a, D, ch, acc2) BY <1>0, <1>4, <3>4, <4>2, TwoPrograms
        <4>5. PICK j \in DOMAIN Record(free) : Record(free)[j].op = "insert"
                                                 /\ Record(free)[j].row = free
          BY <1>4
        <4>6. j \in DOMAIN a /\ a[j] = Record(free)[j] BY <3>6, <4>2, <4>3
        <4> QED BY <1>3, <4>4, <4>5, <4>6
      <3> QED BY <3>8, <3>9
    <2>2. CASE Kind[p] = "stored" /\ money < fee
      <3> DEFINE w == Update(p, 0)
      <3>1. a = <<w>> BY <1>a, <2>2 DEF StoredValueProgram
      <3>2. w \in Stmts(D) /\ w.op = "update" /\ w.plate = p /\ w.money = 0
        BY DEF Update, Stmts
      <3>3. InitBalance[p] - 0 <= acc2[p] BY <1>1, <2>2
      <3> HIDE DEF w
      <3>4. <<w>> \in Seq(Stmts(D)) /\ DOMAIN <<w>> = {1} /\ <<w>>[1] = w BY <3>2
      <3>5. GoodProgram(<<w>>, D, ch, acc2)
        BY <3>2, <3>3, <3>4 DEF GoodProgram, Good, NoLatest, UpdatesBacked, OpeningsRecorded,
                                Opens, EntriesLeave, LatestIsLast
      <3>6. q.require # 0 BY <1>2, <2>2 DEF RequireCharge
      <3> QED BY <3>1, <3>5, <3>6
    <2>3. CASE Kind[p] # "stored" /\ fee = 0
      <3>1. a = Record(free) BY <1>a, <2>3 DEF TimedProgram, free
      <3> QED BY <1>3, <1>4, <3>1
    <2>4. CASE Kind[p] # "stored" /\ fee # 0
      <3>1. a = <<>> BY <1>a, <2>4 DEF TimedProgram
      <3>2. q.require # 0 BY <1>2, <2>4 DEF RequireCharge
      <3> QED BY <3>1, <3>2, NoProgram
    <2> QED BY <2>1, <2>2, <2>3, <2>4
  <1>6. CASE q.require = 0
    <2>1. PICK row : row.exit = exit /\ \E j \in DOMAIN a : a[j].op = "insert" /\ a[j].row = row
      BY <1>5, <1>6
    <2>2. GoodProgram(AfterCharge(by, q), D, ch \cup {row}, acc2)
      BY <1>0, <1>2, <2>1, AfterChargeIsGood DEF Recorded
    <2>3. GoodProgram(a \o AfterCharge(by, q), D, ch, acc2)
      BY <1>0, <1>5, <2>1, <2>2, TwoPrograms
    <2> QED BY <1>a, <2>3
  <1>7. CASE q.require # 0
    <2>1. GoodProgram(AfterCharge(by, q), D, ch, acc2)
      BY <1>0, <1>2, <1>7, AfterChargeIsGood
    <2>2. GoodProgram(a \o AfterCharge(by, q), D, ch, acc2)
      BY <1>0, <1>5, <2>1, TwoPrograms
    <2> QED BY <1>a, <2>2
  <1> QED BY <1>6, <1>7

(* on_checkout: the gate is opened after the row, and the entry is deleted *)
(* unless the row says that there was none.                                *)
LEMMA CheckoutIsGood ==
    ASSUME NEW D, NEW ch, NEW acc \in [Plates -> Nat], NEW q \in QuoteSet(D),
           NEW id \in 1 .. MaxCharges, NEW none \in BOOLEAN
    PROVE  GoodProgram(CheckoutProgram(q, id, none), D, ch, acc)
  <1> DEFINE row == Row(id, q.enter, q.exit, q.require, IF none THEN "no_entry" ELSE "cash")
             a == IF none THEN <<Insert(row)>> ELSE Record(row)
             b == <<OpenOrThrow(q.exit), ReplyPaid(q)>>
  <1>1. q.enter \in D \cup {NoPass} /\ q.exit \in D /\ q.require \in Nat BY DEF QuoteSet
  <1>2. row \in RowSet(D) /\ row.exit = q.exit /\ (none => row.pay = "no_entry")
    <2>1. row \in RowSet(D) BY <1>1, RowsTyped
    <2>2. row.exit = q.exit /\ (none => row.pay = "no_entry") BY DEF Row
    <2> QED BY <2>1, <2>2
  <1> HIDE DEF row
  <1>3. GoodProgram(a, D, ch, acc)
        /\ \E j \in DOMAIN a : a[j].op = "insert" /\ a[j].row = row
    <2>1. CASE ~none BY <1>2, <2>1, RecordIsGood
    <2>2. CASE none
      <3> DEFINE s == <<Insert(row)>>
      <3>1. Insert(row) \in Stmts(D) /\ Insert(row).op = "insert" /\ Insert(row).row = row
        BY <1>2 DEF Insert, Stmts
      <3>2. s \in Seq(Stmts(D)) /\ DOMAIN s = {1} /\ s[1] = Insert(row) BY <3>1
      <3> HIDE DEF s
      <3>3. Good(s, ch, acc) /\ NoLatest(s)
        BY <1>2, <2>2, <3>1, <3>2 DEF Good, UpdatesBacked, OpeningsRecorded, Opens,
                                      EntriesLeave, LatestIsLast, NoLatest
      <3>4. a = s BY <2>2 DEF s
      <3> QED BY <3>1, <3>2, <3>3, <3>4 DEF GoodProgram
    <2> QED BY <2>1, <2>2
  <1>4. GoodProgram(b, D, ch \cup {row}, acc)
    <2> DEFINE g == OpenOrThrow(q.exit)
    <2>1. g \in Stmts(D) /\ g.op = "open_or_throw" /\ g.exit = q.exit
      BY <1>1, StatementsTyped
    <2>2. \A x \in 1 .. MaxPasses : Opens(g, x) => Recorded(ch \cup {row}, x)
      BY <1>2, <2>1 DEF Opens, Recorded
    <2> HIDE DEF g
    <2>3. GoodProgram(<<g>>, D, ch \cup {row}, acc) BY <2>1, <2>2, OneStatement
    <2>4. GoodProgram(<<ReplyPaid(q)>>, D, ch \cup {row}, acc)
      BY OneStatement, StatementsTyped DEF Opens
    <2>5. GoodProgram(<<g>> \o <<ReplyPaid(q)>>, D, ch \cup {row}, acc)
      BY <2>3, <2>4, TwoPrograms
    <2> QED BY <2>5, PairOf DEF g
  <1>5. CheckoutProgram(q, id, none) = a \o b BY DEF CheckoutProgram, row
  <1> HIDE DEF a, b
  <1>6. GoodProgram(a \o b, D, ch, acc) BY <1>3, <1>4, TwoPrograms
  <1> QED BY <1>5, <1>6

(* The branches after QueryEnterVehicle.                                   *)
LEMMA ReleaseIsGood ==
    ASSUME NEW D, NEW ch, NEW acc \in [Plates -> Nat], NEW enter \in D \cup {NoPass},
           NEW exit \in D, NEW then \in {"charge", "free", "free_closed"}, NEW id,
           then # "charge" => id \in 1 .. MaxCharges, passes[exit].plate \in Plates
    PROVE  GoodProgram(ReleaseProgram(enter, exit, then, id), D, ch, acc)
  <1>1. CASE then = "charge" /\ enter = NoPass
    <2>1. GoodProgram(<<NotifyUnmatched(exit)>>, D, ch, acc)
      BY OneStatement, StatementsTyped DEF Opens
    <2> QED BY <1>1, <2>1 DEF ReleaseProgram
  <1>2. CASE then = "charge" /\ enter # NoPass
    <2> DEFINE h == HandleCharge(enter, exit, passes[exit].plate, "device")
    <2>1. h \in Stmts(D) /\ h.op = "handle_charge" BY DEF HandleCharge, Stmts
    <2> HIDE DEF h
    <2>2. GoodProgram(<<h>>, D, ch, acc) BY <2>1, OneStatement DEF Opens
    <2> QED BY <1>2, <2>2 DEF ReleaseProgram, h
  <1>3. CASE then # "charge"
    <2> DEFINE row == Row(id, enter, exit, 0, "other")
               f == NotifyFree(exit, then = "free")
    <2>1. row \in RowSet(D) BY <1>3, RowsTyped
    <2>2. row.exit = exit BY DEF Row
    <2>3. f \in Stmts(D) /\ f.op = "notify_free" /\ f.exit = exit
      <3> DEFINE auto == then = "free"
      <3>1. auto \in BOOLEAN OBVIOUS
      <3> HIDE DEF auto
      <3>2. NotifyFree(exit, auto) \in Stmts(D) /\ NotifyFree(exit, auto).op = "notify_free"
            /\ NotifyFree(exit, auto).exit = exit
        BY <3>1, StatementsTyped
      <3> QED BY <3>2, Zenon DEF auto
    <2>4. ReleaseProgram(enter, exit, then, id) = Record(row) \o <<f>>
      BY <1>3 DEF ReleaseProgram
    <2> HIDE DEF row, f
    <2>5. GoodProgram(<<f>>, D, ch \cup {row}, acc)
      BY <2>2, <2>3, OneStatement DEF Opens, Recorded
    <2>6. GoodProgram(Record(row) \o <<f>>, D, ch, acc)
      BY <2>1, <2>5, RecordIsGood, TwoPrograms
    <2> QED BY <2>4, <2>6
  <1> QED BY <1>1, <1>2, <1>3

(* on_device_data: the row that the trigger added for a bicycle or at the  *)
(* exit is deleted first.                                                  *)
LEMMA PassIsGood ==
    ASSUME NEW D, NEW ch, NEW acc \in [Plates -> Nat], NEW p \in Plates,
           NEW device \in {"entrance", "exit"}, NEW direction \in {"in", "out"},
           NEW pass \in D, NEW mode
    PROVE  LET s == PassProgram(p, device, direction, pass, mode) IN
           /\ s \in Seq(Stmts(D)) /\ Good(s, ch, acc)
           /\ (direction = "in" /\ (device = "exit" \/ Kind[p] = "nonmotor")) =>
                \E i \in DOMAIN s : Removes(s[i], pass)
  <1> DEFINE s == PassProgram(p, device, direction, pass, mode)
             d == Delete(pass)
             l == LatestCharge(p)
  <1>1. d \in Stmts(D) /\ d.op = "delete" /\ d.pass = pass BY StatementsTyped
  <1>2. l \in Stmts(D) /\ l.op = "latest_charge" BY StatementsTyped
  <1>3. GoodProgram(<<d>>, D, ch, acc) /\ GoodProgram(<<>>, D, ch, acc)
    <2> HIDE DEF d
    <2> QED BY <1>1, OneStatement, NoProgram DEF Opens
  <1>4. GoodProgram(<<DeleteByPlate(p)>>, D, ch, acc)
    BY OneStatement, StatementsTyped DEF Opens
  <1>5. \A w \in {"charge", "free", "free_closed"} :
          GoodProgram(<<FindEntry(pass, w)>>, D, ch, acc)
    <2> TAKE w \in {"charge", "free", "free_closed"}
    <2>1. FindEntry(pass, w) \in Stmts(D) /\ FindEntry(pass, w).op = "find_entry"
      BY StatementsTyped
    <2> QED BY <2>1, OneStatement DEF Opens
  <1>6. CASE Kind[p] = "nonmotor"
    <2>1. s = IF direction = "in" THEN <<d>> ELSE <<>> BY <1>6 DEF PassProgram
    <2> HIDE DEF d, s
    <2> QED BY <1>1, <1>3, <2>1 DEF GoodProgram, Removes, s
  <1>7. CASE Kind[p] # "nonmotor" /\ device = "exit" /\ direction = "in"
    <2>1. s = <<d, l>> BY <1>7 DEF PassProgram
    <2> HIDE DEF d, l, s
    <2>2. s \in Seq(Stmts(D)) /\ DOMAIN s = {1, 2} /\ Len(s) = 2 /\ s[1] = d /\ s[2] = l
      BY <1>1, <1>2, <2>1
    <2>3. Good(s, ch, acc)
      BY <1>1, <1>2, <2>2 DEF Good, UpdatesBacked, OpeningsRecorded, Opens, EntriesLeave,
                              LatestIsLast
    <2> QED BY <1>1, <2>2, <2>3 DEF Removes, s
  <1>8. CASE Kind[p] # "nonmotor" /\ device = "entrance" /\ direction = "out"
    <2>1. s = <<DeleteByPlate(p)>> BY <1>8 DEF PassProgram
    <2> QED BY <1>4, <1>8, <2>1 DEF GoodProgram
  <1>9. CASE Kind[p] # "nonmotor" /\ device = "exit" /\ direction = "out"
    <2>1. s = ExitRelease(p, pass, mode) BY <1>9 DEF PassProgram
    <2>2. GoodProgram(ExitRelease(p, pass, mode), D, ch, acc)
      BY <1>3, <1>5 DEF ExitRelease, TaxiRelease, UnconditionalRelease, WhiteListRelease
    <2> QED BY <1>9, <2>1, <2>2 DEF GoodProgram
  <1>10. CASE Kind[p] # "nonmotor" /\ device = "entrance" /\ direction = "in"
    <2>1. s = <<>> BY <1>10 DEF PassProgram
    <2> QED BY <1>3, <1>10, <2>1 DEF GoodProgram
  <1> QED BY <1>6, <1>7, <1>8, <1>9, <1>10

-----------------------------------------------------------------------------
(* A set of pass events that is not empty has a latest one.                *)
LEMMA LatestExists ==
    ASSUME NEW n \in Nat, NEW T \in SUBSET (1 .. n), T # {}
    PROVE  \E e \in T : \A d \in T : d <= e
  <1> DEFINE R == OpToRel(<, Nat)
             U == {n - e : e \in T}
  <1>1. IsWellFoundedOn(R, Nat) BY NatLessThanWellFounded
  <1>2. \A x, y \in Nat : x < y => <<x, y>> \in R BY DEF OpToRel
  <1>3. U \subseteq Nat /\ U # {}
    <2>1. \A e \in T : n - e \in Nat OBVIOUS
    <2>2. PICK e \in T : TRUE OBVIOUS
    <2>3. n - e \in U BY <2>2
    <2> QED BY <2>1, <2>3
  <1> HIDE DEF R, U
  <1>4. PICK x \in U : \A y \in U : ~(<<y, x>> \in R) BY <1>1, <1>3, WFMin
  <1>5. PICK e \in T : x = n - e BY DEF U
  <1>6. \A d \in T : n - d \in U /\ n - d \in Nat BY DEF U
  <1>7. \A d \in T : ~(n - d < n - e) BY <1>2, <1>3, <1>4, <1>5, <1>6
  <1> QED BY <1>7

(* QueryEnterVehicle returns a car that is inside, or nothing.             *)
LEMMA LatestEntryInside ==
    ASSUME NEW p, passes \in Seq(PassRecords), inner \subseteq DOMAIN passes
    PROVE  LatestEntry(p) \in inner \cup {NoPass}
  <1>1. CASE Kind[p] = "unrecognised" \/ EnterVehicles(p) = {}
    BY <1>1 DEF LatestEntry
  <1>2. CASE ~(Kind[p] = "unrecognised" \/ EnterVehicles(p) = {})
    <2>1. DOMAIN passes = 1 .. Len(passes) /\ Len(passes) \in Nat OBVIOUS
    <2>2. EnterVehicles(p) \subseteq inner BY DEF EnterVehicles
    <2>3. EnterVehicles(p) \in SUBSET (1 .. Len(passes)) BY <2>1, <2>2
    <2>4. \E e \in EnterVehicles(p) : \A d \in EnterVehicles(p) : d <= e
      BY <1>2, <2>1, <2>3, LatestExists
    <2>5. LatestEntry(p) \in EnterVehicles(p) BY <1>2, <2>4 DEF LatestEntry
    <2> QED BY <2>2, <2>5
  <1> QED BY <1>1, <1>2

-----------------------------------------------------------------------------
(* What a step does to the lists.                                          *)
Pending(e) == \E t \in Threads : \E i \in DOMAIN todo[t] : Removes(todo[t][i], e)
Departing(e) == e \in stranded \/ Pending(e)

(* PendingDeletes, read off the list of the thread.                        *)
LEMMA PendingIs ==
    ASSUME NEW t
    PROVE  /\ \A e : e \in PendingDeletes(t) <=> \E i \in DOMAIN todo[t] : Removes(todo[t][i], e)
           /\ \A e : e \in PendingDeletes(t)' <=>
                       \E i \in DOMAIN todo'[t] : Removes(todo'[t][i], e)
  BY DEF PendingDeletes, ToSet, Removes

(* More rows and more accounted money keep a list good.                    *)
LEMMA GoodMonotone ==
    ASSUME NEW D, NEW s \in Seq(Stmts(D)), NEW ch, NEW ch2, ch \subseteq ch2,
           NEW acc \in [Plates -> Nat], NEW acc2 \in [Plates -> Nat],
           \A p \in Plates : acc[p] <= acc2[p], Good(s, ch, acc)
    PROVE  Good(s, ch2, acc2)
  <1>1. UpdatesBacked(s, acc2)
    <2> SUFFICES ASSUME NEW i \in DOMAIN s, s[i].op = "update",
                        ~(InitBalance[s[i].plate] - s[i].money <= acc2[s[i].plate])
                 PROVE  \E j \in 1 .. (i - 1) :
                          /\ s[j].op = "insert" /\ s[i].plate \in s[j].row.payer
                          /\ InitBalance[s[i].plate] - s[i].money
                               <= acc2[s[i].plate] + s[j].row.charge
      BY DEF UpdatesBacked
    <2>1. s[i].plate \in Plates /\ s[i].money \in Nat BY StmtFields
    <2>2. InitBalance[s[i].plate] \in Nat BY <2>1, LedgerAssumption
    <2>3. ~(InitBalance[s[i].plate] - s[i].money <= acc[s[i].plate]) BY <2>1, <2>2
    <2>4. PICK j \in 1 .. (i - 1) :
             /\ s[j].op = "insert" /\ s[i].plate \in s[j].row.payer
             /\ InitBalance[s[i].plate] - s[i].money <= acc[s[i].plate] + s[j].row.charge
      BY <2>3 DEF Good, UpdatesBacked
    <2>5. s[j] \in Stmts(D) OBVIOUS
    <2>6. s[j].row.charge \in Nat BY <2>4, <2>5, StmtFields DEF RowSet
    <2>7. InitBalance[s[i].plate] - s[i].money <= acc2[s[i].plate] + s[j].row.charge
      BY <2>1, <2>2, <2>4, <2>6
    <2> QED BY <2>4, <2>7
  <1>2. OpeningsRecorded(s, ch2) BY DEF Good, OpeningsRecorded
  <1> QED BY <1>1, <1>2 DEF Good

(* The tables only grow, as seen from a list.                              *)
Grows ==
    /\ DOMAIN passes \subseteq DOMAIN passes' /\ charges \subseteq charges'
    /\ accounted' \in [Plates -> Nat]
    /\ \A p \in Plates : accounted[p] <= accounted'[p]

(* Thread t gets the list s; the others keep theirs.                       *)
LEMMA NewList ==
    ASSUME Typed, ListsTyped, ListsGood, Grows, NEW t \in Threads,
           NEW s \in Seq(Stmts(DOMAIN passes')), Good(s, charges', accounted'),
           todo' = [todo EXCEPT ![t] = s]
    PROVE  /\ ListsTyped' /\ ListsGood'
           /\ \A e : Pending(e) => Pending(e)' \/ \E i \in DOMAIN todo[t] : Removes(todo[t][i], e)
           /\ \A e : (\E i \in DOMAIN s : Removes(s[i], e)) => Pending(e)'
  <1>1. Stmts(DOMAIN passes) \subseteq Stmts(DOMAIN passes') BY StmtsMonotonic DEF Grows
  <1>2. \A u \in Threads : todo[u] \in Seq(Stmts(DOMAIN passes)) BY DEF ListsTyped
  <1>3. \A u \in Threads \ {t} : todo'[u] = todo[u] BY DEF ListsTyped
  <1>4. todo'[t] = s BY DEF ListsTyped
  <1>5. \A u \in Threads \ {t} : todo'[u] \in Seq(Stmts(DOMAIN passes'))
    BY <1>1, <1>2, <1>3, SeqMonotonic
  <1>6. ListsTyped'
    BY <1>4, <1>5 DEF ListsTyped
  <1>7. ListsGood'
    <2> SUFFICES ASSUME NEW u \in Threads PROVE Good(todo'[u], charges', accounted')
      BY DEF ListsGood
    <2>1. CASE u = t BY <1>4, <2>1
    <2>2. CASE u # t
      <3>1. accounted \in [Plates -> Nat] BY DEF Typed, TypeOK
      <3>2. Good(todo[u], charges, accounted) BY DEF ListsGood
      <3>3. Good(todo[u], charges', accounted') BY <1>2, <3>1, <3>2, GoodMonotone DEF Grows
      <3> QED BY <1>3, <2>2, <3>3
    <2> QED BY <2>1, <2>2
  <1>8. ASSUME NEW e, Pending(e)
        PROVE  Pending(e)' \/ \E i \in DOMAIN todo[t] : Removes(todo[t][i], e)
    BY <1>3, <1>8 DEF Pending
  <1>9. ASSUME NEW e, \E i \in DOMAIN s : Removes(s[i], e)
        PROVE  Pending(e)'
    BY <1>4, <1>9 DEF Pending
  <1> QED BY <1>6, <1>7, <1>8, <1>9

(* The first statement of t is executed and the program a comes in front   *)
(* of the rest: only a delete that was executed is no longer pending.      *)
Executed(t) ==
    Head(todo[t]).op = "insert" =>
      /\ Head(todo[t]).row \in charges'
      /\ \A p \in Head(todo[t]).row.payer \cap Plates :
           accounted[p] + Head(todo[t]).row.charge <= accounted'[p]

(* Executing the first statement of a list and putting a good program in   *)
(* its place keeps all lists good; only the deletes of the executed        *)
(* statement stop being pending.                                           *)
LEMMA ListStep ==
    ASSUME Typed, ListsTyped, ListsGood, Grows, DOMAIN passes' = DOMAIN passes,
           NEW t \in Threads, todo[t] # <<>>, Executed(t), NEW a,
           GoodProgram(a, DOMAIN passes, charges', accounted'), Then(t, a)
    PROVE  /\ ListsTyped' /\ ListsGood'
           /\ \A e : Pending(e) /\ ~Removes(Head(todo[t]), e) => Pending(e)'
  <1> DEFINE D == DOMAIN passes
             s == todo[t]
             u == Tail(s)
  <1>1. s \in Seq(Stmts(D)) /\ Good(s, charges, accounted) BY DEF ListsTyped, ListsGood
  <1>2. accounted \in [Plates -> Nat] /\ accounted' \in [Plates -> Nat]
    BY DEF Typed, TypeOK, Grows
  <1>3. Good(u, charges', accounted')
    BY <1>1, <1>2, GoodTail DEF Grows, Executed
  <1>4. u \in Seq(Stmts(D)) BY <1>1, HeadTailProperties
  <1>5. a \in Seq(Stmts(D)) /\ NoLatest(a) /\ Good(a, charges', accounted') BY DEF GoodProgram
  <1>6. a \o u \in Seq(Stmts(D)) /\ Good(a \o u, charges', accounted')
    BY <1>2, <1>3, <1>4, <1>5, GoodConcat
  <1>7. todo' = [todo EXCEPT ![t] = a \o u] BY DEF Then
  <1>8. /\ ListsTyped' /\ ListsGood'
        /\ \A e : Pending(e) => Pending(e)' \/ \E i \in DOMAIN s : Removes(s[i], e)
        /\ \A e : (\E i \in DOMAIN (a \o u) : Removes((a \o u)[i], e)) => Pending(e)'
    BY <1>6, <1>7, NewList
  <1>9. ASSUME NEW e, Pending(e), ~Removes(Head(s), e)
        PROVE  Pending(e)'
    <2>1. CASE ~\E i \in DOMAIN s : Removes(s[i], e) BY <1>8, <1>9, <2>1
    <2>2. CASE \E i \in DOMAIN s : Removes(s[i], e)
      <3>1. PICK i \in DOMAIN s : Removes(s[i], e) BY <2>2
      <3>2. i # 1 /\ i \in 1 .. Len(s) BY <1>1, <1>9, <3>1
      <3>3. Len(a) \in Nat /\ Len(u) = Len(s) - 1 /\ i - 1 \in 1 .. Len(u) /\ u[i - 1] = s[i]
        BY <1>1, <1>5, <3>2
      <3>4. Len(a) + (i - 1) \in DOMAIN (a \o u) /\ (a \o u)[Len(a) + (i - 1)] = u[i - 1]
        <4> HIDE DEF u
        <4>1. DOMAIN (a \o u) = 1 .. (Len(a) + Len(u)) BY <1>4, <1>5
        <4> QED BY <1>4, <1>5, <3>3, <4>1, ConcatProperties
      <3> QED BY <1>8, <3>1, <3>3, <3>4
    <2> QED BY <2>1, <2>2
  <1> QED BY <1>8, <1>9

(* A handler that throws forgets its list.                                 *)
LEMMA DropStep ==
    ASSUME Typed, ListsTyped, ListsGood, NEW t \in Threads, Throw(t),
           UNCHANGED <<passes, charges, accounted>>
    PROVE  /\ ListsTyped' /\ ListsGood'
           /\ \A e : Pending(e) => Pending(e)' \/ e \in PendingDeletes(t)
  <1>1. Grows BY DEF Grows, Typed, TypeOK
  <1>2. <<>> \in Seq(Stmts(DOMAIN passes')) /\ Good(<<>>, charges', accounted')
    BY NoProgram DEF GoodProgram
  <1>3. todo' = [todo EXCEPT ![t] = <<>>] BY DEF Throw
  <1>4. ListsTyped' /\ ListsGood' /\
        \A e : Pending(e) => Pending(e)' \/ \E i \in DOMAIN todo[t] : Removes(todo[t][i], e)
    BY <1>1, <1>2, <1>3, NewList
  <1> QED BY <1>4, PendingIs

(* The two invariants on park_inner_cars, when no row, no entry and no     *)
(* event is added and no entry still inside is forgotten.                  *)
LEMMA StillLeaving ==
    ASSUME Inv, charges' = charges, passes' = passes, inner' \subseteq inner,
           \A e \in inner' : Departing(e) => Departing(e)'
    PROVE  RecordedEntryLeaves' /\ NoPhantomInside'
  <1>1. \A e : Departing(e)' <=> (e \in stranded' \/ \E t \in Threads : e \in PendingDeletes(t)')
    BY PendingIs DEF Departing, Pending
  <1>2. \A e : Departing(e) <=> (e \in stranded \/ \E t \in Threads : e \in PendingDeletes(t))
    BY PendingIs DEF Departing, Pending
  <1>3. RecordedEntryLeaves'
    BY <1>1, <1>2 DEF Inv, RecordedEntryLeaves
  <1>4. NoPhantomInside'
    BY <1>1, <1>2 DEF Inv, NoPhantomInside
  <1> QED BY <1>3, <1>4

(* What a good list says of its first statement.                           *)
LEMMA FirstOfGood ==
    ASSUME Inv, NEW t \in Threads, todo[t] # <<>>
    PROVE  LET st == Head(todo[t]) IN
           /\ st \in Stmts(DOMAIN passes)
           /\ st.op = "update" => InitBalance[st.plate] - st.money <= accounted[st.plate]
           /\ \A x \in 1 .. MaxPasses : Opens(st, x) => Recorded(charges, x)
           /\ (st.op = "insert" /\ st.row.enter # NoPass /\ st.row.pay # "no_entry") =>
                Pending(st.row.enter)
           /\ st.op = "latest_charge" => \A e : e \notin PendingDeletes(t)
  <1> DEFINE s == todo[t]
  <1>1. s \in Seq(Stmts(DOMAIN passes)) /\ Good(s, charges, accounted)
    BY DEF Inv, ListsTyped, ListsGood
  <1>2. 1 \in DOMAIN s /\ s[1] = Head(s) /\ Head(s) \in Stmts(DOMAIN passes) BY <1>1
  <1>3. Head(s).op = "update" => InitBalance[s[1].plate] - s[1].money <= accounted[s[1].plate]
    BY <1>1, <1>2 DEF Good, UpdatesBacked
  <1>4. \A x \in 1 .. MaxPasses : Opens(Head(s), x) => Recorded(charges, x)
    BY <1>1, <1>2 DEF Good, OpeningsRecorded, Recorded
  <1>5. (s[1].op = "insert" /\ s[1].row.enter # NoPass /\ s[1].row.pay # "no_entry") =>
          \E k \in DOMAIN s : Removes(s[k], s[1].row.enter)
    BY <1>1, <1>2 DEF Good, EntriesLeave
  <1>6. ASSUME Head(s).op = "latest_charge", NEW e
        PROVE  e \notin PendingDeletes(t)
    <2>1. Len(s) = 1 BY <1>1, <1>2, <1>6 DEF Good, LatestIsLast
    <2>2. \A i \in DOMAIN s : s[i] = Head(s) BY <1>1, <1>2, <2>1
    <2> QED BY <1>6, <2>2, PendingIs DEF Removes
  <1> QED BY <1>2, <1>3, <1>4, <1>5, <1>6 DEF Pending

(* A statement that is not an insert: the invariants on the lists and on   *)
(* park_inner_cars.                                                        *)
LEMMA QuietStep ==
    ASSUME Inv, NEW t \in Threads, todo[t] # <<>>, Head(todo[t]).op # "insert",
           UNCHANGED <<passes, charges, stranded>>, inner' \subseteq inner,
           accounted' \in [Plates -> Nat], \A p \in Plates : accounted[p] <= accounted'[p],
           \A e \in inner' : ~Removes(Head(todo[t]), e),
           NEW a, GoodProgram(a, DOMAIN passes, charges, accounted'), Then(t, a)
    PROVE  ListsTyped' /\ ListsGood' /\ RecordedEntryLeaves' /\ NoPhantomInside'
  <1>1. Grows /\ Executed(t) BY DEF Grows, Executed
  <1>2. /\ ListsTyped' /\ ListsGood'
        /\ \A e : Pending(e) /\ ~Removes(Head(todo[t]), e) => Pending(e)'
    BY <1>1, ListStep DEF Inv
  <1>3. \A e \in inner' : Departing(e) => Departing(e)' BY <1>2 DEF Departing
  <1> QED BY <1>2, <1>3, StillLeaving

(* The same, for a statement that leaves the accounts alone and is not a   *)
(* delete.                                                                 *)
LEMMA PlainStep ==
    ASSUME Inv, NEW t \in Threads, todo[t] # <<>>,
           Head(todo[t]).op \notin {"insert", "delete"},
           UNCHANGED <<passes, inner, charges, accounted, stranded>>,
           NEW a, GoodProgram(a, DOMAIN passes, charges, accounted), Then(t, a)
    PROVE  ListsTyped' /\ ListsGood' /\ RecordedEntryLeaves' /\ NoPhantomInside'
  <1>1. accounted \in [Plates -> Nat] BY DEF Inv, Typed, TypeOK
  <1>2. \A e \in inner' : ~Removes(Head(todo[t]), e) BY DEF Removes
  <1> QED BY <1>1, <1>2, QuietStep

(* A failure that is still allowed is within the bound.                    *)
LEMMA FailureLeft ==
    ASSUME Typed, MayFail
    PROVE  failures + 1 \in 0 .. MaxFailures
  <1>1. DOMAIN passes = 1 .. Len(passes) /\ Len(passes) \in Nat
    BY DEF Typed, TypeOK
  <1>2. IsFiniteSet(DOMAIN passes) BY <1>1, FS_Interval
  <1>3. Corrected \in SUBSET DOMAIN passes BY DEF Corrected
  <1>4. Cardinality(Corrected) \in Nat BY <1>2, <1>3, FS_Subset, FS_CardinalityType
  <1> QED BY <1>4, LedgerAssumption DEF Typed, TypeOK, MayFail

-----------------------------------------------------------------------------
(* The actions.                                                            *)

(* At the start the lot is empty and no thread is busy.                    *)
LEMMA InitOK == Init => Inv
  <1> SUFFICES ASSUME Init PROVE Inv OBVIOUS
  <1> USE DEF Init
  <1>1. passes = <<>> /\ DOMAIN passes = {} /\ Len(passes) = 0 OBVIOUS
  <1>2. Typed
    <2>1. passes \in Seq(PassRecords) BY <1>1
    <2> QED BY <1>1, <2>1, LedgerAssumption DEF Typed, TypeOK, PassRecords
  <1>3. ListsTyped BY DEF ListsTyped
  <1>4. ListsGood
    <2>1. \A t \in Threads : todo[t] = <<>> OBVIOUS
    <2> QED BY <2>1, NoProgram DEF ListsGood, GoodProgram
  <1>5. NeverOvercharged BY LedgerAssumption DEF NeverOvercharged
  <1> QED BY <1>2, <1>3, <1>4, <1>5
          DEF Inv, OpenedOnlyAfterRecorded, RecordedEntryLeaves, NoPhantomInside

(* Typed once more, field by field.                                        *)
LEMMA TypedFacts ==
    ASSUME Typed
    PROVE  /\ passes \in Seq(PassRecords) /\ Len(passes) \in Nat
           /\ DOMAIN passes = 1 .. Len(passes) /\ DOMAIN passes \subseteq 1 .. MaxPasses
           /\ \A x \in DOMAIN passes : passes[x] \in PassRecords
           /\ accounted \in [Plates -> Nat] /\ balance \in [Plates -> Nat]
           /\ lastId \in 0 .. MaxCharges
  <1>1. passes \in Seq(PassRecords) BY DEF Typed, TypeOK, PassRecords
  <1>2. Len(passes) \in Nat /\ DOMAIN passes = 1 .. Len(passes) BY <1>1
  <1>3. \A x \in DOMAIN passes : passes[x] \in PassRecords BY <1>1
  <1> QED BY <1>1, <1>2, <1>3, LedgerAssumption DEF Typed, TypeOK

(* Rows and quotes of events that have happened are rows and quotes of the *)
(* types.                                                                  *)
LEMMA WithinTypes ==
    ASSUME Typed
    PROVE  RowSet(DOMAIN passes) \subseteq Rows /\ QuoteSet(DOMAIN passes) \subseteq Quotes
  <1>1. DOMAIN passes \subseteq 1 .. MaxPasses BY TypedFacts
  <1>2. DOMAIN passes \cup {NoPass} \subseteq 0 .. MaxPasses
    BY <1>1, LedgerAssumption DEF NoPass
  <1> QED BY <1>1, <1>2 DEF RowSet, Rows, QuoteSet, Quotes

(* DeleteInner and DeleteInnerVehicleByPlateNumber: an executed delete is  *)
(* no longer pending, but its entry is no longer inside either.            *)
LEMMA DeletesKeep ==
    ASSUME Inv, NEW t \in Threads, DeleteInner(t) \/ DeleteInnerVehicleByPlateNumber(t)
    PROVE  Inv'
  <1>1. todo[t] # <<>> /\ Head(todo[t]).op \in {"delete", "delete_by_plate"}
    BY DEF DeleteInner, DeleteInnerVehicleByPlateNumber, At
  <1>2. UNCHANGED <<passes, charges, balance, accounted, lastId, quotes, unmatched, opened,
                    stranded, failures>> /\ inner' \subseteq inner /\ Then(t, <<>>)
    BY DEF DeleteInner, DeleteInnerVehicleByPlateNumber
  <1>3. \A e \in inner' : ~Removes(Head(todo[t]), e)
    BY <1>1 DEF DeleteInner, DeleteInnerVehicleByPlateNumber, Removes, At
  <1>4. accounted \in [Plates -> Nat] BY DEF Inv, Typed, TypeOK
  <1>5. GoodProgram(<<>>, DOMAIN passes, charges, accounted') BY NoProgram
  <1>6. ListsTyped' /\ ListsGood' /\ RecordedEntryLeaves' /\ NoPhantomInside'
    BY <1>1, <1>2, <1>3, <1>4, <1>5, QuietStep
  <1>7. Typed' BY <1>2, <1>6 DEF Inv, Typed, TypeOK, ListsTyped
  <1>8. NeverOvercharged' /\ OpenedOnlyAfterRecorded'
    BY <1>2 DEF Inv, NeverOvercharged, OpenedOnlyAfterRecorded
  <1> QED BY <1>6, <1>7, <1>8 DEF Inv

(* The query that always ends the handler: nothing was left to do.         *)
LEMMA LatestChargeKeeps ==
    ASSUME Inv, NEW t \in Threads, QueryLastestChargeByPlateNumber(t)
    PROVE  Inv'
  <1> USE DEF QueryLastestChargeByPlateNumber
  <1>1. ListsTyped' /\ ListsGood' /\ \A e : Pending(e) => Pending(e)' \/ e \in PendingDeletes(t)
    BY DropStep DEF Inv
  <1>2. \A e : e \notin PendingDeletes(t) BY FirstOfGood DEF At
  <1>3. RecordedEntryLeaves' /\ NoPhantomInside'
    BY <1>1, <1>2, StillLeaving DEF Departing
  <1>4. Typed' BY <1>1 DEF Inv, Typed, TypeOK, ListsTyped
  <1>5. NeverOvercharged' /\ OpenedOnlyAfterRecorded'
    BY DEF Inv, NeverOvercharged, OpenedOnlyAfterRecorded
  <1> QED BY <1>1, <1>3, <1>4, <1>5 DEF Inv

(* InsertRejected and StatementFails: the deletes that are dropped leave   *)
(* their entries stranded.                                                 *)
LEMMA FailuresKeep ==
    ASSUME Inv, NEW t \in Threads, InsertRejected(t) \/ StatementFails(t)
    PROVE  Inv'
  <1>1. /\ UNCHANGED <<passes, inner, charges, balance, accounted, lastId, quotes, unmatched,
                       opened>>
        /\ stranded' = stranded \cup PendingDeletes(t) /\ Throw(t)
    BY DEF InsertRejected, StatementFails
  <1>2. failures' \in 0 .. MaxFailures
    <2>1. CASE InsertRejected(t) BY <2>1 DEF InsertRejected, Inv, Typed, TypeOK
    <2>2. CASE StatementFails(t) BY <2>2, FailureLeft DEF StatementFails, Inv
    <2> QED BY <2>1, <2>2
  <1>3. ListsTyped' /\ ListsGood' /\ \A e : Pending(e) => Pending(e)' \/ e \in PendingDeletes(t)
    BY <1>1, DropStep DEF Inv
  <1>4. RecordedEntryLeaves' /\ NoPhantomInside'
    BY <1>1, <1>3, StillLeaving DEF Departing
  <1>5. PendingDeletes(t) \subseteq DOMAIN passes
    <2> SUFFICES ASSUME NEW e \in PendingDeletes(t) PROVE e \in DOMAIN passes OBVIOUS
    <2>1. PICK i \in DOMAIN todo[t] : Removes(todo[t][i], e) BY PendingIs
    <2>2. todo[t] \in Seq(Stmts(DOMAIN passes)) BY DEF Inv, ListsTyped
    <2>3. todo[t][i] \in Stmts(DOMAIN passes) BY <2>1, <2>2
    <2> QED BY <2>1, <2>3, StmtFields DEF Removes
  <1>6. Typed' BY <1>1, <1>2, <1>3, <1>5 DEF Inv, Typed, TypeOK, ListsTyped
  <1>7. NeverOvercharged' /\ OpenedOnlyAfterRecorded'
    BY <1>1 DEF Inv, NeverOvercharged, OpenedOnlyAfterRecorded
  <1> QED BY <1>3, <1>4, <1>6, <1>7 DEF Inv

(* QueryEnterVehicle: the branch it chooses is a good program.             *)
LEMMA FindEntryKeeps ==
    ASSUME Inv, NEW t \in Threads, QueryEnterVehicle(t)
    PROVE  Inv'
  <1> DEFINE st == Head(todo[t])
             enter == LatestEntry(passes[st.exit].plate)
             a == ReleaseProgram(enter, st.exit, st.then, lastId')
  <1>1. todo[t] # <<>> /\ st.op = "find_entry" BY DEF QueryEnterVehicle, At
  <1>2. /\ lastId' = (IF st.then = "charge" THEN lastId ELSE lastId + 1)
        /\ lastId' <= MaxCharges /\ Then(t, a)
        /\ UNCHANGED <<passes, inner, charges, balance, accounted, quotes, unmatched, opened,
                       stranded, failures>>
    BY DEF QueryEnterVehicle
  <1>3. /\ st.exit \in DOMAIN passes /\ st.then \in {"charge", "free", "free_closed"}
    BY <1>1, FirstOfGood, StmtFields
  <1>4. inner \subseteq DOMAIN passes /\ passes \in Seq(PassRecords)
        /\ accounted \in [Plates -> Nat] /\ lastId \in 0 .. MaxCharges
    BY TypedFacts DEF Inv, Typed, TypeOK
  <1>5. enter \in DOMAIN passes \cup {NoPass} BY <1>4, LatestEntryInside
  <1>6. passes[st.exit].plate \in Plates BY <1>3, TypedFacts DEF Inv, PassRecords
  <1>7. lastId' \in 0 .. MaxCharges /\ (st.then # "charge" => lastId' \in 1 .. MaxCharges)
    BY <1>2, <1>4, LedgerAssumption
  <1>8. GoodProgram(a, DOMAIN passes, charges, accounted)
    <2> HIDE DEF enter
    <2> QED BY <1>3, <1>4, <1>5, <1>6, <1>7, ReleaseIsGood
  <1> HIDE DEF a
  <1>9. ListsTyped' /\ ListsGood' /\ RecordedEntryLeaves' /\ NoPhantomInside'
    BY <1>1, <1>2, <1>8, PlainStep
  <1>10. Typed' BY <1>2, <1>7, <1>9 DEF Inv, Typed, TypeOK, ListsTyped
  <1>11. NeverOvercharged' /\ OpenedOnlyAfterRecorded'
    BY <1>2 DEF Inv, NeverOvercharged, OpenedOnlyAfterRecorded
  <1> QED BY <1>9, <1>10, <1>11 DEF Inv

(* handle_charge: the balance it read is accounted for at this moment, and *)
(* what it plans to write is computed from that one.                       *)
LEMMA ChargeKeeps ==
    ASSUME Inv, NEW t \in Threads, handle_charge(t)
    PROVE  Inv'
  <1> DEFINE s == Head(todo[t])
             p == s.plate
             fee == passes[s.exit].fee
             money == balance[p]
             q == [id |-> lastId + 1, enter |-> s.enter, exit |-> s.exit,
                   require |-> RequireCharge(p, fee, money)]
             a == (IF Kind[p] = "stored"
                   THEN StoredValueProgram(p, lastId + 1, s.enter, s.exit, fee, money)
                   ELSE TimedProgram(lastId + 1, s.enter, s.exit, fee))
                  \o AfterCharge(s.by, q)
  <1>1. todo[t] # <<>> /\ s.op = "handle_charge" BY DEF handle_charge, At
  <1>2. /\ lastId < MaxCharges /\ lastId' = lastId + 1 /\ Then(t, a)
        /\ accounted' = (IF Kind[p] = "stored" /\ money < fee
                         THEN [accounted EXCEPT ![p] = @ + money] ELSE accounted)
        /\ UNCHANGED <<passes, inner, charges, balance, quotes, unmatched, opened, stranded,
                       failures>>
    BY DEF handle_charge
  <1>3. /\ s.exit \in DOMAIN passes /\ s.enter \in DOMAIN passes \cup {NoPass}
        /\ p \in Plates /\ s.by \in {"device", "match"}
    BY <1>1, FirstOfGood, StmtFields
  <1>4. accounted \in [Plates -> Nat] /\ balance \in [Plates -> Nat]
        /\ lastId \in 0 .. MaxCharges
    BY TypedFacts DEF Inv
  <1>5. fee \in Nat /\ money \in Nat
    <2>1. passes[s.exit] \in PassRecords BY <1>3, TypedFacts DEF Inv
    <2> QED BY <1>3, <1>4, <2>1 DEF PassRecords
  <1>6. lastId + 1 \in 1 .. MaxCharges BY <1>2, <1>4, LedgerAssumption
  <1>7. InitBalance[p] - money <= accounted[p] BY <1>3 DEF Inv, NeverOvercharged
  <1>8. GoodProgram(a, DOMAIN passes, charges, accounted')
    <2> DEFINE id == lastId + 1
               acc2 == accounted'
    <2>1. id \in 1 .. MaxCharges BY <1>6
    <2>2. acc2 = IF Kind[p] = "stored" /\ money < fee
                 THEN [accounted EXCEPT ![p] = @ + money] ELSE accounted
      BY <1>2
    <2> HIDE DEF s, p, fee, money, id, acc2
    <2>3. \A r : r = [id |-> id, enter |-> s.enter, exit |-> s.exit,
                      require |-> RequireCharge(p, fee, money)] =>
            GoodProgram((IF Kind[p] = "stored"
                         THEN StoredValueProgram(p, id, s.enter, s.exit, fee, money)
                         ELSE TimedProgram(id, s.enter, s.exit, fee)) \o AfterCharge(s.by, r),
                        DOMAIN passes, charges, acc2)
      BY <1>3, <1>4, <1>5, <1>7, <2>1, <2>2, ChargeIsGood
    <2> QED BY <2>3 DEF id, acc2, p, fee, money
  <1>9. accounted' \in [Plates -> Nat] /\ \A r \in Plates : accounted[r] <= accounted'[r]
    <2> HIDE DEF s, p, fee, money
    <2> QED BY <1>2, <1>3, <1>4, <1>5
  <1>10. \A e \in inner' : ~Removes(Head(todo[t]), e) BY <1>1 DEF Removes
  <1> HIDE DEF a
  <1>11. ListsTyped' /\ ListsGood' /\ RecordedEntryLeaves' /\ NoPhantomInside'
    BY <1>1, <1>2, <1>8, <1>9, <1>10, QuietStep
  <1>12. Typed' BY <1>2, <1>6, <1>9, <1>11 DEF Inv, Typed, TypeOK, ListsTyped
  <1>13. NeverOvercharged'
    <2> SUFFICES ASSUME NEW r \in Plates
                 PROVE  InitBalance[r] - balance'[r] <= accounted'[r]
      BY DEF NeverOvercharged
    <2>1. InitBalance[r] \in Nat BY LedgerAssumption
    <2>2. InitBalance[r] - balance[r] <= accounted[r] BY DEF Inv, NeverOvercharged
    <2>3. balance'[r] = balance[r] BY <1>2
    <2> QED BY <1>4, <1>9, <2>1, <2>2, <2>3
  <1>14. OpenedOnlyAfterRecorded' BY <1>2 DEF Inv, OpenedOnlyAfterRecorded
  <1> QED BY <1>11, <1>12, <1>13, <1>14 DEF Inv

(* InsertChargeRecord: the new row accounts for its charge, and the delete *)
(* of its entry is in the rest of the list.                                *)
LEMMA InsertKeeps ==
    ASSUME Inv, NEW t \in Threads, InsertChargeRecord(t)
    PROVE  Inv'
  <1> DEFINE s == Head(todo[t])
             row == s.row
             D == DOMAIN passes
  <1>1. todo[t] # <<>> /\ s.op = "insert" BY DEF InsertChargeRecord, At
  <1>2. /\ charges' = charges \cup {row} /\ Then(t, <<>>)
        /\ accounted' = [p \in Plates |->
                           accounted[p] + IF p \in row.payer THEN row.charge ELSE 0]
        /\ UNCHANGED <<passes, inner, balance, lastId, quotes, unmatched, opened, stranded,
                       failures>>
    BY DEF InsertChargeRecord
  <1>3. row \in RowSet(D) BY <1>1, FirstOfGood, StmtFields
  <1>4. row.charge \in Nat BY <1>3 DEF RowSet
  <1>5. accounted \in [Plates -> Nat] /\ balance \in [Plates -> Nat] BY TypedFacts DEF Inv
  <1> HIDE DEF row
  <1>6. accounted' \in [Plates -> Nat] /\ \A p \in Plates : accounted[p] <= accounted'[p]
    BY <1>2, <1>4, <1>5
  <1>7. \A p \in row.payer \cap Plates : accounted[p] + row.charge <= accounted'[p]
    BY <1>2, <1>4, <1>5
  <1>8. Grows BY <1>2, <1>6 DEF Grows
  <1>9. Executed(t) BY <1>2, <1>7 DEF Executed, row
  <1>10. GoodProgram(<<>>, D, charges', accounted') BY NoProgram
  <1>11. /\ ListsTyped' /\ ListsGood'
         /\ \A e : Pending(e) /\ ~Removes(s, e) => Pending(e)'
    BY <1>1, <1>2, <1>8, <1>9, <1>10, ListStep DEF Inv
  <1>12. \A e : Pending(e) => Pending(e)' BY <1>1, <1>11 DEF Removes
  <1>13. \A e : Departing(e) => Departing(e)' BY <1>2, <1>12 DEF Departing
  <1>14. \A e : Departing(e)' <=> (e \in stranded' \/ \E u \in Threads : e \in PendingDeletes(u)')
    BY PendingIs DEF Departing, Pending
  <1>15. \A e : Departing(e) <=> (e \in stranded \/ \E u \in Threads : e \in PendingDeletes(u))
    BY PendingIs DEF Departing, Pending
  <1>16. RecordedEntryLeaves'
    <2> SUFFICES ASSUME NEW r \in charges', r.enter # NoPass, r.pay # "no_entry",
                        r.enter \in inner'
                 PROVE  Departing(r.enter)'
      BY <1>14 DEF RecordedEntryLeaves
    <2>1. CASE r \in charges
      BY <1>2, <1>13, <1>15, <2>1 DEF Inv, RecordedEntryLeaves
    <2>2. CASE r = row
      BY <1>1, <1>12, <2>2, FirstOfGood DEF Departing, row
    <2> QED BY <1>2, <2>1, <2>2
  <1>17. NoPhantomInside' BY <1>2, <1>13, <1>14, <1>15 DEF Inv, NoPhantomInside
  <1>18. Typed'
    <2>1. row \in Rows BY <1>3, WithinTypes DEF Inv
    <2> QED BY <1>2, <1>3, <1>6, <1>11, <2>1 DEF Inv, Typed, TypeOK, ListsTyped
  <1>19. NeverOvercharged'
    <2> SUFFICES ASSUME NEW r \in Plates
                 PROVE  InitBalance[r] - balance'[r] <= accounted'[r]
      BY DEF NeverOvercharged
    <2>1. InitBalance[r] \in Nat BY LedgerAssumption
    <2>2. InitBalance[r] - balance[r] <= accounted[r] BY DEF Inv, NeverOvercharged
    <2>3. balance'[r] = balance[r] BY <1>2
    <2> QED BY <1>5, <1>6, <2>1, <2>2, <2>3
  <1>20. OpenedOnlyAfterRecorded' BY <1>2 DEF Inv, OpenedOnlyAfterRecorded
  <1> QED BY <1>11, <1>16, <1>17, <1>18, <1>19, <1>20 DEF Inv

(* UpdateStoredValue: the first statement of a good list writes only what  *)
(* is accounted for already.                                               *)
LEMMA UpdateKeeps ==
    ASSUME Inv, NEW t \in Threads, UpdateStoredValue(t)
    PROVE  Inv'
  <1> DEFINE s == Head(todo[t])
  <1>1. todo[t] # <<>> /\ s.op = "update" BY DEF UpdateStoredValue, At
  <1>2. /\ balance' = [balance EXCEPT ![s.plate] = s.money] /\ Then(t, <<>>)
        /\ UNCHANGED <<passes, inner, charges, accounted, lastId, quotes, unmatched, opened,
                       stranded, failures>>
    BY DEF UpdateStoredValue
  <1>3. s.plate \in Plates /\ s.money \in Nat BY <1>1, FirstOfGood, StmtFields
  <1>4. InitBalance[s.plate] - s.money <= accounted[s.plate] BY <1>1, FirstOfGood
  <1>5. GoodProgram(<<>>, DOMAIN passes, charges, accounted) BY NoProgram
  <1>6. ListsTyped' /\ ListsGood' /\ RecordedEntryLeaves' /\ NoPhantomInside'
    BY <1>1, <1>2, <1>5, PlainStep
  <1> HIDE DEF s
  <1>7. Typed' BY <1>2, <1>3, <1>6 DEF Inv, Typed, TypeOK, ListsTyped
  <1>8. NeverOvercharged'
    <2>1. balance \in [Plates -> Nat] BY TypedFacts DEF Inv
    <2> QED BY <1>2, <1>3, <1>4, <2>1 DEF Inv, NeverOvercharged
  <1>9. OpenedOnlyAfterRecorded' BY <1>2 DEF Inv, OpenedOnlyAfterRecorded
  <1> QED BY <1>6, <1>7, <1>8, <1>9 DEF Inv

(* The steps towards the terminals and the gate that leave the accounts,   *)
(* the rows and park_inner_cars alone: what is left to show of each.       *)
Elsewhere == UNCHANGED <<passes, inner, charges, balance, accounted, stranded>>

(* A statement that reads the tables, or talks to a terminal, and          *)
(* continues with a good program.                                          *)
LEMMA ElsewhereKeeps ==
    ASSUME Inv, NEW t \in Threads, todo[t] # <<>>,
           Head(todo[t]).op \notin {"insert", "delete"}, Elsewhere,
           NEW a, GoodProgram(a, DOMAIN passes, charges, accounted), Then(t, a),
           lastId' \in 0 .. MaxCharges, failures' \in 0 .. MaxFailures,
           quotes' \subseteq QuoteSet(DOMAIN passes), unmatched' \subseteq DOMAIN passes,
           OpenedOnlyAfterRecorded'
    PROVE  Inv'
  <1>1. ListsTyped' /\ ListsGood' /\ RecordedEntryLeaves' /\ NoPhantomInside'
    BY PlainStep DEF Elsewhere
  <1>2. quotes' \subseteq Quotes BY WithinTypes DEF Inv
  <1>3. Typed' BY <1>1, <1>2 DEF Inv, Typed, TypeOK, ListsTyped, Elsewhere
  <1>4. NeverOvercharged' BY DEF Inv, NeverOvercharged, Elsewhere
  <1> QED BY <1>1, <1>3, <1>4 DEF Inv

(* The notifications about quotes and their answers.                       *)
LEMMA QuotesKeep ==
    ASSUME Inv, NEW t \in Threads,
           NotifiedQuote(t) \/ MatchPlateResponse(t) \/ CheckoutResponse(t)
    PROVE  Inv'
  <1>1. /\ todo[t] # <<>>
        /\ Head(todo[t]).op \in {"notify_quote", "reply_quote", "reply_paid"}
    BY DEF NotifiedQuote, MatchPlateResponse, CheckoutResponse, At
  <1>2. Head(todo[t]).quote \in QuoteSet(DOMAIN passes) BY <1>1, FirstOfGood, StmtFields
  <1>3. /\ Elsewhere /\ Then(t, <<>>) /\ UNCHANGED <<lastId, opened, failures>>
        /\ quotes' \subseteq quotes \cup {Head(todo[t]).quote} /\ unmatched' \subseteq unmatched
    BY DEF NotifiedQuote, MatchPlateResponse, CheckoutResponse, Elsewhere
  <1>4. GoodProgram(<<>>, DOMAIN passes, charges, accounted) BY NoProgram
  <1>5. /\ lastId' \in 0 .. MaxCharges /\ failures' \in 0 .. MaxFailures
        /\ quotes' \subseteq QuoteSet(DOMAIN passes) /\ unmatched' \subseteq DOMAIN passes
    BY <1>2, <1>3 DEF Inv, Typed, TypeOK
  <1>6. OpenedOnlyAfterRecorded'
    BY <1>3 DEF Inv, OpenedOnlyAfterRecorded, Elsewhere
  <1> QED BY <1>1, <1>3, <1>4, <1>5, <1>6, ElsewhereKeeps

(* Nobody is there for the quote: the gate is opened for an exit that is   *)
(* recorded, or the charge is recorded.                                    *)
LEMMA NobodyForQuoteKeeps ==
    ASSUME Inv, NEW t \in Threads, NobodyForQuote(t)
    PROVE  Inv'
  <1> DEFINE st == Head(todo[t])
             q == st.quote
             D == DOMAIN passes
  <1>1. todo[t] # <<>> /\ st.op = "notify_quote" BY DEF NobodyForQuote, At
  <1>2. UNCHANGED <<passes, inner, charges, balance, accounted, quotes, unmatched, opened,
                    stranded, failures>>
    BY DEF NobodyForQuote
  <1>3. q \in QuoteSet(D) BY <1>1, FirstOfGood, StmtFields
  <1>4. q.exit \in D /\ q.enter \in D \cup {NoPass} /\ q.require \in Nat BY <1>3 DEF QuoteSet
  <1>5. accounted \in [Plates -> Nat] /\ lastId \in 0 .. MaxCharges /\ D \subseteq 1 .. MaxPasses
    BY TypedFacts DEF Inv
  <1>6. PICK a : GoodProgram(a, D, charges, accounted) /\ Then(t, a)
                   /\ lastId' \in 0 .. MaxCharges
    <2>1. CASE q.require = 0
      <3> DEFINE g == OpenGate(q.exit, "charged")
      <3>1. Then(t, <<g>>) /\ lastId' = lastId BY <2>1 DEF NobodyForQuote
      <3>2. g \in Stmts(D) /\ g.op = "open" /\ g.exit = q.exit
        BY <1>4 DEF OpenGate, Stmts
      <3>3. Recorded(charges, q.exit)
        <4>1. Opens(st, q.exit) BY <1>1, <2>1 DEF Opens
        <4> QED BY <1>1, <1>4, <1>5, <4>1, FirstOfGood
      <3>4. \A x \in 1 .. MaxPasses : Opens(g, x) => Recorded(charges, x)
        BY <3>2, <3>3 DEF Opens
      <3> HIDE DEF g
      <3>5. GoodProgram(<<g>>, D, charges, accounted) BY <3>2, <3>4, OneStatement
      <3> QED BY <1>5, <3>1, <3>5
    <2>2. CASE q.require # 0
      <3> DEFINE row == Row(lastId + 1, q.enter, q.exit, q.require, "cash")
      <3>1. lastId < MaxCharges /\ lastId' = lastId + 1 /\ Then(t, Record(row))
        BY <2>2 DEF NobodyForQuote
      <3>2. lastId + 1 \in 1 .. MaxCharges BY <1>5, <3>1, LedgerAssumption
      <3>3. row \in RowSet(D) BY <1>4, <3>2, RowsTyped
      <3> HIDE DEF row
      <3>4. GoodProgram(Record(row), D, charges, accounted) BY <3>3, RecordIsGood
      <3> QED BY <3>1, <3>2, <3>4
    <2> QED BY <2>1, <2>2
  <1>7. Elsewhere /\ OpenedOnlyAfterRecorded'
    BY <1>2 DEF Elsewhere, Inv, OpenedOnlyAfterRecorded
  <1>8. /\ failures' \in 0 .. MaxFailures
        /\ quotes' \subseteq QuoteSet(D) /\ unmatched' \subseteq D
    BY <1>2 DEF Inv, Typed, TypeOK
  <1> QED BY <1>1, <1>6, <1>7, <1>8, ElsewhereKeeps

(* An exit without an entry.                                               *)
LEMMA UnmatchedKeep ==
    ASSUME Inv, NEW t \in Threads, NotifiedUnmatched(t) \/ NobodyForUnmatched(t)
    PROVE  Inv'
  <1> DEFINE st == Head(todo[t])
             D == DOMAIN passes
  <1>1. todo[t] # <<>> /\ st.op = "notify_unmatched"
    BY DEF NotifiedUnmatched, NobodyForUnmatched, At
  <1>2. st.exit \in D BY <1>1, FirstOfGood, StmtFields
  <1>3. UNCHANGED <<passes, inner, charges, balance, accounted, quotes, opened, stranded,
                    failures>>
    BY DEF NotifiedUnmatched, NobodyForUnmatched
  <1>4. accounted \in [Plates -> Nat] /\ lastId \in 0 .. MaxCharges /\ unmatched \subseteq D
    BY TypedFacts DEF Inv, Typed, TypeOK
  <1>5. PICK a : GoodProgram(a, D, charges, accounted) /\ Then(t, a)
                   /\ lastId' \in 0 .. MaxCharges /\ unmatched' \subseteq D
    <2>1. CASE NotifiedUnmatched(t)
      <3>1. Then(t, <<>>) /\ lastId' = lastId /\ unmatched' = unmatched \cup {st.exit}
        BY <2>1 DEF NotifiedUnmatched
      <3>2. GoodProgram(<<>>, D, charges, accounted) BY NoProgram
      <3> QED BY <1>2, <1>4, <3>1, <3>2
    <2>2. CASE NobodyForUnmatched(t)
      <3> DEFINE row == Row(lastId + 1, NoPass, st.exit, 0, "other")
                 g == OpenGate(st.exit, "unmatched")
      <3>1. /\ lastId < MaxCharges /\ lastId' = lastId + 1 /\ Then(t, <<g>> \o Record(row))
            /\ unmatched' = unmatched
        BY <2>2 DEF NobodyForUnmatched
      <3>2. lastId + 1 \in 1 .. MaxCharges BY <1>4, <3>1, LedgerAssumption
      <3>3. row \in RowSet(D) BY <1>2, <3>2, RowsTyped
      <3>4. g \in Stmts(D) /\ g.op = "open" /\ g.why = "unmatched" BY <1>2, StatementsTyped
      <3> HIDE DEF row, g
      <3>5. GoodProgram(<<g>>, D, charges, accounted) BY <3>4, OneStatement DEF Opens
      <3>6. GoodProgram(Record(row), D, charges, accounted) BY <3>3, RecordIsGood
      <3>7. GoodProgram(<<g>> \o Record(row), D, charges, accounted)
        BY <1>4, <3>5, <3>6, TwoPrograms
      <3> QED BY <1>4, <3>1, <3>2, <3>7
    <2> QED BY <2>1, <2>2
  <1>6. Elsewhere /\ OpenedOnlyAfterRecorded'
    BY <1>3 DEF Elsewhere, Inv, OpenedOnlyAfterRecorded
  <1>7. failures' \in 0 .. MaxFailures /\ quotes' \subseteq QuoteSet(D)
    BY <1>3 DEF Inv, Typed, TypeOK
  <1> QED BY <1>1, <1>5, <1>6, <1>7, ElsewhereKeeps

(* A free exit, the gate, and the error of a gate that is swallowed.       *)
LEMMA FreeExitKeeps ==
    ASSUME Inv, NEW t \in Threads, NotifyFreeExit(t)
    PROVE  Inv'
  <1> DEFINE st == Head(todo[t])
             D == DOMAIN passes
             g == OpenGate(st.exit, "charged")
  <1>1. todo[t] # <<>> /\ st.op = "notify_free" BY DEF NotifyFreeExit, At
  <1>2. st.exit \in D BY <1>1, FirstOfGood, StmtFields
  <1>3. UNCHANGED <<passes, inner, charges, balance, accounted, lastId, quotes, unmatched,
                    opened, stranded, failures>>
        /\ (Then(t, <<g>>) \/ Then(t, <<>>))
    BY DEF NotifyFreeExit
  <1>4. g \in Stmts(D) /\ g.op = "open" /\ g.exit = st.exit BY <1>2, StatementsTyped
  <1>5. D \subseteq 1 .. MaxPasses BY TypedFacts DEF Inv
  <1>6. Recorded(charges, st.exit)
    <2>1. Opens(st, st.exit) BY <1>1 DEF Opens
    <2> QED BY <1>1, <1>2, <1>5, <2>1, FirstOfGood
  <1>7. \A x \in 1 .. MaxPasses : Opens(g, x) => Recorded(charges, x) BY <1>4, <1>6 DEF Opens
  <1> HIDE DEF g
  <1>8. PICK a : GoodProgram(a, D, charges, accounted) /\ Then(t, a)
    <2>1. GoodProgram(<<g>>, D, charges, accounted) BY <1>4, <1>7, OneStatement
    <2>2. GoodProgram(<<>>, D, charges, accounted) BY NoProgram
    <2> QED BY <1>3, <2>1, <2>2
  <1>9. Elsewhere /\ OpenedOnlyAfterRecorded'
    BY <1>3 DEF Elsewhere, Inv, OpenedOnlyAfterRecorded
  <1>10. /\ lastId' \in 0 .. MaxCharges /\ failures' \in 0 .. MaxFailures
         /\ quotes' \subseteq QuoteSet(D) /\ unmatched' \subseteq D
    BY <1>3 DEF Inv, Typed, TypeOK
  <1> QED BY <1>1, <1>8, <1>9, <1>10, ElsewhereKeeps

(* The gate opens, or the error of a gate is swallowed: the record that    *)
(* the opening needs is there by then.                                     *)
LEMMA GateKeeps ==
    ASSUME Inv, NEW t \in Threads, GateOpens(t) \/ GateErrorSwallowed(t)
    PROVE  Inv'
  <1> DEFINE st == Head(todo[t])
             D == DOMAIN passes
  <1>1. todo[t] # <<>> /\ st.op \in {"open", "open_or_throw"}
    BY DEF GateOpens, GateErrorSwallowed, At
  <1>2. st.exit \in D /\ (st.op = "open" => st.why \in {"charged", "unmatched"})
    BY <1>1, FirstOfGood, StmtFields
  <1>3. UNCHANGED <<passes, inner, charges, balance, accounted, lastId, quotes, unmatched,
                    stranded>> /\ Then(t, <<>>)
    BY DEF GateOpens, GateErrorSwallowed
  <1>4. D \subseteq 1 .. MaxPasses BY TypedFacts DEF Inv
  <1>5. st.op = "open_or_throw" \/ st.why = "charged" => Recorded(charges, st.exit)
    <2>1. st.op = "open_or_throw" \/ st.why = "charged" => Opens(st, st.exit)
      BY <1>1 DEF Opens
    <2> QED BY <1>1, <1>2, <1>4, <2>1, FirstOfGood
  <1>6. OpenedOnlyAfterRecorded'
    <2>1. CASE GateOpens(t)
      <3> DEFINE o == [exit |-> st.exit, why |-> IF st.op = "open" THEN st.why ELSE "charged"]
      <3>1. opened' = opened \cup {o} BY <2>1 DEF GateOpens
      <3>2. o.why = "unmatched" \/ \E r \in charges : r.exit = o.exit
        BY <1>1, <1>2, <1>5 DEF Recorded
      <3> HIDE DEF o
      <3> QED BY <1>3, <3>1, <3>2 DEF Inv, OpenedOnlyAfterRecorded
    <2>2. CASE GateErrorSwallowed(t)
      BY <1>3, <2>2 DEF GateErrorSwallowed, Inv, OpenedOnlyAfterRecorded
    <2> QED BY <2>1, <2>2
  <1>7. failures' \in 0 .. MaxFailures
    <2>1. CASE GateOpens(t) BY <2>1 DEF GateOpens, Inv, Typed, TypeOK
    <2>2. CASE GateErrorSwallowed(t) BY <2>2, FailureLeft DEF GateErrorSwallowed, Inv
    <2> QED BY <2>1, <2>2
  <1>8. Elsewhere BY <1>3 DEF Elsewhere
  <1>9. GoodProgram(<<>>, D, charges, accounted) BY NoProgram
  <1>10. lastId' \in 0 .. MaxCharges /\ quotes' \subseteq QuoteSet(D) /\ unmatched' \subseteq D
    BY <1>3 DEF Inv, Typed, TypeOK
  <1> QED BY <1>1, <1>3, <1>6, <1>7, <1>8, <1>9, <1>10, ElsewhereKeeps

(* A request begins: the thread was idle, so that nothing is forgotten.    *)
LEMMA BeginStep ==
    ASSUME Inv, NEW t \in Threads, NEW s \in Seq(Stmts(DOMAIN passes')),
           Good(s, charges, accounted), Begin(t, s),
           DOMAIN passes \subseteq DOMAIN passes', UNCHANGED <<charges, accounted, stranded>>
    PROVE  /\ ListsTyped' /\ ListsGood'
           /\ \A e : Departing(e) => Departing(e)'
           /\ \A e : (\E i \in DOMAIN s : Removes(s[i], e)) => Departing(e)'
  <1>1. Grows BY DEF Grows, Inv, Typed, TypeOK
  <1>2. todo[t] = <<>> /\ todo' = [todo EXCEPT ![t] = s] BY DEF Begin
  <1>3. /\ ListsTyped' /\ ListsGood'
        /\ \A e : Pending(e) => Pending(e)' \/ \E i \in DOMAIN todo[t] : Removes(todo[t][i], e)
        /\ \A e : (\E i \in DOMAIN s : Removes(s[i], e)) => Pending(e)'
    BY <1>1, <1>2, NewList DEF Inv
  <1>4. DOMAIN todo[t] = {} BY <1>2
  <1> QED BY <1>3, <1>4 DEF Departing

(* on_match_plate and on_checkout.                                         *)
LEMMA RequestKeeps ==
    ASSUME Inv, NEW t \in Threads, NEW s \in Seq(Stmts(DOMAIN passes)),
           Good(s, charges, accounted), Begin(t, s), lastId' \in 0 .. MaxCharges,
           UNCHANGED <<passes, inner, charges, balance, accounted, quotes, unmatched, opened,
                       stranded, failures>>
    PROVE  Inv'
  <1>1. ListsTyped' /\ ListsGood' /\ \A e : Departing(e) => Departing(e)'
    BY BeginStep
  <1>2. RecordedEntryLeaves' /\ NoPhantomInside' BY <1>1, StillLeaving
  <1>3. Typed' BY <1>1 DEF Inv, Typed, TypeOK, ListsTyped
  <1>4. NeverOvercharged' /\ OpenedOnlyAfterRecorded'
    BY DEF Inv, NeverOvercharged, OpenedOnlyAfterRecorded
  <1> QED BY <1>1, <1>2, <1>3, <1>4 DEF Inv

(* on_match_plate starts with what HandleCharge decides for the pair.      *)
LEMMA MatchKeeps ==
    ASSUME Inv, NEW t \in Threads, NEW enter \in Entries, NEW exit \in Shown,
           on_match_plate(t, enter, exit)
    PROVE  Inv'
  <1> DEFINE D == DOMAIN passes
             p == passes[exit].carno
             h == HandleCharge(enter, exit, p, "match")
  <1>1. enter \in D BY DEF Entries
  <1>2. exit \in D
    <2>1. unmatched \subseteq D /\ quotes \subseteq QuoteSet(D) BY DEF Inv, Typed, TypeOK
    <2> QED BY <2>1 DEF Shown, QuoteSet
  <1>3. p \in Plates BY <1>2, TypedFacts DEF Inv, PassRecords
  <1> HIDE DEF p
  <1>4. h \in Stmts(D) /\ h.op = "handle_charge" BY <1>1, <1>2, <1>3, StatementsTyped
  <1>5. Begin(t, <<h>>) /\ UNCHANGED <<passes, inner, charges, balance, accounted, lastId,
                                       quotes, unmatched, opened, stranded, failures>>
    BY DEF on_match_plate, p
  <1> HIDE DEF h
  <1>6. GoodProgram(<<h>>, D, charges, accounted) BY <1>4, OneStatement DEF Opens
  <1>7. lastId' \in 0 .. MaxCharges BY <1>5, TypedFacts DEF Inv
  <1> QED BY <1>5, <1>6, <1>7, RequestKeeps DEF GoodProgram

(* on_checkout settles a quote, under the identifier it has or a new one.  *)
LEMMA CheckoutKeeps ==
    ASSUME Inv, NEW t \in Threads, NEW q \in quotes \cup {Unpriced(x) : x \in unmatched},
           NEW none \in BOOLEAN, on_checkout(t, q, none)
    PROVE  Inv'
  <1> DEFINE D == DOMAIN passes
             id == IF q.id = NoId THEN lastId' ELSE q.id
             s == CheckoutProgram(q, id, none)
  <1>1. lastId \in 0 .. MaxCharges /\ accounted \in [Plates -> Nat] BY TypedFacts DEF Inv
  <1>2. /\ q.id = NoId => lastId < MaxCharges
        /\ lastId' = (IF q.id = NoId THEN lastId + 1 ELSE lastId) /\ Begin(t, s)
        /\ UNCHANGED <<passes, inner, charges, balance, accounted, quotes, unmatched, opened,
                       stranded, failures>>
    BY DEF on_checkout
  <1>3. q \in QuoteSet(D)
    <2>1. CASE q \in quotes BY <2>1 DEF Inv, Typed
    <2>2. CASE q \in {Unpriced(x) : x \in unmatched}
      <3>1. PICK x \in unmatched : q = Unpriced(x) BY <2>2
      <3>2. x \in D BY DEF Inv, Typed, TypeOK
      <3>3. passes[x].fee \in Nat BY <3>2, TypedFacts DEF Inv, PassRecords
      <3> QED BY <3>1, <3>2, <3>3, LedgerAssumption DEF Unpriced, QuoteSet, NoId
    <2> QED BY <2>1, <2>2
  <1>4. id \in 1 .. MaxCharges /\ lastId' \in 0 .. MaxCharges
    BY <1>1, <1>2, <1>3, LedgerAssumption DEF QuoteSet, NoId
  <1> HIDE DEF id
  <1>5. GoodProgram(s, D, charges, accounted) BY <1>1, <1>3, <1>4, CheckoutIsGood
  <1> HIDE DEF s
  <1> QED BY <1>2, <1>4, <1>5, RequestKeeps DEF GoodProgram

(* on_device_data: the entry that the trigger adds at the exit, or for a   *)
(* bicycle, comes with its delete.                                         *)
LEMMA DeviceKeeps ==
    ASSUME Inv, NEW t \in Threads, NEW p \in Plates, NEW device \in {"entrance", "exit"},
           NEW direction \in {"in", "out"}, NEW fee \in Nat, NEW mode,
           on_device_data(t, p, device, direction, fee, mode)
    PROVE  Inv'
  <1> DEFINE D == DOMAIN passes
             pass == Len(passes) + 1
             new == [plate |-> p, carno |-> p, device |-> device, direction |-> direction,
                     fee |-> fee]
             s == PassProgram(p, device, direction, pass, mode)
  <1>1. /\ passes \in Seq(PassRecords) /\ Len(passes) \in Nat /\ D = 1 .. Len(passes)
        /\ accounted \in [Plates -> Nat]
    BY TypedFacts DEF Inv
  <1>2. /\ pass <= MaxPasses /\ passes' = Append(passes, new)
        /\ inner' = (IF direction = "in" THEN inner \cup {pass} ELSE inner) /\ Begin(t, s)
        /\ UNCHANGED <<charges, balance, accounted, lastId, quotes, unmatched, opened,
                       stranded, failures>>
    BY DEF on_device_data
  <1>3. new \in PassRecords /\ new.plate = p /\ new.device = device BY DEF PassRecords
  <1> HIDE DEF new
  <1>4. /\ passes' \in Seq(PassRecords) /\ Len(passes') = pass /\ DOMAIN passes' = D \cup {pass}
        /\ \A x \in D : passes'[x] = passes[x]
        /\ passes'[pass] = new
    BY <1>1, <1>2, <1>3
  <1>5. /\ s \in Seq(Stmts(DOMAIN passes')) /\ Good(s, charges, accounted)
        /\ (direction = "in" /\ (device = "exit" \/ Kind[p] = "nonmotor")) =>
             \E i \in DOMAIN s : Removes(s[i], pass)
    <2>1. pass \in DOMAIN passes' BY <1>4
    <2> HIDE DEF pass
    <2> QED BY <1>1, <2>1, PassIsGood
  <1> HIDE DEF s
  <1>6. /\ ListsTyped' /\ ListsGood'
        /\ \A e : Departing(e) => Departing(e)'
        /\ \A e : (\E i \in DOMAIN s : Removes(s[i], e)) => Departing(e)'
    BY <1>2, <1>4, <1>5, BeginStep
  <1>7. \A e : Departing(e)' <=> (e \in stranded' \/ \E u \in Threads : e \in PendingDeletes(u)')
    BY PendingIs DEF Departing, Pending
  <1>8. \A e : Departing(e) <=> (e \in stranded \/ \E u \in Threads : e \in PendingDeletes(u))
    BY PendingIs DEF Departing, Pending
  <1>9. inner \subseteq D /\ charges \subseteq RowSet(D) /\ quotes \subseteq QuoteSet(D)
    BY DEF Inv, Typed, TypeOK
  <1>10. NoPhantomInside'
    <2> SUFFICES ASSUME NEW e \in inner',
                        ~(passes'[e].device = "entrance" /\ Kind[passes'[e].plate] # "nonmotor")
                 PROVE  Departing(e)'
      BY <1>7 DEF NoPhantomInside
    <2>1. CASE e \in inner
      BY <1>4, <1>6, <1>8, <1>9, <2>1 DEF Inv, NoPhantomInside
    <2>2. CASE e \notin inner
      <3>1. e = pass /\ direction = "in" BY <1>2, <2>2
      <3>2. device = "exit" \/ Kind[p] = "nonmotor" BY <1>3, <1>4, <3>1
      <3> QED BY <1>5, <1>6, <3>1, <3>2
    <2> QED BY <2>1, <2>2
  <1>11. RecordedEntryLeaves'
    <2> SUFFICES ASSUME NEW r \in charges, r.enter # NoPass, r.pay # "no_entry",
                        r.enter \in inner'
                 PROVE  Departing(r.enter)'
      BY <1>2, <1>7 DEF RecordedEntryLeaves
    <2>1. r.enter \in D BY <1>9 DEF RowSet
    <2>2. r.enter # pass BY <1>1, <2>1
    <2>3. r.enter \in inner BY <1>2, <2>2
    <2> QED BY <1>6, <1>8, <2>3 DEF Inv, RecordedEntryLeaves
  <1>12. Typed'
    <2>1. D \subseteq DOMAIN passes' /\ pass \in DOMAIN passes' BY <1>4
    <2>2. RowSet(D) \subseteq RowSet(DOMAIN passes') /\ QuoteSet(D) \subseteq QuoteSet(DOMAIN passes')
      BY <2>1, StmtsMonotonic
    <2>3. charges' \subseteq RowSet(DOMAIN passes') /\ quotes' \subseteq QuoteSet(DOMAIN passes')
      BY <1>2, <1>9, <2>2
    <2>4. inner' \subseteq DOMAIN passes' BY <1>2, <1>9, <2>1
    <2>5. Len(passes') <= MaxPasses BY <1>2, <1>4
    <2> HIDE DEF pass
    <2> QED BY <1>2, <1>4, <1>6, <2>1, <2>3, <2>4, <2>5
            DEF Inv, Typed, TypeOK, ListsTyped, PassRecords
  <1>13. NeverOvercharged' /\ OpenedOnlyAfterRecorded'
    BY <1>2 DEF Inv, NeverOvercharged, OpenedOnlyAfterRecorded
  <1> QED BY <1>6, <1>10, <1>11, <1>12, <1>13 DEF Inv

(* on_revise_plate: no invariant depends on a corrected plate.             *)
LEMMA ReviseKeeps ==
    ASSUME Inv, NEW t \in Threads, NEW pass \in DOMAIN passes, NEW p \in Plates,
           on_revise_plate(t, pass, p)
    PROVE  Inv'
  <1> DEFINE D == DOMAIN passes
  <1>1. /\ passes' = [passes EXCEPT ![pass].carno = p]
        /\ UNCHANGED <<inner, charges, balance, accounted, lastId, todo, quotes, unmatched,
                       opened, stranded, failures>>
    BY DEF on_revise_plate
  <1>2. passes \in Seq(PassRecords) /\ Len(passes) \in Nat /\ D = 1 .. Len(passes)
        /\ \A x \in D : passes[x] \in PassRecords
    BY TypedFacts DEF Inv
  <1> DEFINE new == [passes[pass] EXCEPT !.carno = p]
  <1>3. new \in PassRecords /\ new.plate = passes[pass].plate /\ new.device = passes[pass].device
    BY <1>2 DEF PassRecords
  <1>4. passes' = [passes EXCEPT ![pass] = new] BY <1>1
  <1> HIDE DEF new
  <1>5. /\ passes' \in Seq(PassRecords) /\ Len(passes') = Len(passes) /\ DOMAIN passes' = D
        /\ \A x \in D : passes'[x] = IF x = pass THEN new ELSE passes[x]
    BY <1>2, <1>3, <1>4, ExceptSeq
  <1>6. \A x \in D : passes'[x].plate = passes[x].plate /\ passes'[x].device = passes[x].device
    BY <1>3, <1>5
  <1>7. Typed' BY <1>1, <1>5 DEF Inv, Typed, TypeOK, PassRecords
  <1>8. ListsTyped' /\ ListsGood' BY <1>1, <1>5 DEF Inv, ListsTyped, ListsGood
  <1>9. RecordedEntryLeaves'
    BY <1>1, PendingIs DEF Inv, RecordedEntryLeaves
  <1>10. NoPhantomInside'
    <2>1. inner \subseteq D BY DEF Inv, Typed, TypeOK
    <2> QED BY <1>1, <1>6, <2>1, PendingIs DEF Inv, NoPhantomInside
  <1>11. NeverOvercharged' /\ OpenedOnlyAfterRecorded'
    BY <1>1 DEF Inv, NeverOvercharged, OpenedOnlyAfterRecorded
  <1> QED BY <1>7, <1>8, <1>9, <1>10, <1>11 DEF Inv

(* A cancelled quote, and a step that changes nothing.                     *)
LEMMA CancelKeeps ==
    ASSUME Inv, UNCHANGED vars \/ \E q \in quotes : CancelQuote(q)
    PROVE  Inv'
  <1>1. /\ UNCHANGED <<passes, inner, charges, balance, accounted, lastId, todo, unmatched,
                       opened, stranded, failures>>
        /\ quotes' \subseteq quotes
    BY DEF CancelQuote, vars
  <1>2. Typed' BY <1>1 DEF Inv, Typed, TypeOK
  <1>3. ListsTyped' /\ ListsGood' BY <1>1 DEF Inv, ListsTyped, ListsGood
  <1>4. RecordedEntryLeaves' /\ NoPhantomInside'
    BY <1>1, PendingIs DEF Inv, RecordedEntryLeaves, NoPhantomInside
  <1>5. NeverOvercharged' /\ OpenedOnlyAfterRecorded'
    BY <1>1 DEF Inv, NeverOvercharged, OpenedOnlyAfterRecorded
  <1> QED BY <1>2, <1>3, <1>4, <1>5 DEF Inv

(* Every step keeps the invariant.                                         *)
LEMMA NextOK == Inv /\ [Next]_vars => Inv'
  <1> SUFFICES ASSUME Inv, [Next]_vars PROVE Inv' OBVIOUS
  <1>1. CASE DeviceEvent
    <2>1. PICK t \in HttpThreads, p \in Read, mode \in ExitModes :
            \E device \in {"entrance", "exit"}, direction \in {"in", "out"} :
              \E fee \in IF device = "exit" /\ direction = "out" THEN Fees ELSE {0} :
                on_device_data(t, p, device, direction, fee, mode)
      BY <1>1 DEF DeviceEvent
    <2>2. PICK device \in {"entrance", "exit"}, direction \in {"in", "out"} :
            \E fee \in IF device = "exit" /\ direction = "out" THEN Fees ELSE {0} :
              on_device_data(t, p, device, direction, fee, mode)
      BY <2>1
    <2>3. PICK fee \in IF device = "exit" /\ direction = "out" THEN Fees ELSE {0} :
            on_device_data(t, p, device, direction, fee, mode)
      BY <2>2
    <2>4. fee \in Nat /\ p \in Plates /\ t \in Threads BY LedgerAssumption DEF Threads
    <2> QED BY <2>3, <2>4, DeviceKeeps
  <1>2. CASE TerminalRequest
    <2>1. PICK t \in Terminals :
            \/ \E enter \in Entries, exit \in Shown : on_match_plate(t, enter, exit)
            \/ \E pass \in DOMAIN passes, p \in Plates : on_revise_plate(t, pass, p)
            \/ \E none \in BOOLEAN :
                 \E q \in quotes \cup {Unpriced(x) : x \in unmatched} : on_checkout(t, q, none)
      BY <1>2 DEF TerminalRequest
    <2>2. t \in Threads BY DEF Threads
    <2>3. CASE \E enter \in Entries, exit \in Shown : on_match_plate(t, enter, exit)
      BY <2>2, <2>3, MatchKeeps
    <2>4. CASE \E pass \in DOMAIN passes, p \in Plates : on_revise_plate(t, pass, p)
      BY <2>2, <2>4, ReviseKeeps
    <2>5. CASE \E none \in BOOLEAN :
                 \E q \in quotes \cup {Unpriced(x) : x \in unmatched} : on_checkout(t, q, none)
      BY <2>2, <2>5, CheckoutKeeps
    <2> QED BY <2>1, <2>3, <2>4, <2>5
  <1>3. ASSUME NEW t \in Threads, Statement(t) PROVE Inv'
    <2>1. CASE DeleteInner(t) \/ DeleteInnerVehicleByPlateNumber(t) BY <2>1, DeletesKeep
    <2>2. CASE QueryLastestChargeByPlateNumber(t) BY <2>2, LatestChargeKeeps
    <2>3. CASE QueryEnterVehicle(t) BY <2>3, FindEntryKeeps
    <2>4. CASE handle_charge(t) BY <2>4, ChargeKeeps
    <2>5. CASE InsertChargeRecord(t) BY <2>5, InsertKeeps
    <2>6. CASE InsertRejected(t) \/ StatementFails(t) BY <2>6, FailuresKeep
    <2>7. CASE UpdateStoredValue(t) BY <2>7, UpdateKeeps
    <2>8. CASE NotifiedQuote(t) \/ MatchPlateResponse(t) \/ CheckoutResponse(t)
      BY <2>8, QuotesKeep
    <2>9. CASE NobodyForQuote(t) BY <2>9, NobodyForQuoteKeeps
    <2>10. CASE NotifiedUnmatched(t) \/ NobodyForUnmatched(t) BY <2>10, UnmatchedKeep
    <2>11. CASE NotifyFreeExit(t) BY <2>11, FreeExitKeeps
    <2>12. CASE GateOpens(t) \/ GateErrorSwallowed(t) BY <2>12, GateKeeps
    <2> QED BY <1>3, <2>1, <2>2, <2>3, <2>4, <2>5, <2>6, <2>7, <2>8, <2>9, <2>10, <2>11, <2>12
            DEF Statement
  <1>4. CASE UNCHANGED vars \/ \E q \in quotes : CancelQuote(q) BY <1>4, CancelKeeps
  <1> QED BY <1>1, <1>2, <1>3, <1>4 DEF Next

(* The inductive invariant holds always.                                   *)
LEMMA InvAlways == Spec => []Inv
  BY InitOK, NextOK, PTL DEF Spec

-----------------------------------------------------------------------------
(* The tables keep their types: no balance and no charge is ever negative, *)
(* and no identifier is beyond those generated.                            *)
THEOREM TypeCorrect == Spec => []TypeOK
  <1>1. Inv => TypeOK BY DEF Inv, Typed
  <1> QED BY <1>1, InvAlways, PTL

(* Whatever the interleaving of exits, payments, corrections and failures, *)
(* StoredValueCharge and UpdateStoredValue take no stored value that no    *)
(* charge row and no announced reduction accounts for.                     *)
THEOREM StoredValueSafe == Spec => []NeverOvercharged
  <1>1. Inv => NeverOvercharged BY DEF Inv
  <1> QED BY <1>1, InvAlways, PTL

(* The exit gate opens for a vehicle with an entry, or for a payment, only *)
(* after the row for that exit is in park_charge_info.                     *)
THEOREM RecordedBeforeOpened == Spec => []OpenedOnlyAfterRecorded
  <1>1. Inv => OpenedOnlyAfterRecorded BY DEF Inv
  <1> QED BY <1>1, InvAlways, PTL

(* An entry recorded as charged leaves park_inner_cars unless a statement  *)
(* of its request failed.                                                  *)
THEOREM ChargedLeaves == Spec => []RecordedEntryLeaves
  <1>1. Inv => RecordedEntryLeaves BY DEF Inv
  <1> QED BY <1>1, InvAlways, PTL

(* What the trigger adds to park_inner_cars for a bicycle, or for a car    *)
(* backing in at the exit, goes again unless its delete failed.            *)
THEOREM NoPhantoms == Spec => []NoPhantomInside
  <1>1. Inv => NoPhantomInside BY DEF Inv
  <1> QED BY <1>1, InvAlways, PTL
============================================================================
