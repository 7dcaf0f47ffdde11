------------------------- MODULE PictureStoreProofs -------------------------
(***************************************************************************)
(* That no picture of a vehicle inside is removed and no file is lost from *)
(* sight but those that are counted as leaked, for any number of threads,  *)
(* rows, pictures, days and faults.                                        *)
(*                                                                         *)
(* The invariants speak of the disk and the tables.  What keeps them is in *)
(* the jobs: a handler goes on with files and rows it read long ago, while *)
(* others write, record, remove and forget.  The inductive invariant says  *)
(* of every step of a job what must hold until it is taken (StepOK), of    *)
(* any two steps that they do not meet (Compatible, and Apart for those of *)
(* different threads), and of every job in which order its steps come      *)
(* (JobOK).                                                                *)
(***************************************************************************)
EXTENDS PictureStore, FiniteSetTheorems, SequenceTheorems, TLAPS

Steps ==
    [op : {"manage", "earliest", "by_counts", "expired"}, store : Stores]
      \cup [op : {"make_folder", "write", "empty", "remove_folder"}, file : Files]
      \cup [op : {"insert_row"}, row : Passes, files : SUBSET Files]
      \cup [op : {"update_url"}, row : Vouchers, files : SUBSET Files]
      \cup [op : {"remove"}, files : SUBSET Files]

Typed ==
    /\ up \in BOOLEAN /\ today \in 0 .. MaxDay
    /\ day \in [Rows -> 0 .. MaxDay]
    /\ url \in [Rows -> SUBSET Files]
    /\ files \subseteq Files /\ folders \subseteq Folders /\ inside \subseteq Passes
    /\ sent \in [Rows -> Nat]
    /\ \A r \in Rows : sent[r] <= Copies[r]
    /\ job \in [PicThreads -> Seq(Steps)]
    /\ leaked \subseteq Files /\ unwritten \subseteq Files

(* Every copy that exists, is named or is about to be has been counted in  *)
(* sent, so a new one is like none of them; a row names its own files.     *)
Counted(f) == f.copy \in 1 .. sent[f.row]
RowsOK ==
    /\ \A f \in files : Counted(f)
    /\ \A r \in Rows : \A f \in url[r] : f.row = r /\ Counted(f)
    /\ \A r \in Vouchers : \A f, g \in url[r] : f = g
    /\ \A r \in inside : sent[r] > 0

Records(st) == st.op \in {"insert_row", "update_url"}
Doomed(st) == IF st.op = "remove" THEN st.files
              ELSE IF st.op = "empty" THEN {st.file} ELSE {}

(* What holds until a step is taken: files that a row is to name are not   *)
(* yet named, a file to be written is not there, one whose name is to be   *)
(* forgotten is not there either or counted as leaked, and pictures to be  *)
(* removed are of no vehicle inside.                                       *)
StepOK(st) ==
    /\ Records(st) => \A f \in st.files : f.row = st.row /\ Counted(f) /\ f \notin url[f.row]
    /\ st.op = "update_url" => \A f, g \in st.files : f = g
    /\ st.op = "insert_row" => url[st.row] = {} /\ sent[st.row] > 0 /\ st.row \notin inside
    /\ st.op = "write" => st.file \notin files
    /\ st.op = "empty" => st.file \notin files \/ st.file \in leaked
    /\ \A f \in Doomed(st) : Counted(f) /\ f.row \notin inside

(* What is to be recorded is not to be removed.                            *)
Compatible(st, other) ==
    /\ Records(st) => \A f \in Doomed(other) : f \notin st.files
    /\ st.op = "insert_row" => \A f \in Doomed(other) : f.row # st.row

(* No two threads write or record the same picture.                        *)
Apart(st, other) ==
    /\ Records(st) /\ Records(other) => st.files \cap other.files = {}
    /\ st.op = "insert_row" /\ other.op = "insert_row" => st.row # other.row
    /\ st.op = "write" /\ other.op = "write" => st.file # other.file

(* A file is written before it is recorded, and once; the disk is looked   *)
(* after before anything is written.                                       *)
Backed(s, fs) ==
    \A i \in DOMAIN s : s[i].op = "insert_row" => \A f \in s[i].files :
      f \in fs \/ \E j \in 1 .. (i - 1) : s[j].op = "write" /\ s[j].file = f
Followed(s) ==
    \A i \in DOMAIN s : s[i].op = "write" =>
      \E k \in DOMAIN s : i < k /\ Records(s[k]) /\ s[i].file \in s[k].files
ManagedFirst(s) ==
    \A i \in DOMAIN s : s[i].op \in {"manage", "earliest"} =>
      /\ i = 1
      /\ \A k \in DOMAIN s : Records(s[k]) => \A f \in s[k].files :
           \E j \in DOMAIN s : s[j].op = "write" /\ s[j].file = f
Once(s) == \A i, k \in DOMAIN s : i < k => Apart(s[i], s[k])

JobOK(s, fs) == Backed(s, fs) /\ Followed(s) /\ ManagedFirst(s) /\ Once(s)

JobsOK ==
    /\ \A t \in PicThreads : JobOK(job[t], files \cup unwritten)
    /\ \A t \in PicThreads : \A i \in DOMAIN job[t] : StepOK(job[t][i])
    /\ \A t, u \in PicThreads : \A i \in DOMAIN job[t], k \in DOMAIN job[u] :
         /\ Compatible(job[t][i], job[u][k])
         /\ t # u => Apart(job[t][i], job[u][k])

Inv == Typed /\ RowsOK /\ JobsOK /\ InsidePicturesKept /\ FilesAreListed
-----------------------------------------------------------------------------
(* Jobs.                                                                   *)

(* A step has the fields that its operation needs.                         *)
LEMMA StepFields ==
    ASSUME NEW st \in Steps
    PROVE  /\ st.op \in {"manage", "earliest", "by_counts", "expired"} => st.store \in Stores
           /\ st.op \in {"make_folder", "write", "empty", "remove_folder"} => st.file \in Files
           /\ st.op = "insert_row" => st.row \in Passes /\ st.files \subseteq Files
           /\ st.op = "update_url" => st.row \in Vouchers /\ st.files \subseteq Files
           /\ st.op = "remove" => st.files \subseteq Files
           /\ Doomed(st) \subseteq Files
  BY DEF Steps, Doomed

(* The positions of a job whose first step was replaced by others.         *)
LEMMA Spliced ==
    ASSUME NEW s \in Seq(Steps), s # <<>>, NEW n \in Seq(Steps)
    PROVE  LET w == n \o Tail(s) IN
           /\ w \in Seq(Steps)
           /\ DOMAIN s = 1 .. Len(s) /\ DOMAIN n = 1 .. Len(n)
           /\ Len(s) \in Nat \ {0} /\ Len(n) \in Nat
           /\ s[1] = Head(s)
           /\ DOMAIN w = 1 .. (Len(n) + Len(s) - 1)
           /\ \A k \in DOMAIN w : IF k <= Len(n) THEN k \in DOMAIN n /\ w[k] = n[k]
                                  ELSE /\ k - Len(n) + 1 \in DOMAIN s /\ k - Len(n) + 1 > 1
                                       /\ w[k] = s[k - Len(n) + 1]
           /\ \A i \in DOMAIN s : i > 1 => /\ i - 1 + Len(n) \in DOMAIN w
                                           /\ w[i - 1 + Len(n)] = s[i]
  <1> DEFINE u == Tail(s)
             w == n \o u
  <1>1. /\ DOMAIN s = 1 .. Len(s) /\ DOMAIN n = 1 .. Len(n)
        /\ Len(s) \in Nat \ {0} /\ Len(n) \in Nat /\ s[1] = Head(s)
        /\ u \in Seq(Steps) /\ Len(u) = Len(s) - 1
        /\ \A i \in 1 .. Len(u) : u[i] = s[i + 1]
    OBVIOUS
  <1> HIDE DEF u
  <1>2. /\ w \in Seq(Steps) /\ DOMAIN w = 1 .. (Len(n) + Len(u))
        /\ \A k \in 1 .. (Len(n) + Len(u)) : w[k] = IF k <= Len(n) THEN n[k] ELSE u[k - Len(n)]
    <2>1. /\ w \in Seq(Steps) /\ Len(w) = Len(n) + Len(u)
          /\ \A k \in 1 .. Len(n) + Len(u) : w[k] = IF k <= Len(n) THEN n[k] ELSE u[k - Len(n)]
      BY <1>1, ConcatProperties
    <2> HIDE DEF w
    <2> QED BY <2>1
  <1> HIDE DEF w
  <1>3. ASSUME NEW k \in DOMAIN w
        PROVE  IF k <= Len(n) THEN k \in DOMAIN n /\ w[k] = n[k]
               ELSE /\ k - Len(n) + 1 \in DOMAIN s /\ k - Len(n) + 1 > 1
                    /\ w[k] = s[k - Len(n) + 1]
    <2>1. k \in 1 .. (Len(n) + Len(u)) /\ k \in Int
      BY <1>1, <1>2
    <2>2. CASE k <= Len(n)
      BY <2>1, <2>2, <1>1, <1>2
    <2>3. CASE ~(k <= Len(n))
      <3>1. k - Len(n) \in 1 .. Len(u) /\ w[k] = u[k - Len(n)]
        BY <2>1, <2>3, <1>1, <1>2
      <3>2. u[k - Len(n)] = s[(k - Len(n)) + 1]
        BY <3>1, <1>1
      <3> QED BY <3>1, <3>2, <2>1, <2>3, <1>1
    <2> QED BY <2>2, <2>3
  <1>4. ASSUME NEW i \in DOMAIN s, i > 1
        PROVE  i - 1 + Len(n) \in DOMAIN w /\ w[i - 1 + Len(n)] = s[i]
    <2>1. i - 1 + Len(n) \in 1 .. (Len(n) + Len(u)) /\ ~(i - 1 + Len(n) <= Len(n))
      BY <1>1, <1>4
    <2>2. w[i - 1 + Len(n)] = u[(i - 1 + Len(n)) - Len(n)]
      BY <1>2, <2>1
    <2>3. (i - 1 + Len(n)) - Len(n) = i - 1 /\ i - 1 \in 1 .. Len(u) /\ u[i - 1] = s[(i - 1) + 1]
      BY <1>1, <1>4
    <2> QED BY <1>1, <1>2, <2>1, <2>2, <2>3
  <1> QED BY <1>1, <1>2, <1>3, <1>4 DEF w, u

(* The steps that a step may be replaced by write and record nothing, and  *)
(* only picture_storage_manage is followed by one that may end the job.    *)
Harmless(n, first) ==
    \A k \in DOMAIN n :
      /\ n[k].op \in {"earliest", "by_counts", "remove", "empty", "remove_folder"}
      /\ n[k].op = "earliest" => k = 1 /\ first.op = "manage"

(* The order of the steps is kept when the first is taken and replaced by  *)
(* harmless ones, if what it was to write is there, or known not to be.    *)
LEMMA JobGoesOn ==
    ASSUME NEW s \in Seq(Steps), s # <<>>, NEW n \in Seq(Steps), Harmless(n, Head(s)),
           NEW fs, NEW fs2, JobOK(s, fs),
           \A i \in DOMAIN s : i > 1 /\ s[i].op = "insert_row" =>
             \A f \in s[i].files : f \in fs => f \in fs2,
           Head(s).op = "write" => Head(s).file \in fs2
    PROVE  JobOK(n \o Tail(s), fs2)
  <1> DEFINE w == n \o Tail(s)
             L == Len(n)
  <1>1. /\ DOMAIN s = 1 .. Len(s) /\ DOMAIN n = 1 .. L /\ Len(s) \in Nat \ {0} /\ L \in Nat
        /\ s[1] = Head(s) /\ DOMAIN w = 1 .. (L + Len(s) - 1)
        /\ \A k \in DOMAIN w : IF k <= L THEN k \in DOMAIN n /\ w[k] = n[k]
                               ELSE /\ k - L + 1 \in DOMAIN s /\ k - L + 1 > 1
                                    /\ w[k] = s[k - L + 1]
        /\ \A i \in DOMAIN s : i > 1 => i - 1 + L \in DOMAIN w /\ w[i - 1 + L] = s[i]
    BY Spliced
  <1> HIDE DEF w
  <1>2. ASSUME NEW k \in DOMAIN w, Records(w[k]) \/ w[k].op \in {"write", "manage"}
        PROVE  /\ k > L /\ k - L + 1 \in DOMAIN s /\ k - L + 1 > 1 /\ w[k] = s[k - L + 1]
               /\ k \in Int
    BY <1>1, <1>2 DEF Harmless, Records
  <1>3. Backed(w, fs2)
    <2> SUFFICES ASSUME NEW k \in DOMAIN w, w[k].op = "insert_row", NEW f \in w[k].files, f \notin fs2
                 PROVE  \E j \in 1 .. (k - 1) : w[j].op = "write" /\ w[j].file = f
      BY DEF Backed
    <2> DEFINE i == k - L + 1
    <2>1. i \in DOMAIN s /\ i > 1 /\ w[k] = s[i] /\ k \in Int /\ k > L
      BY <1>2 DEF Records
    <2>2. f \notin fs
      BY <2>1
    <2>3. PICK j \in 1 .. (i - 1) : s[j].op = "write" /\ s[j].file = f
      BY <2>1, <2>2 DEF Backed, JobOK
    <2>4. j # 1
      BY <2>3, <1>1
    <2>5. j \in DOMAIN s /\ j > 1 /\ j - 1 + L \in 1 .. (k - 1)
      BY <2>1, <2>3, <2>4, <1>1
    <2> QED BY <2>3, <2>5, <1>1
  <1>4. Followed(w)
    <2> SUFFICES ASSUME NEW k \in DOMAIN w, w[k].op = "write"
                 PROVE  \E l \in DOMAIN w : k < l /\ Records(w[l]) /\ w[k].file \in w[l].files
      BY DEF Followed
    <2> DEFINE i == k - L + 1
    <2>1. i \in DOMAIN s /\ i > 1 /\ w[k] = s[i] /\ k \in Int /\ k > L
      BY <1>2
    <2>2. PICK j \in DOMAIN s : i < j /\ Records(s[j]) /\ s[i].file \in s[j].files
      BY <2>1 DEF Followed, JobOK
    <2>3. j > 1 /\ k < j - 1 + L
      BY <2>1, <2>2, <1>1
    <2> QED BY <2>1, <2>2, <2>3, <1>1
  <1>5. ManagedFirst(w)
    <2> SUFFICES ASSUME NEW k \in DOMAIN w, w[k].op \in {"manage", "earliest"}
                 PROVE  /\ k = 1
                        /\ \A l \in DOMAIN w : Records(w[l]) => \A f \in w[l].files :
                             \E j \in DOMAIN w : w[j].op = "write" /\ w[j].file = f
      BY DEF ManagedFirst
    <2>1. k <= L
      BY <1>1 DEF ManagedFirst, JobOK
    <2>2. k = 1 /\ Head(s).op = "manage"
      BY <2>1, <1>1 DEF Harmless
    <2>3. ASSUME NEW l \in DOMAIN w, Records(w[l]), NEW f \in w[l].files
          PROVE  \E j \in DOMAIN w : w[j].op = "write" /\ w[j].file = f
      <3>1. l - L + 1 \in DOMAIN s /\ w[l] = s[l - L + 1]
        BY <1>2, <2>3
      <3>2. PICK j \in DOMAIN s : s[j].op = "write" /\ s[j].file = f
        BY <3>1, <2>2, <2>3, <1>1 DEF ManagedFirst, JobOK
      <3>3. j > 1
        BY <3>2, <2>2, <1>1
      <3> QED BY <3>2, <3>3, <1>1
    <2> QED BY <2>2, <2>3
  <1>6. Once(w)
    <2> SUFFICES ASSUME NEW k \in DOMAIN w, NEW l \in DOMAIN w, k < l PROVE Apart(w[k], w[l])
      BY DEF Once
    <2>1. CASE k <= L
      <3>1. ~Records(w[k]) /\ w[k].op \notin {"insert_row", "write"}
        BY <2>1, <1>1 DEF Harmless, Records
      <3> QED BY <3>1 DEF Apart
    <2>2. CASE k > L
      <3>1. /\ k - L + 1 \in DOMAIN s /\ l - L + 1 \in DOMAIN s /\ k - L + 1 < l - L + 1
            /\ w[k] = s[k - L + 1] /\ w[l] = s[l - L + 1]
        BY <2>2, <1>1
      <3> QED BY <3>1 DEF Once, JobOK
    <2> QED BY <2>1, <2>2, <1>1
  <1> QED BY <1>3, <1>4, <1>5, <1>6 DEF JobOK, w
(* The steps that remain when thread t takes the first of its job.         *)
Remaining(t) ==
    {st \in Steps : \E u \in PicThreads : \E i \in DOMAIN job[u] :
                      st = job[u][i] /\ (u = t => i > 1)}

(* The jobs are kept when t takes a step that disturbs none that remain.   *)
LEMMA JobContinues ==
    ASSUME Inv, NEW t \in PicThreads, job[t] # <<>>,
           NEW n \in Seq(Steps), Harmless(n, Head(job[t])), Continue(t, n),
           \A st \in Remaining(t) : StepOK(st)',
           \A st \in Remaining(t) : st.op = "insert_row" =>
             \A f \in st.files : f \in files \cup unwritten => f \in (files \cup unwritten)',
           Head(job[t]).op = "write" => Head(job[t]).file \in (files \cup unwritten)',
           \A k \in DOMAIN n : /\ StepOK(n[k])'
                               /\ \A st \in Remaining(t) : Compatible(st, n[k])
    PROVE  JobsOK'
  <1> DEFINE w == n \o Tail(job[t])
             fs == files \cup unwritten
  <1>1. job \in [PicThreads -> Seq(Steps)] /\ JobsOK
    BY DEF Inv, Typed
  <1>2. job'[t] = w /\ \A u \in PicThreads : u # t => job'[u] = job[u]
    BY <1>1 DEF Continue
  <1>3. ASSUME NEW u \in PicThreads, NEW i \in DOMAIN job[u], u = t => i > 1
        PROVE  job[u][i] \in Remaining(t)
    <2>1. job[u] \in Seq(Steps) BY <1>1
    <2>2. job[u][i] \in Steps BY <2>1
    <2> QED BY <1>3, <2>2 DEF Remaining
  <1>4. JobOK(w, fs')
    <2>1. JobOK(job[t], fs) /\ job[t] \in Seq(Steps)
      BY <1>1 DEF JobsOK
    <2>2. \A i \in DOMAIN job[t] : i > 1 /\ job[t][i].op = "insert_row" =>
            \A f \in job[t][i].files : f \in fs => f \in fs'
      BY <1>3
    <2> HIDE DEF w, fs
    <2>3. Head(job[t]).op = "write" => Head(job[t]).file \in fs'
      BY DEF fs
    <2> QED BY <2>1, <2>2, <2>3, JobGoesOn DEF w
  <1>5. ASSUME NEW u \in PicThreads, u # t PROVE JobOK(job[u], fs')
    <2>1. JobOK(job[u], fs)
      BY <1>1 DEF JobsOK
    <2>2. \A i \in DOMAIN job[u] : job[u][i].op = "insert_row" =>
            \A f \in job[u][i].files : f \in fs => f \in fs'
      BY <1>3, <1>5
    <2> HIDE DEF fs
    <2> QED BY <2>1, <2>2 DEF JobOK, Backed
  <1>6. ASSUME NEW k \in DOMAIN w
        PROVE  \/ k \in DOMAIN n /\ w[k] = n[k]
               \/ \E i \in DOMAIN job[t] : i > 1 /\ w[k] = job[t][i]
    <2>1. job[t] \in Seq(Steps) BY <1>1
    <2> QED BY <1>6, <2>1, Spliced
  <1> HIDE DEF w
  <1>7. \A u \in PicThreads : JobOK(job'[u], fs')
    BY <1>2, <1>4, <1>5
  (* A step of a job is one that remained, or one of the new ones of t.    *)
  <1>8. ASSUME NEW u \in PicThreads, NEW i \in DOMAIN job'[u]
        PROVE  \/ \E j \in DOMAIN job[u] : (u = t => j > 1) /\ job'[u][i] = job[u][j]
               \/ u = t /\ \E k \in DOMAIN n : job'[u][i] = n[k]
    BY <1>2, <1>6, <1>8
  <1>9. \A u \in PicThreads : \A i \in DOMAIN job'[u] : \A st : st = job'[u][i] => StepOK(st)'
    BY <1>3, <1>8
  <1>10. ASSUME NEW u \in PicThreads, NEW i \in DOMAIN job'[u], Records(job'[u][i])
         PROVE  \E j \in DOMAIN job[u] : (u = t => j > 1) /\ job'[u][i] = job[u][j]
    BY <1>8, <1>10 DEF Harmless, Records
  <1>11. ASSUME NEW u \in PicThreads, NEW v \in PicThreads,
                NEW i \in DOMAIN job'[u], NEW k \in DOMAIN job'[v]
         PROVE  Compatible(job'[u][i], job'[v][k])
    <2> SUFFICES ASSUME Records(job'[u][i]) PROVE Compatible(job'[u][i], job'[v][k])
      BY DEF Compatible, Records
    <2>1. PICK j \in DOMAIN job[u] : (u = t => j > 1) /\ job'[u][i] = job[u][j]
      BY <1>10
    <2>2. job[u][j] \in Remaining(t)
      BY <1>3, <2>1
    <2>3. CASE \E l \in DOMAIN job[v] : job'[v][k] = job[v][l]
      BY <2>1, <2>3, <1>1 DEF JobsOK
    <2>4. CASE \E l \in DOMAIN n : job'[v][k] = n[l]
      BY <2>1, <2>2, <2>4
    <2> QED BY <2>3, <2>4, <1>8
  <1>12. ASSUME NEW u \in PicThreads, NEW v \in PicThreads, u # v,
                NEW i \in DOMAIN job'[u], NEW k \in DOMAIN job'[v]
         PROVE  Apart(job'[u][i], job'[v][k])
    <2>1. \A x \in PicThreads : \A j \in DOMAIN job'[x] :
            \/ \E l \in DOMAIN job[x] : job'[x][j] = job[x][l]
            \/ job'[x][j].op \notin {"insert_row", "update_url", "write"}
      BY <1>8 DEF Harmless
    <2>2. CASE \E j \in DOMAIN job[u], l \in DOMAIN job[v] :
                 job'[u][i] = job[u][j] /\ job'[v][k] = job[v][l]
      BY <2>2, <1>1, <1>12 DEF JobsOK
    <2>3. CASE \/ job'[u][i].op \notin {"insert_row", "update_url", "write"}
               \/ job'[v][k].op \notin {"insert_row", "update_url", "write"}
      BY <2>3 DEF Apart, Records
    <2> QED BY <2>1, <2>2, <2>3
  <1> QED BY <1>7, <1>9, <1>11, <1>12 DEF JobsOK

(* The jobs are kept when t's is dropped, or replaced by one whose steps   *)
(* are compatible with all others.                                         *)
LEMMA JobReplaced ==
    ASSUME Inv, NEW t \in PicThreads, NEW w \in Seq(Steps), job' = [job EXCEPT ![t] = w],
           UNCHANGED <<url, inside, files, unwritten>>, leaked \subseteq leaked',
           sent' \in [Rows -> Nat], \A r \in Rows : sent[r] <= sent'[r],
           JobOK(w, files \cup unwritten),
           \A k \in DOMAIN w : StepOK(w[k])' /\ Doomed(w[k]) = {},
           \A k \in DOMAIN w : \A st \in Remaining(t) :
             Apart(w[k], st) /\ Apart(st, w[k]) /\ Compatible(w[k], st)
    PROVE  JobsOK'
  <1>1. job \in [PicThreads -> Seq(Steps)] /\ JobsOK
    BY DEF Inv, Typed
  <1>2. job'[t] = w /\ \A u \in PicThreads : u # t => job'[u] = job[u]
    BY <1>1
  <1>3. ASSUME NEW u \in PicThreads, u # t, NEW i \in DOMAIN job[u]
        PROVE  job[u][i] \in Remaining(t) /\ job[u][i] \in Steps
    <2>1. job[u] \in Seq(Steps) BY <1>1
    <2>2. job[u][i] \in Steps BY <2>1
    <2> QED BY <1>3, <2>2 DEF Remaining
  <1>4. \A u \in PicThreads : JobOK(job'[u], (files \cup unwritten)')
    BY <1>1, <1>2 DEF JobsOK
  <1>5. \A f \in Files : Counted(f) => Counted(f)'
    BY DEF Inv, Typed, Counted, Files
  <1>6. ASSUME NEW st \in Steps, StepOK(st) PROVE StepOK(st)'
    <2>1. /\ Records(st) => st.files \subseteq Files
          /\ st.op = "insert_row" => st.row \in Rows
          /\ Doomed(st) \subseteq Files
      BY StepFields DEF Records, Rows
    <2> QED BY <1>5, <1>6, <2>1 DEF StepOK, Inv, Typed
  <1>7. \A u \in PicThreads : \A i \in DOMAIN job'[u] : \A st : st = job'[u][i] => StepOK(st)'
    BY <1>1, <1>2, <1>3, <1>6 DEF JobsOK
  <1>8. ASSUME NEW u \in PicThreads, NEW v \in PicThreads,
               NEW i \in DOMAIN job'[u], NEW k \in DOMAIN job'[v]
        PROVE  Compatible(job'[u][i], job'[v][k])
    <2>1. CASE v = t
      BY <2>1, <1>2 DEF Compatible
    <2>2. CASE v # t /\ u = t
      BY <2>2, <1>2, <1>3
    <2>3. CASE v # t /\ u # t
      BY <2>3, <1>1, <1>2 DEF JobsOK
    <2> QED BY <2>1, <2>2, <2>3
  <1>9. ASSUME NEW u \in PicThreads, NEW v \in PicThreads, u # v,
               NEW i \in DOMAIN job'[u], NEW k \in DOMAIN job'[v]
        PROVE  Apart(job'[u][i], job'[v][k])
    <2>1. CASE v = t \/ u = t
      BY <2>1, <1>2, <1>3, <1>9
    <2>2. CASE v # t /\ u # t
      BY <2>2, <1>1, <1>2, <1>9 DEF JobsOK
    <2> QED BY <2>1, <2>2
  <1> QED BY <1>4, <1>7, <1>8, <1>9 DEF JobsOK
(* A job that goes on is a job.                                            *)
LEMMA JobTyped ==
    ASSUME Inv, NEW t \in PicThreads, job[t] # <<>>, NEW n \in Seq(Steps), Continue(t, n)
    PROVE  job' \in [PicThreads -> Seq(Steps)]
  <1>1. job \in [PicThreads -> Seq(Steps)]
    BY DEF Inv, Typed
  <1>2. n \o Tail(job[t]) \in Seq(Steps)
    BY <1>1, Spliced
  <1> QED BY <1>1, <1>2 DEF Continue

(* What a thread has still to record stays so, but for its first step.     *)
LEMMA UnrecordedContinues ==
    ASSUME Inv, NEW t \in PicThreads, job[t] # <<>>, NEW n \in Seq(Steps), Continue(t, n),
           NEW u \in PicThreads, NEW f \in Unrecorded(u)
    PROVE  \/ f \in Unrecorded(u)'
           \/ u = t /\ Records(Head(job[t])) /\ f \in Head(job[t]).files
  <1>1. job \in [PicThreads -> Seq(Steps)]
    BY DEF Inv, Typed
  <1>2. PICK i \in DOMAIN job[u] : Records(job[u][i]) /\ f \in job[u][i].files
    BY DEF Unrecorded, ToSet, Records
  <1>3. CASE u # t
    <2>1. job'[u] = job[u]
      BY <1>1, <1>3 DEF Continue
    <2> QED BY <2>1 DEF Unrecorded
  <1>4. CASE u = t /\ i = 1
    <2>1. job[t] \in Seq(Steps) BY <1>1
    <2> QED BY <2>1, <1>2, <1>4
  <1>5. CASE u = t /\ i # 1
    <2>1. job[t] \in Seq(Steps) /\ job'[t] = n \o Tail(job[t])
      BY <1>1 DEF Continue
    <2>2. i \in DOMAIN job[t] /\ i > 1
      BY <1>5, <2>1
    <2> DEFINE w == n \o Tail(job[t])
             st == job[t][i]
    <2>3. \A j \in DOMAIN job[t] :
            j > 1 => j - 1 + Len(n) \in DOMAIN w /\ w[j - 1 + Len(n)] = job[t][j]
      BY <2>1, Spliced
    <2> HIDE DEF w
    <2>4. PICK k \in DOMAIN job'[t] : job'[t][k] = job[t][i]
      BY <2>1, <2>2, <2>3 DEF w
    <2>5. st.op \in {"insert_row", "update_url"} /\ f \in st.files /\ st \in ToSet(job'[t])
      BY <1>2, <1>5, <2>4 DEF ToSet, Records
    <2> HIDE DEF st
    <2> QED BY <1>5, <2>5 DEF Unrecorded
  <1> QED BY <1>3, <1>4, <1>5

(* The job of a thread, and what holds of its first step.                  *)
LEMMA FirstStep ==
    ASSUME Inv, NEW t \in PicThreads, NEW op, Doing(t, op)
    PROVE  LET st == Head(job[t]) IN
           /\ job[t] # <<>> /\ job[t] \in Seq(Steps)
           /\ 1 \in DOMAIN job[t] /\ st = job[t][1]
           /\ st \in Steps /\ st.op = op /\ StepOK(st)
           /\ \A u \in PicThreads : u # t => \A i \in DOMAIN job[u] :
                Apart(st, job[u][i]) /\ Apart(job[u][i], st)
           /\ \A i \in DOMAIN job[t] : i > 1 => Apart(st, job[t][i])
           /\ \A other \in Remaining(t) :
                StepOK(other) /\ Compatible(other, st) /\ Compatible(st, other)
  <1>1. job \in [PicThreads -> Seq(Steps)] /\ JobsOK
    BY DEF Inv, Typed
  <1>2. /\ job[t] # <<>> /\ job[t] \in Seq(Steps) /\ Head(job[t]).op = op
        /\ 1 \in DOMAIN job[t] /\ Head(job[t]) = job[t][1] /\ Head(job[t]) \in Steps
    BY <1>1 DEF Doing
  <1>3. StepOK(job[t][1]) /\ JobOK(job[t], files \cup unwritten)
    BY <1>1, <1>2 DEF JobsOK
  <1>4. \A i \in DOMAIN job[t] : i > 1 => Apart(job[t][1], job[t][i])
    BY <1>2, <1>3 DEF JobOK, Once
  <1>5. \A u \in PicThreads : u # t => \A i \in DOMAIN job[u] :
          Apart(job[t][1], job[u][i]) /\ Apart(job[u][i], job[t][1])
    BY <1>1, <1>2 DEF JobsOK
  <1>6. ASSUME NEW other \in Remaining(t)
        PROVE  StepOK(other) /\ Compatible(other, job[t][1]) /\ Compatible(job[t][1], other)
    <2>1. PICK u \in PicThreads : \E i \in DOMAIN job[u] : other = job[u][i]
      BY DEF Remaining
    <2> QED BY <2>1, <1>1, <1>2 DEF JobsOK
  <1> QED BY <1>2, <1>3, <1>4, <1>5, <1>6

(* The remaining steps neither write nor record what the first does.       *)
LEMMA RemainingApart ==
    ASSUME Inv, NEW t \in PicThreads, NEW op, Doing(t, op), NEW other \in Remaining(t)
    PROVE  Apart(Head(job[t]), other)
  <1>1. PICK u \in PicThreads : \E i \in DOMAIN job[u] :
               other = job[u][i] /\ (u = t => i > 1)
    BY DEF Remaining
  <1> QED BY <1>1, FirstStep

(* A job that goes on without new steps.                                   *)
LEMMA NothingNew ==
    ASSUME NEW first
    PROVE  <<>> \in Seq(Steps) /\ Harmless(<<>>, first) /\ DOMAIN <<>> = {}
  BY DEF Harmless

-----------------------------------------------------------------------------
(* One lemma per action.                                                   *)

(* At the start there are no pictures and nothing is to be done.           *)
LEMMA InitOK == PicInit => Inv
  <1> SUFFICES ASSUME PicInit PROVE Inv
    OBVIOUS
  <1> USE PictureAssumption DEF PicInit
  <1>1. Typed
    BY DEF Typed, Rows
  <1>2. RowsOK
    BY DEF RowsOK, Rows
  <1>3. JobsOK
    BY DEF JobsOK, JobOK, Backed, Followed, ManagedFirst, Once
  <1>4. InsidePicturesKept /\ FilesAreListed
    BY DEF InsidePicturesKept, FilesAreListed
  <1> QED BY <1>1, <1>2, <1>3, <1>4 DEF Inv

(* A step that changes neither the rows nor the files, and puts into the   *)
(* job only what is compatible with the steps that remain.                 *)
LEMMA QuietStep ==
    ASSUME Inv, NEW t \in PicThreads, job[t] # <<>>,
           Head(job[t]).op \notin {"write", "insert_row", "update_url"},
           \A st \in Remaining(t) : StepOK(st),
           NEW n \in Seq(Steps), Harmless(n, Head(job[t])), Continue(t, n),
           \A k \in DOMAIN n : StepOK(n[k]) /\ \A st \in Remaining(t) : Compatible(st, n[k]),
           UNCHANGED <<up, today, day, url, inside, files, sent, leaked, unwritten>>,
           folders' \subseteq Folders
    PROVE  Inv'
  <1>1. \A st : StepOK(st)' <=> StepOK(st)
    BY DEF StepOK, Counted
  <1>2. JobsOK'
    BY <1>1, JobContinues
  <1>3. Typed'
    BY JobTyped DEF Inv, Typed
  <1>4. RowsOK' /\ InsidePicturesKept'
    BY DEF Inv, RowsOK, Counted, InsidePicturesKept
  <1>5. FilesAreListed'
    <2>1. \A u \in PicThreads : \A f \in Unrecorded(u) : f \in Unrecorded(u)'
      BY UnrecordedContinues DEF Records
    <2> QED BY <2>1 DEF Inv, FilesAreListed
  <1> QED BY <1>2, <1>3, <1>4, <1>5 DEF Inv

(* Making a directory disturbs nothing.                                    *)
LEMMA DirectoryKeeps ==
    ASSUME Inv, NEW t \in PicThreads, PictureDirectory(t)
    PROVE  Inv'
  <1>1. /\ Doing(t, "make_folder") /\ Continue(t, <<>>)
        /\ folders' = folders \cup {Folder(Head(job[t]).file)}
        /\ UNCHANGED <<up, today, day, url, inside, files, sent, leaked, unwritten>>
    BY DEF PictureDirectory, tables, history
  <1>2. /\ job[t] # <<>> /\ Head(job[t]).op = "make_folder" /\ Head(job[t]).file \in Files
        /\ \A st \in Remaining(t) : StepOK(st)
    BY <1>1, FirstStep, StepFields
  <1>3. folders' \subseteq Folders
    BY <1>1, <1>2 DEF Folder, Folders, Files, Store, Stores, Inv, Typed
  <1> QED BY <1>1, <1>2, <1>3, NothingNew, QuietStep

(* Nor does removing one.                                                  *)
LEMMA RemoveDirectoryKeeps ==
    ASSUME Inv, NEW t \in PicThreads, RemoveEmptyDirectory(t)
    PROVE  Inv'
  <1>1. /\ Doing(t, "remove_folder") /\ Continue(t, <<>>)
        /\ folders' \subseteq folders
        /\ UNCHANGED <<up, today, day, url, inside, files, sent, leaked, unwritten>>
    BY DEF RemoveEmptyDirectory, tables, history
  <1>2. /\ job[t] # <<>> /\ Head(job[t]).op = "remove_folder"
        /\ \A st \in Remaining(t) : StepOK(st)
    BY <1>1, FirstStep
  <1>3. folders' \subseteq Folders
    BY <1>1 DEF Inv, Typed
  <1> QED BY <1>1, <1>2, <1>3, NothingNew, QuietStep

(* Looking after the disk only adds to the thread's own job.               *)
LEMMA ManageKeeps ==
    ASSUME Inv, NEW t \in PicThreads, picture_storage_manage(t)
    PROVE  Inv'
  <1>1. /\ Doing(t, "manage")
        /\ UNCHANGED <<up, today, day, url, inside, files, folders, sent, leaked, unwritten>>
    BY DEF picture_storage_manage, tables, history
  <1>2. /\ job[t] # <<>> /\ Head(job[t]).op = "manage" /\ Head(job[t]).store \in Stores
        /\ \A st \in Remaining(t) : StepOK(st)
    BY <1>1, FirstStep, StepFields
  <1>3. PICK over \in BOOLEAN, low \in BOOLEAN :
          Continue(t, (IF over THEN <<Earliest(Head(job[t]).store)>> ELSE <<>>)
                        \o (IF low THEN <<ByCounts("pass"), ByCounts("voucher")>> ELSE <<>>))
    BY DEF picture_storage_manage
  <1> DEFINE e == Earliest(Head(job[t]).store)
             p == ByCounts("pass")
             v == ByCounts("voucher")
             a == IF over THEN <<e>> ELSE <<>>
             b == IF low THEN <<p, v>> ELSE <<>>
             n == a \o b
  <1>4. /\ e \in Steps /\ e.op = "earliest" /\ p \in Steps /\ p.op = "by_counts"
        /\ v \in Steps /\ v.op = "by_counts"
    BY <1>2 DEF Earliest, ByCounts, Steps, Stores
  <1>5. ASSUME NEW st, st.op \in {"earliest", "by_counts"}
        PROVE  StepOK(st) /\ \A other \in Remaining(t) : Compatible(other, st)
    BY <1>5 DEF StepOK, Compatible, Doomed, Records
  <1>6. Continue(t, n) BY <1>3
  <1> HIDE DEF e, p, v
  <1>7. a \in Seq(Steps) /\ Len(a) \in {0, 1} /\ \A k \in DOMAIN a : a[k] = e
    <2>1. CASE over BY <2>1, <1>4
    <2>2. CASE ~over BY <2>2
    <2> QED BY <2>1, <2>2
  <1>8. b \in Seq(Steps) /\ \A k \in DOMAIN b : b[k] \in {p, v}
    <2>1. CASE low BY <2>1, <1>4
    <2>2. CASE ~low BY <2>2
    <2> QED BY <2>1, <2>2
  <1> HIDE DEF a, b
  <1>9. /\ n \in Seq(Steps)
        /\ \A k \in DOMAIN n : \/ k = 1 /\ n[k] = e
                               \/ n[k] \in {p, v}
    <2>1. /\ n \in Seq(Steps) /\ Len(n) = Len(a) + Len(b)
          /\ \A k \in 1 .. Len(a) + Len(b) : n[k] = IF k <= Len(a) THEN a[k] ELSE b[k - Len(a)]
      BY <1>7, <1>8, ConcatProperties
    <2> HIDE DEF n
    <2>2. DOMAIN n = 1 .. (Len(a) + Len(b)) /\ Len(b) \in Nat
          /\ DOMAIN a = 1 .. Len(a) /\ DOMAIN b = 1 .. Len(b)
      BY <2>1, <1>7, <1>8
    <2>3. ASSUME NEW k \in DOMAIN n
          PROVE  IF k <= Len(a) THEN k = 1 /\ k \in DOMAIN a ELSE k - Len(a) \in DOMAIN b
      BY <2>2, <1>7
    <2> QED BY <2>1, <2>2, <2>3, <1>7, <1>8
  <1> HIDE DEF n
  <1>10. /\ Harmless(n, Head(job[t]))
         /\ \A k \in DOMAIN n : StepOK(n[k]) /\ \A st \in Remaining(t) : Compatible(st, n[k])
    BY <1>2, <1>4, <1>5, <1>9 DEF Harmless
  <1>11. folders' \subseteq Folders
    BY <1>1 DEF Inv, Typed
  <1> QED BY <1>1, <1>2, <1>6, <1>9, <1>10, <1>11, QuietStep

(* What is left to remove of a list of files, none of a vehicle inside nor *)
(* of a row that is still to be written, is compatible with the rest.      *)
LEMMA RemovingIsCompatible ==
    ASSUME Inv, NEW t \in PicThreads, NEW fs \in SUBSET Files, NEW first,
           \A f \in fs : Counted(f) /\ f.row \notin inside,
           \A f \in fs : \A st \in Remaining(t) :
             (Records(st) => f \notin st.files) /\ (st.op = "insert_row" => f.row # st.row)
    PROVE  LET n == Removing(fs) IN
           /\ n \in Seq(Steps) /\ Harmless(n, first)
           /\ \A k \in DOMAIN n : /\ n[k].op = "remove" /\ StepOK(n[k])
                                  /\ \A st \in Remaining(t) : Compatible(st, n[k])
  <1> DEFINE st == RemovePics(fs)
             n == Removing(fs)
  <1>1. st \in Steps /\ st.op = "remove" /\ st.files = fs
    BY DEF RemovePics, Steps
  <1>2. StepOK(st) /\ \A other \in Remaining(t) : Compatible(other, st)
    BY <1>1 DEF StepOK, Doomed, Records, Compatible
  <1> HIDE DEF st
  <1>3. n = IF fs = {} THEN <<>> ELSE <<st>>
    BY DEF Removing, st
  <1> HIDE DEF n
  <1>4. n \in Seq(Steps) /\ \A k \in DOMAIN n : n[k] = st
    <2>1. CASE fs = {} BY <2>1, <1>3
    <2>2. CASE fs # {} BY <2>2, <1>1, <1>3
    <2> QED BY <2>1, <2>2
  <1> QED BY <1>1, <1>2, <1>4 DEF Harmless, n

(* Nobody is to record what a row names, and nobody is to write the row of *)
(* a pass event that names something.                                      *)
LEMMA NamedIsCompatible ==
    ASSUME Inv, NEW t \in PicThreads, NEW r \in Rows, NEW f \in url[r], r \notin inside
    PROVE  /\ f \in Files /\ Counted(f) /\ f.row \notin inside
           /\ \A st \in Remaining(t) :
                (Records(st) => f \notin st.files) /\ (st.op = "insert_row" => f.row # st.row)
  <1>1. f \in Files /\ Counted(f) /\ f.row = r
    BY DEF Inv, Typed, RowsOK
  <1>2. ASSUME NEW st \in Remaining(t)
        PROVE  (Records(st) => f \notin st.files) /\ (st.op = "insert_row" => f.row # st.row)
    <2>1. PICK u \in PicThreads : \E i \in DOMAIN job[u] : st = job[u][i]
      BY <1>2 DEF Remaining
    <2>2. StepOK(st)
      BY <2>1 DEF Inv, JobsOK
    <2> QED BY <2>2, <1>1 DEF StepOK
  <1> QED BY <1>1, <1>2

(* A list of rows that name pictures and are of no vehicle inside.         *)
LEMMA RemovalKeeps ==
    ASSUME Inv, NEW t \in PicThreads, NEW op \in {"by_counts", "earliest", "expired"}, Doing(t, op),
           NEW store, NEW rows \in SUBSET Clearable(store), Continue(t, Removal(rows)),
           UNCHANGED <<up, today, tables, files, folders, sent, history>>
    PROVE  Inv'
  <1> DEFINE fs == UNION {url[r] : r \in rows}
  <1>1. job[t] # <<>> /\ Head(job[t]).op = op /\ \A st \in Remaining(t) : StepOK(st)
    BY FirstStep
  <1>2. \A f \in fs : \E r \in Rows : f \in url[r] /\ r \notin inside
    BY DEF Clearable, Named
  <1> HIDE DEF fs
  <1>3. /\ fs \in SUBSET Files
        /\ \A f \in fs : Counted(f) /\ f.row \notin inside
        /\ \A f \in fs : \A st \in Remaining(t) :
             (Records(st) => f \notin st.files) /\ (st.op = "insert_row" => f.row # st.row)
    BY <1>2, NamedIsCompatible
  <1> DEFINE n == Removing(fs)
  <1>4. /\ n \in Seq(Steps) /\ Harmless(n, Head(job[t]))
        /\ \A k \in DOMAIN n : StepOK(n[k]) /\ \A st \in Remaining(t) : Compatible(st, n[k])
    BY <1>3, RemovingIsCompatible
  <1>5. Continue(t, n)
    BY DEF Removal, fs
  <1>6. folders' \subseteq Folders /\ UNCHANGED <<up, today, day, url, inside, files, sent, leaked, unwritten>>
    BY DEF Inv, Typed, tables, history
  <1> QED BY <1>1, <1>4, <1>5, <1>6, QuietStep

(* A file that could not be removed is left to its row.                    *)
LEMMA RemoveFailsKeeps ==
    ASSUME Inv, NEW t \in PicThreads, RemoveFails(t)
    PROVE  Inv'
  <1>1. /\ Doing(t, "remove")
        /\ UNCHANGED <<up, today, day, url, inside, files, folders, sent, leaked, unwritten>>
    BY DEF RemoveFails, tables, history
  <1>2. PICK f : Continue(t, Removing(Head(job[t]).files \ {f}))
    BY DEF RemoveFails
  <1> DEFINE fs == Head(job[t]).files \ {f}
             n == Removing(fs)
  <1>3. /\ job[t] # <<>> /\ Head(job[t]).op = "remove" /\ Head(job[t]) \in Steps
        /\ fs \in SUBSET Files /\ StepOK(Head(job[t]))
        /\ \A st \in Remaining(t) : StepOK(st) /\ Compatible(st, Head(job[t]))
    BY <1>1, FirstStep, StepFields
  <1>4. /\ \A g \in fs : Counted(g) /\ g.row \notin inside
        /\ \A g \in fs : \A st \in Remaining(t) :
             (Records(st) => g \notin st.files) /\ (st.op = "insert_row" => g.row # st.row)
    BY <1>3 DEF StepOK, Compatible, Doomed
  <1> HIDE DEF fs
  <1>5. /\ n \in Seq(Steps) /\ Harmless(n, Head(job[t]))
        /\ \A k \in DOMAIN n : StepOK(n[k]) /\ \A st \in Remaining(t) : Compatible(st, n[k])
    BY <1>3, <1>4, RemovingIsCompatible
  <1>6. folders' \subseteq Folders /\ Continue(t, n)
    BY <1>1, <1>2 DEF Inv, Typed, fs
  <1> QED BY <1>1, <1>3, <1>5, <1>6, QuietStep

(* Nobody else writes the file, forgets its name or is to remove it, and   *)
(* the thread is to record it.                                             *)
LEMMA WriteKeeps ==
    ASSUME Inv, NEW t \in PicThreads, WriteFile(t)
    PROVE  Inv'
  <1> DEFINE st == Head(job[t])
             f == st.file
  <1>0. /\ Doing(t, "write") /\ Continue(t, <<>>)
        /\ UNCHANGED <<up, today, day, url, inside, folders, sent, leaked>>
        /\ files' \in {files, files \cup {f}}
        /\ files \subseteq files' /\ unwritten \subseteq unwritten'
        /\ unwritten' \in {unwritten, unwritten \cup {f}}
        /\ f \in files' \cup unwritten'
    BY DEF WriteFile, tables
  <1>1. /\ job[t] # <<>> /\ job[t] \in Seq(Steps) /\ 1 \in DOMAIN job[t] /\ st = job[t][1]
        /\ st \in Steps /\ st.op = "write" /\ f \in Files
        /\ \A other \in Remaining(t) : StepOK(other) /\ Apart(st, other)
    BY <1>0, FirstStep, RemainingApart, StepFields
  <1>2. PICK k \in DOMAIN job[t] : 1 < k /\ Records(job[t][k]) /\ f \in job[t][k].files
    <2>1. Followed(job[t])
      BY DEF Inv, JobsOK, JobOK
    <2> QED BY <2>1, <1>1 DEF Followed
  <1>3. /\ Counted(f) /\ f \in Unrecorded(t)
        /\ \A other \in Remaining(t) : f \notin Doomed(other)
    <2>1. StepOK(job[t][k])
      BY <1>2 DEF Inv, JobsOK
    <2>2. f \in Unrecorded(t)
      BY <1>2 DEF Unrecorded, ToSet, Records
    <2>3. ASSUME NEW other \in Remaining(t) PROVE f \notin Doomed(other)
      <3>1. PICK u \in PicThreads : \E i \in DOMAIN job[u] : other = job[u][i]
        BY <2>3 DEF Remaining
      <3> QED BY <3>1, <1>2 DEF Inv, JobsOK, Compatible
    <2> QED BY <2>1, <2>2, <2>3, <1>2 DEF StepOK
  <1> HIDE DEF st, f
  <1>4. JobsOK'
    <2>1. ASSUME NEW other \in Remaining(t) PROVE StepOK(other)'
      <3>1. other.op = "write" => other.file # f
        BY <1>1, <2>1 DEF Apart, f
      <3>2. other.op = "empty" => other.file # f
        BY <1>3, <2>1 DEF Doomed
      <3> QED BY <3>1, <3>2, <1>0, <1>1, <2>1 DEF StepOK, Counted
    <2> QED BY <2>1, <1>0, <1>1, NothingNew, JobContinues DEF st, f
  <1>5. Typed'
    <2>1. job' \in [PicThreads -> Seq(Steps)]
      BY <1>0, <1>1, NothingNew, JobTyped
    <2> QED BY <2>1, <1>0, <1>1 DEF Inv, Typed
  <1>6. RowsOK'
    BY <1>0, <1>3 DEF Inv, RowsOK, Counted
  <1>7. InsidePicturesKept'
    BY <1>0 DEF Inv, InsidePicturesKept
  <1>8. FilesAreListed'
    <2>1. \A u \in PicThreads : \A g \in Unrecorded(u) : g \in Unrecorded(u)'
      BY <1>0, <1>1, NothingNew, UnrecordedContinues DEF Records, st
    <2> QED BY <2>1, <1>0, <1>3 DEF Inv, FilesAreListed
  <1> QED BY <1>4, <1>5, <1>6, <1>7, <1>8 DEF Inv

(* The row is new, its pictures were saved, and nobody removes them.       *)
LEMMA InsertKeeps ==
    ASSUME Inv, NEW t \in PicThreads, InsertPassVehicleInfo(t)
    PROVE  Inv'
  <1> DEFINE st == Head(job[t])
             r == st.row
  <1>0. /\ Doing(t, "insert_row") /\ Continue(t, <<>>)
        /\ url' = [url EXCEPT ![r] = st.files]
        /\ inside' \in {inside, inside \cup {r}}
        /\ UNCHANGED <<up, today, day, files, folders, sent, leaked, unwritten>>
    BY DEF InsertPassVehicleInfo, history
  <1>1. /\ job[t] # <<>> /\ job[t] \in Seq(Steps) /\ 1 \in DOMAIN job[t] /\ st = job[t][1]
        /\ st \in Steps /\ st.op = "insert_row" /\ r \in Passes /\ st.files \subseteq Files
        /\ StepOK(st)
        /\ \A other \in Remaining(t) : StepOK(other) /\ Apart(st, other) /\ Compatible(st, other)
    BY <1>0, FirstStep, RemainingApart, StepFields
  <1>2. st.files \subseteq files \cup unwritten
    <2>1. Backed(job[t], files \cup unwritten)
      BY DEF Inv, JobsOK, JobOK
    <2> QED BY <2>1, <1>1 DEF Backed
  <1>3. /\ r \in Rows /\ r \notin Vouchers /\ url[r] = {}
        /\ \A g \in st.files : g.row = r /\ Counted(g)
    BY <1>1, PictureAssumption DEF StepOK, Rows, Records
  <1>4. url'[r] = st.files /\ \A q \in Rows : q # r => url'[q] = url[q]
    BY <1>0, <1>3 DEF Inv, Typed
  <1> HIDE DEF st, r
  <1>5. JobsOK'
    <2>1. ASSUME NEW other \in Remaining(t) PROVE StepOK(other)'
      <3>1. other \in Steps
        BY <2>1 DEF Remaining
      <3>2. ASSUME Records(other), NEW g \in other.files PROVE g \notin url'[g.row]
        <4>1. g \in Files
          BY <3>1, <3>2, StepFields DEF Records
        <4>2. g \notin st.files
          BY <1>1, <2>1, <3>2 DEF Apart, Records
        <4>3. g \notin url[g.row] /\ g.row \in Rows
          BY <1>1, <2>1, <3>2, <4>1 DEF StepOK, Files
        <4> QED BY <4>2, <4>3, <1>4
      <3>3. other.op = "insert_row" =>
              other.row # r /\ other.row \in Rows /\ url[other.row] = {} /\ other.row \notin inside
        BY <1>1, <2>1, <3>1, StepFields DEF Apart, StepOK, Rows, r
      <3>4. \A g \in Doomed(other) : g.row # r /\ g.row \notin inside
        BY <1>1, <2>1 DEF Compatible, StepOK, r
      <3>5. StepOK(other)
        BY <1>1, <2>1
      <3> QED BY <3>2, <3>3, <3>4, <3>5, <1>0, <1>4 DEF StepOK, Counted
    <2> QED BY <2>1, <1>0, <1>1, NothingNew, JobContinues DEF st
  <1>6. Typed'
    <2>1. job' \in [PicThreads -> Seq(Steps)]
      BY <1>0, <1>1, NothingNew, JobTyped
    <2> QED BY <2>1, <1>0, <1>1 DEF Inv, Typed
  <1>7. RowsOK'
    <2>1. \A f : Counted(f)' <=> Counted(f)
      BY <1>0 DEF Counted
    <2>2. \A q \in inside' : sent[q] > 0
      BY <1>0, <1>1 DEF Inv, RowsOK, StepOK, r
    <2> QED BY <2>1, <2>2, <1>0, <1>3, <1>4 DEF Inv, RowsOK, Rows
  <1>8. InsidePicturesKept'
    <2>1. inside \subseteq Rows
      BY DEF Inv, Typed, Rows
    <2> QED BY <2>1, <1>0, <1>2, <1>4 DEF Inv, InsidePicturesKept
  <1>9. FilesAreListed'
    <2> SUFFICES ASSUME NEW f \in files
                 PROVE  f \in url'[f.row] \/ f \in leaked \/ \E u \in PicThreads : f \in Unrecorded(u)'
      BY <1>0 DEF FilesAreListed
    <2>1. f.row \in Rows
      BY DEF Inv, Typed, Files
    <2>2. CASE f \in url[f.row] \/ f \in leaked
      BY <2>1, <2>2, <1>3, <1>4
    <2>3. CASE \E u \in PicThreads : f \in Unrecorded(u)
      <3>1. PICK u \in PicThreads : f \in Unrecorded(u)
        BY <2>3
      <3>2. f \in Unrecorded(u)' \/ f \in st.files
        BY <3>1, <1>0, <1>1, NothingNew, UnrecordedContinues DEF st
      <3> QED BY <3>1, <3>2, <1>3, <1>4
    <2> QED BY <2>2, <2>3 DEF Inv, FilesAreListed
  <1> QED BY <1>5, <1>6, <1>7, <1>8, <1>9 DEF Inv

(* The voucher it replaces is leaked.                                      *)
LEMMA UpdateKeeps ==
    ASSUME Inv, NEW t \in PicThreads, UpdateVoucherPictureURL(t)
    PROVE  Inv'
  <1> DEFINE st == Head(job[t])
             r == st.row
  <1>0. /\ Doing(t, "update_url") /\ Continue(t, <<>>)
        /\ url' = [url EXCEPT ![r] = st.files]
        /\ leaked' = leaked \cup url[r]
        /\ UNCHANGED <<up, today, day, inside, files, folders, sent, unwritten>>
    BY DEF UpdateVoucherPictureURL
  <1>1. /\ job[t] # <<>> /\ job[t] \in Seq(Steps)
        /\ st \in Steps /\ st.op = "update_url" /\ r \in Vouchers /\ st.files \subseteq Files
        /\ StepOK(st)
        /\ \A other \in Remaining(t) : StepOK(other) /\ Apart(st, other) /\ Compatible(st, other)
    BY <1>0, FirstStep, RemainingApart, StepFields
  <1>3. /\ r \in Rows /\ r \notin Passes
        /\ \A g \in st.files : g.row = r /\ Counted(g)
        /\ \A g, h \in st.files : g = h
    BY <1>1, PictureAssumption DEF StepOK, Rows, Records
  <1>4. url'[r] = st.files /\ \A q \in Rows : q # r => url'[q] = url[q]
    BY <1>0, <1>3 DEF Inv, Typed
  <1> HIDE DEF st, r
  <1>5. JobsOK'
    <2>1. ASSUME NEW other \in Remaining(t) PROVE StepOK(other)'
      <3>1. other \in Steps
        BY <2>1 DEF Remaining
      <3>2. ASSUME Records(other), NEW g \in other.files PROVE g \notin url'[g.row]
        <4>1. g \in Files
          BY <3>1, <3>2, StepFields DEF Records
        <4>2. g \notin st.files
          BY <1>1, <2>1, <3>2 DEF Apart, Records
        <4>3. g \notin url[g.row] /\ g.row \in Rows
          BY <1>1, <2>1, <3>2, <4>1 DEF StepOK, Files
        <4> QED BY <4>2, <4>3, <1>4
      <3>3. other.op = "insert_row" =>
              other.row # r /\ other.row \in Rows /\ url[other.row] = {} /\ other.row \notin inside
        BY <1>1, <1>3, <2>1, <3>1, StepFields DEF StepOK, Rows
      <3>5. StepOK(other)
        BY <1>1, <2>1
      <3> QED BY <3>2, <3>3, <3>5, <1>0, <1>4 DEF StepOK, Counted
    <2> QED BY <2>1, <1>0, <1>1, NothingNew, JobContinues DEF st
  <1>6. Typed'
    <2>1. job' \in [PicThreads -> Seq(Steps)]
      BY <1>0, <1>1, NothingNew, JobTyped
    <2> QED BY <2>1, <1>0, <1>1, <1>3 DEF Inv, Typed
  <1>7. RowsOK'
    <2>1. \A f : Counted(f)' <=> Counted(f)
      BY <1>0 DEF Counted
    <2> QED BY <2>1, <1>0, <1>3, <1>4 DEF Inv, RowsOK, Rows
  <1>8. InsidePicturesKept'
    <2>1. inside \subseteq Rows /\ r \notin inside
      BY <1>3 DEF Inv, Typed, Rows
    <2> QED BY <2>1, <1>0, <1>4 DEF Inv, InsidePicturesKept
  <1>9. FilesAreListed'
    <2> SUFFICES ASSUME NEW f \in files
                 PROVE  f \in url'[f.row] \/ f \in leaked' \/ \E u \in PicThreads : f \in Unrecorded(u)'
      BY <1>0 DEF FilesAreListed
    <2>1. f.row \in Rows
      BY DEF Inv, Typed, Files
    <2>2. CASE f \in url[f.row] \/ f \in leaked
      BY <2>1, <2>2, <1>0, <1>4
    <2>3. CASE \E u \in PicThreads : f \in Unrecorded(u)
      <3>1. PICK u \in PicThreads : f \in Unrecorded(u)
        BY <2>3
      <3>2. f \in Unrecorded(u)' \/ f \in st.files
        BY <3>1, <1>0, <1>1, NothingNew, UnrecordedContinues DEF st
      <3> QED BY <3>1, <3>2, <1>3, <1>4
    <2> QED BY <2>2, <2>3 DEF Inv, FilesAreListed
  <1> QED BY <1>5, <1>6, <1>7, <1>8, <1>9 DEF Inv

(* A file is taken off a list and its row is to forget it: it is of no     *)
(* vehicle inside, nobody is to record it, and it is gone or leaked.       *)
LEMMA ForgetKeeps ==
    ASSUME Inv, NEW t \in PicThreads, Doing(t, "remove"), NEW f \in NextOf(t), NEW gone \in BOOLEAN,
           Continue(t, <<Empty(f)>> \o (IF gone THEN <<RemoveFolder(f)>> ELSE <<>>)
                         \o Removing(Head(job[t]).files \ {f})),
           files' \in {files, files \ {f}}, leaked' \in {leaked, leaked \cup {f}},
           f \notin files' \/ f \in leaked',
           UNCHANGED <<up, today, day, url, inside, folders, sent, unwritten>>
    PROVE  Inv'
  <1> DEFINE st == Head(job[t])
  <1>0. /\ Doing(t, "remove")
        /\ UNCHANGED <<up, today, day, url, inside, folders, sent, unwritten>>
    OBVIOUS
  <1>1. /\ files' \in {files, files \ {f}} /\ leaked' \in {leaked, leaked \cup {f}}
        /\ f \notin files' \/ f \in leaked'
    OBVIOUS
  <1> DEFINE fs == st.files \ {f}
             a == <<Empty(f)>> \o (IF gone THEN <<RemoveFolder(f)>> ELSE <<>>)
             c == Removing(fs)
             n == a \o c
  <1>2. /\ job[t] # <<>> /\ st \in Steps /\ st.op = "remove" /\ StepOK(st)
        /\ st.files \subseteq Files /\ f \in st.files
        /\ \A other \in Remaining(t) : StepOK(other) /\ Compatible(other, st)
    BY <1>0, FirstStep, StepFields DEF NextOf
  <1>3. /\ \A g \in st.files : Counted(g) /\ g.row \notin inside
        /\ \A g \in st.files : \A other \in Remaining(t) :
             (Records(other) => g \notin other.files) /\ (other.op = "insert_row" => g.row # other.row)
    BY <1>2 DEF StepOK, Compatible, Doomed
  <1>4. /\ fs \in SUBSET Files
        /\ \A g \in fs : Counted(g) /\ g.row \notin inside
        /\ \A g \in fs : \A other \in Remaining(t) :
             (Records(other) => g \notin other.files) /\ (other.op = "insert_row" => g.row # other.row)
    BY <1>2, <1>3
  <1>5. Continue(t, n)
    OBVIOUS
  <1> HIDE DEF st, fs
  <1>6. /\ c \in Seq(Steps)
        /\ \A k \in DOMAIN c : /\ c[k].op = "remove" /\ StepOK(c[k])
                               /\ \A other \in Remaining(t) : Compatible(other, c[k])
    BY <1>4, RemovingIsCompatible
  <1>7. /\ Empty(f) \in Steps /\ Empty(f).op = "empty" /\ Empty(f).file = f
        /\ RemoveFolder(f) \in Steps /\ RemoveFolder(f).op = "remove_folder"
    BY <1>2 DEF Empty, RemoveFolder, Steps
  <1>8. a \in Seq(Steps) /\ \A k \in DOMAIN a : a[k] \in {Empty(f), RemoveFolder(f)}
    <2>1. CASE gone BY <2>1, <1>7
    <2>2. CASE ~gone BY <2>2, <1>7
    <2> QED BY <2>1, <2>2
  <1> HIDE DEF a, c
  <1>9. n \in Seq(Steps) /\ \A k \in DOMAIN n : (\E i \in DOMAIN a : n[k] = a[i])
                                             \/ (\E i \in DOMAIN c : n[k] = c[i])
    <2>1. /\ n \in Seq(Steps) /\ Len(n) = Len(a) + Len(c)
          /\ \A k \in 1 .. Len(a) + Len(c) : n[k] = IF k <= Len(a) THEN a[k] ELSE c[k - Len(a)]
      BY <1>6, <1>8, ConcatProperties
    <2> HIDE DEF n
    <2>2. /\ DOMAIN n = 1 .. (Len(a) + Len(c)) /\ Len(a) \in Nat /\ Len(c) \in Nat
          /\ DOMAIN a = 1 .. Len(a) /\ DOMAIN c = 1 .. Len(c)
      BY <2>1, <1>6, <1>8
    <2>3. ASSUME NEW k \in DOMAIN n
          PROVE  IF k <= Len(a) THEN k \in DOMAIN a ELSE k - Len(a) \in DOMAIN c
      BY <2>2
    <2> QED BY <2>1, <2>2, <2>3
  <1> HIDE DEF n
  <1>10. \A k \in DOMAIN n : n[k] \in {Empty(f), RemoveFolder(f)} \/ \E i \in DOMAIN c : n[k] = c[i]
    BY <1>8, <1>9
  <1>11. Harmless(n, st)
    BY <1>6, <1>7, <1>10 DEF Harmless
  <1>12. ASSUME NEW k \in DOMAIN n, NEW x, x = n[k]
         PROVE  StepOK(x)' /\ \A other \in Remaining(t) : Compatible(other, x)
    <2>1. CASE x = Empty(f)
      <3>1. Doomed(x) = {f} /\ x.op = "empty" /\ x.file = f
        BY <2>1, <1>7 DEF Doomed
      <3>2. StepOK(x)'
        BY <3>1, <1>0, <1>1, <1>2, <1>3 DEF StepOK, Records, Counted
      <3> QED BY <3>1, <3>2, <1>2, <1>3 DEF Compatible
    <2>2. CASE x = RemoveFolder(f)
      BY <2>2, <1>7 DEF StepOK, Records, Doomed, Compatible
    <2>3. CASE \E i \in DOMAIN c : x = c[i]
      BY <2>3, <1>0, <1>6 DEF StepOK, Records, Counted
    <2> QED BY <2>1, <2>2, <2>3, <1>10, <1>12
  <1>13. JobsOK'
    <2>1. \A other \in Remaining(t) : StepOK(other)'
      BY <1>0, <1>1, <1>2 DEF StepOK, Counted
    <2>2. \A other \in Remaining(t) : other.op = "insert_row" =>
            \A g \in other.files : g \in files \cup unwritten => g \in (files \cup unwritten)'
      BY <1>0, <1>1, <1>2, <1>3 DEF Records
    <2>3. PICK m : m = n
      OBVIOUS
    <2>4. /\ m \in Seq(Steps) /\ Harmless(m, Head(job[t])) /\ Continue(t, m)
          /\ \A k \in DOMAIN m : /\ StepOK(m[k])'
                                /\ \A other \in Remaining(t) : Compatible(other, m[k])
      BY <2>3, <1>5, <1>9, <1>11, <1>12 DEF st
    <2>5. job[t] # <<>> /\ Head(job[t]).op # "write"
      BY <1>2 DEF st
    <2> QED BY <2>1, <2>2, <2>4, <2>5, JobContinues
  <1>14. Typed'
    <2>1. job' \in [PicThreads -> Seq(Steps)]
      BY <1>2, <1>5, <1>9, JobTyped
    <2>2. files' \subseteq Files /\ leaked' \subseteq Files
      BY <1>1, <1>2 DEF Inv, Typed
    <2> QED BY <2>1, <2>2, <1>0 DEF Inv, Typed
  <1>15. RowsOK'
    BY <1>0, <1>1 DEF Inv, RowsOK, Counted
  <1>16. InsidePicturesKept'
    <2>1. \A r \in inside : f \notin url[r]
      BY <1>2, <1>3 DEF Inv, RowsOK, Typed, Rows
    <2> QED BY <2>1, <1>0, <1>1 DEF Inv, InsidePicturesKept
  <1>17. FilesAreListed'
    <2>1. \A u \in PicThreads : \A g \in Unrecorded(u) : g \in Unrecorded(u)'
      BY <1>2, <1>5, <1>9, UnrecordedContinues DEF Records, st
    <2> QED BY <2>1, <1>0, <1>1 DEF Inv, FilesAreListed
  <1> QED BY <1>13, <1>14, <1>15, <1>16, <1>17 DEF Inv

(* The file is removed if it is there.                                     *)
LEMMA RemoveKeeps ==
    ASSUME Inv, NEW t \in PicThreads, RemoveFile(t)
    PROVE  Inv'
  <1>1. /\ Doing(t, "remove")
        /\ UNCHANGED <<up, today, day, url, inside, folders, sent, leaked, unwritten>>
    BY DEF RemoveFile, tables, history
  <1>2. PICK f \in NextOf(t) :
          /\ files' = files \ {f}
          /\ Continue(t, <<Empty(f)>> \o (IF f \in files THEN <<RemoveFolder(f)>> ELSE <<>>)
                           \o Removing(Head(job[t]).files \ {f}))
    BY DEF RemoveFile
  <1> DEFINE gone == f \in files
  <1>3. gone \in BOOLEAN
    OBVIOUS
  <1>4. Continue(t, <<Empty(f)>> \o (IF gone THEN <<RemoveFolder(f)>> ELSE <<>>)
                      \o Removing(Head(job[t]).files \ {f}))
    BY <1>2
  <1> HIDE DEF gone
  <1> QED BY <1>1, <1>2, <1>3, <1>4, ForgetKeeps

(* A file that could not be looked at stays and is counted as leaked.      *)
LEMMA ExistsFailsKeeps ==
    ASSUME Inv, NEW t \in PicThreads, ExistsFails(t)
    PROVE  Inv'
  <1>1. /\ Doing(t, "remove")
        /\ UNCHANGED <<up, today, day, url, inside, files, folders, sent, unwritten>>
    BY DEF ExistsFails, tables
  <1>2. PICK f \in NextOf(t) :
          /\ leaked' = leaked \cup {f}
          /\ Continue(t, <<Empty(f)>> \o Removing(Head(job[t]).files \ {f}))
    BY DEF ExistsFails
  <1>3. <<Empty(f)>> \o (IF FALSE THEN <<RemoveFolder(f)>> ELSE <<>>) = <<Empty(f)>>
    OBVIOUS
  <1> QED BY <1>1, <1>2, <1>3, ForgetKeeps

(* The file whose name is forgotten is not there or leaked; another that   *)
(* the row named by now is leaked.                                         *)
LEMMA EmptyKeeps ==
    ASSUME Inv, NEW t \in PicThreads, EmptyPicPath(t)
    PROVE  Inv'
  <1> DEFINE st == Head(job[t])
             f == st.file
             forgotten == IF f.row \in Vouchers THEN url[f.row] ELSE {f}
  <1>0. /\ Doing(t, "empty") /\ Continue(t, <<>>)
        /\ url' = [url EXCEPT ![f.row] = @ \ forgotten]
        /\ leaked' = leaked \cup (forgotten \ {f})
        /\ UNCHANGED <<up, today, day, inside, files, folders, sent, unwritten>>
    BY DEF EmptyPicPath
  <1>1. /\ job[t] # <<>> /\ st.op = "empty" /\ f \in Files
        /\ f \notin files \/ f \in leaked
        /\ \A other \in Remaining(t) : StepOK(other)
    BY <1>0, FirstStep, StepFields DEF StepOK
  <1>2. /\ f.row \in Rows /\ forgotten \ {f} \subseteq Files
        /\ \A r \in Rows : url'[r] \subseteq url[r]
        /\ \A r \in Rows : \A g \in url[r] : g \in url'[r] \/ g \in forgotten
    BY <1>0, <1>1 DEF Inv, Typed, Files
  <1> HIDE DEF st, f, forgotten
  <1>3. JobsOK'
    <2>1. ASSUME NEW other \in Remaining(t) PROVE StepOK(other)'
      <3>1. other \in Steps /\ StepOK(other)
        BY <1>1, <2>1 DEF Remaining
      <3>2. ASSUME Records(other), NEW g \in other.files PROVE g \notin url'[g.row]
        <4>1. g \in Files
          BY <3>1, <3>2, StepFields DEF Records
        <4> QED BY <3>1, <3>2, <4>1, <1>2 DEF StepOK, Files
      <3>3. other.op = "insert_row" => other.row \in Rows
        BY <3>1, StepFields DEF Rows
      <3> QED BY <3>1, <3>2, <3>3, <1>0, <1>2 DEF StepOK, Counted
    <2> QED BY <2>1, <1>0, <1>1, NothingNew, JobContinues DEF st
  <1>4. Typed'
    <2>1. job' \in [PicThreads -> Seq(Steps)]
      BY <1>0, <1>1, NothingNew, JobTyped
    <2> QED BY <2>1, <1>0, <1>2 DEF Inv, Typed
  <1>5. RowsOK'
    BY <1>0, <1>2 DEF Inv, RowsOK, Counted, Rows
  <1>6. InsidePicturesKept'
    BY <1>0, <1>2 DEF Inv, InsidePicturesKept, Typed, Rows
  <1>7. FilesAreListed'
    <2>1. \A u \in PicThreads : \A g \in Unrecorded(u) : g \in Unrecorded(u)'
      BY <1>0, <1>1, NothingNew, UnrecordedContinues DEF Records, st
    <2>2. \A g \in files : g.row \in Rows /\ (g # f \/ g \in leaked)
      BY <1>1 DEF Inv, Typed, Files
    <2> QED BY <2>1, <2>2, <1>0, <1>2 DEF Inv, FilesAreListed
  <1> QED BY <1>3, <1>4, <1>5, <1>6, <1>7 DEF Inv

(* A vehicle that leaves gives up a protection that no step relied on.     *)
LEMMA LeavesKeeps ==
    ASSUME Inv, NEW r \in Passes, LeavesPark(r)
    PROVE  Inv'
  <1>1. /\ inside' = inside \ {r}
        /\ UNCHANGED <<up, today, day, url, files, folders, sent, job, leaked, unwritten>>
    BY DEF LeavesPark, history
  <1>2. \A st : StepOK(st) => StepOK(st)'
    BY <1>1 DEF StepOK, Counted
  <1>3. JobsOK'
    BY <1>1, <1>2 DEF Inv, JobsOK
  <1>4. Typed' /\ RowsOK' /\ InsidePicturesKept'
    BY <1>1 DEF Inv, Typed, RowsOK, Counted, InsidePicturesKept
  <1>5. FilesAreListed'
    BY <1>1 DEF Inv, FilesAreListed, Unrecorded
  <1> QED BY <1>3, <1>4, <1>5 DEF Inv

(* The jobs are kept when a thread gives up, and so is the rest if what it *)
(* had written and not recorded is leaked.                                 *)
LEMMA DropKeeps ==
    ASSUME Inv, NEW t \in PicThreads, job' = [job EXCEPT ![t] = <<>>],
           UNCHANGED <<up, today, day, url, inside, files, folders, sent, unwritten>>,
           leaked \subseteq leaked', leaked' \subseteq Files,
           \A f \in files : f \in Unrecorded(t) => f \in leaked'
    PROVE  Inv'
  <1>1. JobOK(<<>>, files \cup unwritten)
    BY DEF JobOK, Backed, Followed, ManagedFirst, Once
  <1>2. sent' \in [Rows -> Nat] /\ \A r \in Rows : sent[r] <= sent'[r]
    BY DEF Inv, Typed
  <1>3. JobsOK'
    BY <1>1, <1>2, NothingNew, JobReplaced
  <1>4. Typed'
    BY DEF Inv, Typed
  <1>5. RowsOK' /\ InsidePicturesKept'
    BY DEF Inv, RowsOK, Counted, InsidePicturesKept
  <1>6. FilesAreListed'
    <2>1. \A u \in PicThreads : u # t => Unrecorded(u)' = Unrecorded(u)
      BY DEF Inv, Typed, Unrecorded
    <2> QED BY <2>1 DEF Inv, FilesAreListed
  <1> QED BY <1>3, <1>4, <1>5, <1>6 DEF Inv

(* Nothing was written yet when the statement for the earliest day is      *)
(* rejected.                                                               *)
LEMMA EarliestVehicleKeeps ==
    ASSUME Inv, NEW t \in PicThreads, clear_earliest_day_vehicle_pic(t)
    PROVE  Inv'
  <1>1. /\ Doing(t, "earliest") /\ job' = [job EXCEPT ![t] = <<>>]
        /\ UNCHANGED <<up, today, day, url, inside, files, folders, sent, leaked, unwritten>>
    BY DEF clear_earliest_day_vehicle_pic, tables, history
  <1>2. 1 \in DOMAIN job[t] /\ job[t][1].op = "earliest" /\ ManagedFirst(job[t])
    BY <1>1, FirstStep DEF Inv, JobsOK, JobOK
  <1>3. ASSUME NEW f \in Unrecorded(t) PROVE f \notin files
    <2>1. PICK k \in DOMAIN job[t] : Records(job[t][k]) /\ f \in job[t][k].files
      BY <1>3 DEF Unrecorded, ToSet, Records
    <2>2. PICK j \in DOMAIN job[t] : job[t][j].op = "write" /\ job[t][j].file = f
      BY <2>1, <1>2 DEF ManagedFirst
    <2>3. StepOK(job[t][j])
      BY DEF Inv, JobsOK
    <2> QED BY <2>2, <2>3 DEF StepOK
  <1>4. leaked' \subseteq Files
    BY <1>1 DEF Inv, Typed
  <1> QED BY <1>1, <1>3, <1>4, DropKeeps

(* What a job records are files.                                           *)
LEMMA UnrecordedAreFiles ==
    ASSUME Inv, NEW t \in PicThreads
    PROVE  Unrecorded(t) \subseteq Files
  <1> SUFFICES ASSUME NEW f \in Unrecorded(t) PROVE f \in Files
    OBVIOUS
  <1>1. PICK k \in DOMAIN job[t] : Records(job[t][k]) /\ f \in job[t][k].files
    BY DEF Unrecorded, ToSet, Records
  <1>2. job[t] \in Seq(Steps)
    BY DEF Inv, Typed
  <1>3. job[t][k] \in Steps
    BY <1>2
  <1> QED BY <1>1, <1>3, StepFields DEF Records

(* A statement fails: the files that no row will name are leaked.          *)
LEMMA StatementFailsKeeps ==
    ASSUME Inv, NEW t \in PicThreads, PicStatementFails(t)
    PROVE  Inv'
  <1>1. /\ job' = [job EXCEPT ![t] = <<>>]
        /\ leaked' = leaked \cup Unrecorded(t)
        /\ UNCHANGED <<up, today, day, url, inside, files, folders, sent, unwritten>>
    BY DEF PicStatementFails, tables
  <1>2. leaked' \subseteq Files
    BY <1>1, UnrecordedAreFiles DEF Inv, Typed
  <1> QED BY <1>1, <1>2, DropKeeps

(* The process ends: so do all jobs.                                       *)
LEMMA CrashKeeps ==
    ASSUME Inv, Crash
    PROVE  Inv'
  <1>1. /\ up' = FALSE
        /\ job' = [t \in PicThreads |-> <<>>]
        /\ leaked' = leaked \cup UNION {Unrecorded(t) : t \in PicThreads}
        /\ UNCHANGED <<today, day, url, inside, files, folders, sent, unwritten>>
    BY DEF Crash, tables
  <1>2. JobsOK'
    BY <1>1 DEF JobsOK, JobOK, Backed, Followed, ManagedFirst, Once
  <1>3. Typed'
    <2>1. UNION {Unrecorded(t) : t \in PicThreads} \subseteq Files
      BY UnrecordedAreFiles
    <2>2. job' \in [PicThreads -> Seq(Steps)]
      BY <1>1
    <2> QED BY <2>1, <2>2, <1>1 DEF Inv, Typed
  <1>4. RowsOK' /\ InsidePicturesKept'
    BY <1>1 DEF Inv, RowsOK, Counted, InsidePicturesKept
  <1>5. FilesAreListed'
    BY <1>1 DEF Inv, FilesAreListed
  <1> QED BY <1>2, <1>3, <1>4, <1>5 DEF Inv

(* A night: the clean-up begins, if none is under way.                     *)
LEMMA NightKeeps ==
    ASSUME Inv, clear_pic
    PROVE  Inv'
  <1> DEFINE w == <<Expired("pass"), Expired("voucher")>>
  <1>1. /\ today' \in 0 .. MaxDay
        /\ UNCHANGED <<up, day, url, inside, files, folders, sent, leaked, unwritten>>
        /\ job' = job \/ (job[Ios] = <<>> /\ job' = [job EXCEPT ![Ios] = w])
    BY PictureAssumption DEF clear_pic, tables, history, Inv, Typed
  <1>2. \A st : StepOK(st)' <=> StepOK(st)
    BY <1>1 DEF StepOK, Counted
  <1>3. CASE job' = job
    BY <1>1, <1>2, <1>3 DEF Inv, Typed, RowsOK, Counted, JobsOK, InsidePicturesKept,
                            FilesAreListed, Unrecorded
  <1>4. CASE job[Ios] = <<>> /\ job' = [job EXCEPT ![Ios] = w]
    <2>1. /\ Ios \in PicThreads /\ job' \in [PicThreads -> Seq(Steps)] /\ w \in Seq(Steps)
          /\ \A k \in DOMAIN w : w[k].op = "expired"
      <3>1. /\ Expired("pass") \in Steps /\ Expired("pass").op = "expired"
            /\ Expired("voucher") \in Steps /\ Expired("voucher").op = "expired"
        BY DEF Expired, Steps, Stores
      <3>2. w \in Seq(Steps) /\ \A k \in DOMAIN w : w[k].op = "expired"
        BY <3>1
      <3> QED BY <3>2, <1>4 DEF PicThreads, Inv, Typed
    <2> HIDE DEF w
    <2>2. \A k \in DOMAIN w :
            StepOK(w[k]) /\ Doomed(w[k]) = {} /\ ~Records(w[k]) /\ w[k].op \notin {"insert_row", "write"}
      BY <2>1 DEF StepOK, Doomed, Records
    <2>3. \A k \in DOMAIN w : \A st : Apart(w[k], st) /\ Apart(st, w[k]) /\ Compatible(w[k], st)
      BY <2>2 DEF Apart, Compatible
    <2>4. JobOK(w, files \cup unwritten)
      BY <2>1, <2>3 DEF JobOK, Backed, Followed, ManagedFirst, Once
    <2>5. sent' \in [Rows -> Nat] /\ \A r \in Rows : sent[r] <= sent'[r]
      BY <1>1 DEF Inv, Typed
    <2>6. JobsOK'
      <3>1. \A k \in DOMAIN w : \A x : x = w[k] => StepOK(x)' /\ Doomed(x) = {}
        BY <2>2, <1>2
      <3>2. PICK m : m = w
        OBVIOUS
      <3>3. \A k \in DOMAIN m : StepOK(m[k])' /\ Doomed(m[k]) = {}
        BY <3>1, <3>2
      <3> QED BY <3>2, <3>3, <2>1, <2>3, <2>4, <2>5, <1>1, <1>4, JobReplaced
    <2>7. Typed' /\ RowsOK' /\ InsidePicturesKept'
      BY <2>1, <1>1 DEF Inv, Typed, RowsOK, Counted, InsidePicturesKept
    <2>8. FilesAreListed'
      <3>1. \A u \in PicThreads : \A f \in Unrecorded(u) : f \in Unrecorded(u)'
        <4>1. \A u \in PicThreads : u # Ios => job'[u] = job[u]
          BY <1>4 DEF Inv, Typed
        <4>2. Unrecorded(Ios) = {}
          BY <1>4 DEF Unrecorded, ToSet
        <4> QED BY <4>1, <4>2 DEF Unrecorded
      <3> QED BY <3>1, <1>1 DEF Inv, FilesAreListed
    <2> QED BY <2>6, <2>7, <2>8 DEF Inv
  <1> QED BY <1>1, <1>3, <1>4
(* What a thread is to write is counted: it is to record it as well.       *)
LEMMA WritesAreCounted ==
    ASSUME Inv, NEW t \in PicThreads, NEW st \in Remaining(t), st.op = "write"
    PROVE  Counted(st.file)
  <1>1. PICK u \in PicThreads : \E i \in DOMAIN job[u] : st = job[u][i]
    BY DEF Remaining
  <1>2. PICK i \in DOMAIN job[u] : st = job[u][i]
    BY <1>1
  <1>3. PICK k \in DOMAIN job[u] : Records(job[u][k]) /\ st.file \in job[u][k].files
    BY <1>2 DEF Inv, JobsOK, JobOK, Followed
  <1>4. StepOK(job[u][k])
    BY DEF Inv, JobsOK
  <1> QED BY <1>3, <1>4 DEF StepOK

(* A thread begins to save pictures that no row, file or step has met yet. *)
LEMMA SavingKeeps ==
    ASSUME Inv, NEW t \in PicThreads, job[t] = <<>>,
           NEW r \in Rows, NEW c \in Nat, sent[r] < c, c <= Copies[r],
           sent' = [sent EXCEPT ![r] = c], day' \in [Rows -> 0 .. MaxDay],
           UNCHANGED <<up, today, url, inside, files, folders, leaked, unwritten>>,
           NEW N \in SUBSET Files,
           \A f \in N : f.row = r /\ f.copy \in (sent[r] + 1) .. c,
           NEW w \in Seq(Steps), job' = [job EXCEPT ![t] = w], JobOK(w, {}),
           \A k \in DOMAIN w :
             /\ w[k].op \in {"manage", "make_folder", "write", "insert_row", "update_url"}
             /\ Records(w[k]) => w[k].row = r /\ w[k].files \subseteq N
             /\ w[k].op = "insert_row" => sent[r] = 0
             /\ w[k].op = "update_url" => \A f, g \in w[k].files : f = g
             /\ w[k].op = "write" => w[k].file \in N
    PROVE  Inv'
  <1>0. Typed /\ RowsOK /\ JobsOK
    BY DEF Inv
  <1>1. /\ sent' \in [Rows -> Nat] /\ \A q \in Rows : sent[q] <= sent'[q]
        /\ sent[r] \in Nat /\ sent'[r] = c
        /\ \A q \in Rows : sent[q] \in Nat /\ (q # r => sent'[q] = sent[q])
    BY <1>0 DEF Typed
  <1>2. \A f \in N : ~Counted(f) /\ Counted(f)'
    BY <1>1 DEF Counted
  <1>3. \A f \in Files : Counted(f) => Counted(f)'
    BY <1>1 DEF Counted, Files
  <1>4. ASSUME NEW k \in DOMAIN w PROVE StepOK(w[k])' /\ Doomed(w[k]) = {}
    <2>1. Doomed(w[k]) = {}
      BY <1>4 DEF Doomed
    <2>2. Records(w[k]) => \A f \in w[k].files : f.row = r /\ Counted(f)' /\ f \notin url[f.row]
      BY <1>0, <1>2, <1>4 DEF RowsOK
    <2>3. w[k].op = "insert_row" => url[r] = {} /\ c > 0 /\ r \notin inside
      <3> SUFFICES ASSUME sent[r] = 0 PROVE url[r] = {} /\ c > 0 /\ r \notin inside
        BY <1>4
      <3>1. \A f \in Files : f.row = r => ~Counted(f)
        BY DEF Counted
      <3> QED BY <3>1, <1>0 DEF RowsOK, Typed
    <2>4. w[k].op = "write" => w[k].file \notin files
      BY <1>0, <1>2, <1>4 DEF RowsOK
    <2> QED BY <2>1, <2>2, <2>3, <2>4, <1>1, <1>4 DEF StepOK, Records
  <1>5. ASSUME NEW k \in DOMAIN w, NEW st \in Remaining(t)
        PROVE  Apart(w[k], st) /\ Apart(st, w[k]) /\ Compatible(w[k], st)
    <2>1. PICK u \in PicThreads : \E i \in DOMAIN job[u] : st = job[u][i]
      BY <1>5 DEF Remaining
    <2>2. StepOK(st) /\ st \in Steps
      BY <2>1, <1>0, <1>5 DEF JobsOK, Remaining
    <2>3. Records(st) => \A f \in st.files : f \notin N
      BY <2>2, <1>2 DEF StepOK
    <2>4. st.op = "write" => st.file \notin N
      BY <1>2, <1>5, WritesAreCounted
    <2>5. \A f \in Doomed(st) : f \notin N /\ Counted(f)
      BY <2>2, <1>2 DEF StepOK
    <2>6. st.op = "insert_row" => sent[st.row] > 0
      BY <2>2 DEF StepOK
    <2>7. Apart(w[k], st) /\ Apart(st, w[k])
      BY <2>3, <2>4, <2>6, <1>5 DEF Apart, Records
    <2>8. w[k].op = "insert_row" => \A f \in Doomed(st) : f.row # w[k].row
      BY <2>5, <1>1, <1>5 DEF Counted, Records
    <2>9. Records(w[k]) => \A f \in Doomed(st) : f \notin w[k].files
      BY <2>5, <1>5
    <2> QED BY <2>7, <2>8, <2>9 DEF Compatible
  <1>6. JobOK(w, files \cup unwritten)
    BY DEF JobOK, Backed
  <1>7. JobsOK'
    BY <1>1, <1>4, <1>5, <1>6, JobReplaced
  <1>8. Typed'
    <2>1. \A q \in Rows : sent'[q] <= Copies[q]
      BY <1>0, <1>1 DEF Typed
    <2>2. job' \in [PicThreads -> Seq(Steps)]
      BY <1>0 DEF Typed
    <2> QED BY <2>1, <2>2, <1>0, <1>1 DEF Typed
  <1>9. RowsOK'
    <2>1. \A q \in Rows : url[q] \subseteq Files
      BY <1>0 DEF Typed
    <2>2. \A q \in inside : q \in Rows /\ sent[q] \in Nat /\ sent'[q] \in Nat /\ sent[q] <= sent'[q]
      BY <1>0, <1>1 DEF Typed, Rows
    <2>3. \A q \in inside : sent'[q] > 0
      BY <2>2, <1>0 DEF RowsOK
    <2>4. files \subseteq Files
      BY <1>0 DEF Typed
    <2> QED BY <2>1, <2>3, <2>4, <1>0, <1>3 DEF RowsOK
  <1>10. InsidePicturesKept'
    BY DEF Inv, InsidePicturesKept
  <1>11. FilesAreListed'
    <2>1. \A u \in PicThreads : \A f \in Unrecorded(u) : f \in Unrecorded(u)'
      <3>1. \A u \in PicThreads : u # t => job'[u] = job[u]
        BY <1>0 DEF Typed
      <3>2. Unrecorded(t) = {}
        BY DEF Unrecorded, ToSet
      <3> QED BY <3>1, <3>2 DEF Unrecorded
    <2> QED BY <2>1 DEF Inv, FilesAreListed
  <1> QED BY <1>7, <1>8, <1>9, <1>10, <1>11 DEF Inv

(* A voucher is submitted, perhaps again.                                  *)
LEMMA SubmitKeeps ==
    ASSUME Inv, NEW t \in Clerks, NEW r \in Vouchers, client_submit_picture(t, r)
    PROVE  Inv'
  <1>0. Typed /\ t \in PicThreads /\ r \in Rows /\ r \notin Passes
    BY PictureAssumption DEF Inv, PicThreads, Rows
  <1>1. PICK f : f = [row |-> r, copy |-> sent[r] + 1, day |-> today]
    OBVIOUS
  <1>2. PICK c : c = sent[r] + 1
    OBVIOUS
  <1>3. /\ sent[r] \in Nat /\ c \in Nat /\ sent[r] < c /\ sent[r] < Copies[r] /\ Copies[r] \in Nat
        /\ f \in Files /\ f.row = r /\ f.copy \in (sent[r] + 1) .. c
        /\ today \in 0 .. MaxDay /\ day \in [Rows -> 0 .. MaxDay]
    BY <1>0, <1>1, <1>2, PictureAssumption DEF Typed, Files, client_submit_picture
  <1>4. c <= Copies[r]
    BY <1>2, <1>3
  <1> DEFINE w == <<Manage("voucher"), MakeFolder(f), Write(f), UpdateURL(f)>>
  <1>5. /\ job[t] = <<>> /\ job' = [job EXCEPT ![t] = w]
        /\ sent' = [sent EXCEPT ![r] = c]
        /\ UNCHANGED <<up, today, url, inside, files, folders, leaked, unwritten>>
    BY <1>1, <1>2 DEF client_submit_picture, history
  <1>6. day' \in [Rows -> 0 .. MaxDay]
    BY <1>0, <1>3 DEF client_submit_picture
  <1>7. /\ Manage("voucher") \in Steps /\ Manage("voucher").op = "manage"
        /\ MakeFolder(f) \in Steps /\ MakeFolder(f).op = "make_folder"
        /\ Write(f) \in Steps /\ Write(f).op = "write" /\ Write(f).file = f
        /\ UpdateURL(f) \in Steps /\ UpdateURL(f).op = "update_url" /\ UpdateURL(f).row = r
        /\ UpdateURL(f).files = {f}
    BY <1>3 DEF Manage, MakeFolder, Write, UpdateURL, Steps, Stores
  <1>8. /\ w \in Seq(Steps) /\ DOMAIN w = 1 .. 4
        /\ w[1].op = "manage" /\ w[2].op = "make_folder"
        /\ w[3].op = "write" /\ w[3].file = f
        /\ w[4].op = "update_url" /\ w[4].row = r /\ w[4].files = {f}
    BY <1>7
  <1> HIDE DEF w
  <1>9. \A k \in DOMAIN w : k \in {1, 2, 3, 4}
    BY <1>8
  <1>10. \A k \in DOMAIN w : Records(w[k]) => k = 4
    BY <1>8, <1>9 DEF Records
  <1>11. JobOK(w, {})
    <2>1. Backed(w, {})
      BY <1>8, <1>9 DEF Backed
    <2>2. Followed(w)
      BY <1>8, <1>9 DEF Followed, Records
    <2>3. ManagedFirst(w)
      BY <1>8, <1>9, <1>10 DEF ManagedFirst
    <2>4. Once(w)
      BY <1>8, <1>9, <1>10 DEF Once, Apart
    <2> QED BY <2>1, <2>2, <2>3, <2>4 DEF JobOK
  <1> DEFINE N == {f}
  <1>12. \A k \in DOMAIN w :
           /\ w[k].op \in {"manage", "make_folder", "write", "insert_row", "update_url"}
           /\ Records(w[k]) => w[k].row = r /\ w[k].files \subseteq N
           /\ w[k].op = "insert_row" => sent[r] = 0
           /\ w[k].op = "update_url" => \A g, h \in w[k].files : g = h
           /\ w[k].op = "write" => w[k].file \in N
    BY <1>8, <1>9 DEF Records
  <1>13. N \in SUBSET Files /\ \A g \in N : g.row = r /\ g.copy \in (sent[r] + 1) .. c
    BY <1>3
  <1> HIDE DEF N
  <1>14. /\ w \in Seq(Steps)
         /\ UNCHANGED <<up, today, url, inside, files, folders, leaked, unwritten>>
    BY <1>5, <1>8
  <1>15. c \in Nat /\ sent[r] < c /\ c <= Copies[r]
    BY <1>3, <1>4
  <1> QED BY <1>0, <1>5, <1>6, <1>11, <1>12, <1>13, <1>14, <1>15, SavingKeeps, Zenon
(* A vehicle passes, and its pictures are saved before its row is written. *)
LEMMA PassKeeps ==
    ASSUME Inv, NEW t \in Cameras, NEW r \in Passes, on_device_data_pictures(t, r)
    PROVE  Inv'
  <1>0. Typed /\ t \in PicThreads /\ r \in Rows
    BY DEF Inv, PicThreads, Rows
  <1> DEFINE c == Copies[r]
  <1>1. PICK f : f = [i \in 1 .. c |-> [row |-> r, copy |-> i, day |-> today]]
    OBVIOUS
  <1>2. c \in Nat /\ c > 0 /\ sent[r] = 0 /\ today \in 0 .. MaxDay /\ day \in [Rows -> 0 .. MaxDay]
    BY <1>0, PictureAssumption DEF Typed, on_device_data_pictures
  <1>3. /\ DOMAIN f = 1 .. c
        /\ \A i \in 1 .. c : /\ f[i] \in Files /\ f[i].row = r /\ f[i].copy = i
                             /\ f[i].copy \in (sent[r] + 1) .. c
    BY <1>0, <1>1, <1>2 DEF Files
  <1>4. \A i, j \in 1 .. c : f[i] = f[j] => i = j
    BY <1>3
  <1> DEFINE N == ToSet(f)
             a == <<Manage("pass"), MakeFolder(f[1])>>
             b == [i \in 1 .. c |-> Write(f[i])]
             e == InsertRow(r, N)
             w == a \o b \o <<e>>
  <1>5. /\ job[t] = <<>> /\ job' = [job EXCEPT ![t] = w]
        /\ sent' = [sent EXCEPT ![r] = c]
        /\ day' \in [Rows -> 0 .. MaxDay]
        /\ UNCHANGED <<up, today, url, inside, files, folders, leaked, unwritten>>
    BY <1>0, <1>1, <1>2 DEF on_device_data_pictures, history
  <1>6. /\ N \in SUBSET Files /\ \A g \in N : g.row = r /\ g.copy \in (sent[r] + 1) .. c
        /\ \A g \in N : \E i \in 1 .. c : g = f[i]
        /\ \A i \in 1 .. c : f[i] \in N
    BY <1>3 DEF ToSet
  <1> HIDE DEF N, c
  <1>7. /\ Manage("pass") \in Steps /\ Manage("pass").op = "manage"
        /\ MakeFolder(f[1]) \in Steps /\ MakeFolder(f[1]).op = "make_folder"
        /\ e \in Steps /\ e.op = "insert_row" /\ e.row = r /\ e.files = N
    BY <1>2, <1>3, <1>6 DEF Manage, MakeFolder, InsertRow, Steps, Stores
  <1>8. \A i \in 1 .. c : Write(f[i]) \in Steps /\ Write(f[i]).op = "write" /\ Write(f[i]).file = f[i]
    BY <1>3 DEF Write, Steps
  <1> HIDE DEF e
  <1>9. /\ a \in Seq(Steps) /\ Len(a) = 2 /\ a[1].op = "manage" /\ a[2].op = "make_folder"
        /\ b \in Seq(Steps) /\ Len(b) = c
        /\ \A i \in 1 .. c : b[i].op = "write" /\ b[i].file = f[i]
        /\ <<e>> \in Seq(Steps) /\ Len(<<e>>) = 1 /\ <<e>>[1] = e
    <2>1. /\ a \in Seq(Steps) /\ Len(a) = 2 /\ a[1].op = "manage" /\ a[2].op = "make_folder"
          /\ <<e>> \in Seq(Steps) /\ Len(<<e>>) = 1 /\ <<e>>[1] = e
      BY <1>7
    <2>2. b \in [1 .. c -> Steps] /\ \A i \in 1 .. c : b[i].op = "write" /\ b[i].file = f[i]
      BY <1>8
    <2>3. b \in Seq(Steps) /\ Len(b) = c
      BY <2>2, <1>2
    <2> QED BY <2>1, <2>2, <2>3
  <1> HIDE DEF a, b
  <1> DEFINE ab == a \o b
  <1>10. /\ ab \in Seq(Steps) /\ Len(ab) = 2 + c
         /\ \A k \in 1 .. 2 + c : ab[k] = IF k <= 2 THEN a[k] ELSE b[k - 2]
    <2>1. a \in Seq(Steps) /\ b \in Seq(Steps)
      BY <1>9
    <2>2. /\ ab \in Seq(Steps) /\ Len(ab) = Len(a) + Len(b)
          /\ \A k \in 1 .. Len(a) + Len(b) : ab[k] = IF k <= Len(a) THEN a[k] ELSE b[k - Len(a)]
      BY <2>1, ConcatProperties
    <2> HIDE DEF ab
    <2> QED BY <2>2, <1>9
  <1> HIDE DEF ab
  <1>11. /\ w \in Seq(Steps) /\ Len(w) = (2 + c) + 1
         /\ \A k \in 1 .. (2 + c) + 1 : w[k] = IF k <= 2 + c THEN ab[k] ELSE <<e>>[k - (2 + c)]
    <2>1. w = ab \o <<e>>
      BY DEF ab
    <2> HIDE DEF w
    <2>2. /\ w \in Seq(Steps) /\ Len(w) = Len(ab) + Len(<<e>>)
          /\ \A k \in 1 .. Len(ab) + Len(<<e>>) :
               w[k] = IF k <= Len(ab) THEN ab[k] ELSE <<e>>[k - Len(ab)]
      <3>1. ab \in Seq(Steps) /\ <<e>> \in Seq(Steps)
        BY <1>9, <1>10
      <3> QED BY <2>1, <3>1, ConcatProperties
    <2> QED BY <2>2, <1>9, <1>10
  <1> HIDE DEF w
  <1>12. /\ DOMAIN w = 1 .. (c + 3)
         /\ w[1].op = "manage" /\ w[2].op = "make_folder"
         /\ \A k \in 3 .. (c + 2) : w[k].op = "write" /\ w[k].file = f[k - 2] /\ k - 2 \in 1 .. c
         /\ w[c + 3] = e
    <2>1. DOMAIN w = 1 .. (c + 3)
      BY <1>2, <1>11
    <2>2. w[1] = a[1] /\ w[2] = a[2]
      BY <1>2, <1>10, <1>11
    <2>3. ASSUME NEW k \in 3 .. (c + 2)
          PROVE  w[k].op = "write" /\ w[k].file = f[k - 2] /\ k - 2 \in 1 .. c
      <3>1. w[k] = b[k - 2] /\ k - 2 \in 1 .. c
        BY <1>2, <1>10, <1>11
      <3> QED BY <3>1, <1>9
    <2>4. w[c + 3] = <<e>>[(c + 3) - (2 + c)] /\ (c + 3) - (2 + c) = 1
      BY <1>2, <1>11
    <2> QED BY <2>1, <2>2, <2>3, <2>4, <1>9
  <1>13. \A k \in DOMAIN w : k = 1 \/ k = 2 \/ k \in 3 .. (c + 2) \/ k = c + 3
    BY <1>2, <1>12
  <1>14. \A k \in DOMAIN w : /\ Records(w[k]) => k = c + 3
                             /\ w[k].op = "insert_row" => k = c + 3
                             /\ w[k].op = "write" => k \in 3 .. (c + 2)
                             /\ w[k].op \in {"manage", "earliest"} => k = 1
    BY <1>7, <1>12, <1>13 DEF Records
  <1>15. \A g \in N : \E j \in 3 .. (c + 2) : w[j].op = "write" /\ w[j].file = g
    <2> SUFFICES ASSUME NEW i \in 1 .. c
                 PROVE  \E j \in 3 .. (c + 2) : w[j].op = "write" /\ w[j].file = f[i]
      BY <1>6
    <2>1. i + 2 \in 3 .. (c + 2) /\ (i + 2) - 2 = i
      BY <1>2
    <2> QED BY <2>1, <1>12
  <1>16. JobOK(w, {})
    <2>1. Backed(w, {})
      <3> SUFFICES ASSUME NEW g \in N
                   PROVE  \E j \in 1 .. ((c + 3) - 1) : w[j].op = "write" /\ w[j].file = g
        BY <1>7, <1>12, <1>14 DEF Backed
      <3>1. 3 .. (c + 2) \subseteq 1 .. ((c + 3) - 1)
        BY <1>2
      <3> QED BY <3>1, <1>15
    <2>2. Followed(w)
      <3> SUFFICES ASSUME NEW k \in DOMAIN w, w[k].op = "write"
                   PROVE  \E l \in DOMAIN w : k < l /\ Records(w[l]) /\ w[k].file \in w[l].files
        BY DEF Followed
      <3>1. k \in 3 .. (c + 2) /\ w[k].file \in N
        BY <1>6, <1>12, <1>14
      <3>2. k < c + 3 /\ c + 3 \in DOMAIN w
        BY <3>1, <1>2, <1>12
      <3> QED BY <3>1, <3>2, <1>7, <1>12 DEF Records
    <2>3. ManagedFirst(w)
      <3>1. 3 .. (c + 2) \subseteq DOMAIN w
        BY <1>2, <1>12
      <3> QED BY <3>1, <1>7, <1>12, <1>14, <1>15 DEF ManagedFirst
    <2>4. Once(w)
      <3> SUFFICES ASSUME NEW k \in DOMAIN w, NEW l \in DOMAIN w, k < l PROVE Apart(w[k], w[l])
        BY DEF Once
      <3>1. k # c + 3
        BY <1>2, <1>12
      <3>2. w[k].op = "write" /\ w[l].op = "write" => w[k].file # w[l].file
        <4> SUFFICES ASSUME w[k].op = "write", w[l].op = "write" PROVE w[k].file # w[l].file
          OBVIOUS
        <4>1. k \in 3 .. (c + 2) /\ l \in 3 .. (c + 2)
          BY <1>14
        <4>2. k - 2 \in 1 .. c /\ l - 2 \in 1 .. c /\ w[k].file = f[k - 2] /\ w[l].file = f[l - 2]
          BY <4>1, <1>12
        <4>3. k - 2 # l - 2
          BY <4>1, <1>2
        <4> QED BY <4>2, <4>3, <1>4
      <3> QED BY <3>1, <3>2, <1>14 DEF Apart
    <2> QED BY <2>1, <2>2, <2>3, <2>4 DEF JobOK
  <1>17. \A k \in DOMAIN w :
           /\ w[k].op \in {"manage", "make_folder", "write", "insert_row", "update_url"}
           /\ Records(w[k]) => w[k].row = r /\ w[k].files \subseteq N
           /\ w[k].op = "insert_row" => sent[r] = 0
           /\ w[k].op = "update_url" => \A g, h \in w[k].files : g = h
           /\ w[k].op = "write" => w[k].file \in N
    <2> SUFFICES ASSUME NEW k \in DOMAIN w
                 PROVE  /\ w[k].op \in {"manage", "make_folder", "write", "insert_row", "update_url"}
                        /\ Records(w[k]) => w[k].row = r /\ w[k].files \subseteq N
                        /\ w[k].op = "insert_row" => sent[r] = 0
                        /\ w[k].op = "update_url" => \A g, h \in w[k].files : g = h
                        /\ w[k].op = "write" => w[k].file \in N
      OBVIOUS
    <2>1. CASE k \in {1, 2}
      BY <2>1, <1>12 DEF Records
    <2>2. CASE k \in 3 .. (c + 2)
      <3>1. w[k].op = "write" /\ w[k].file = f[k - 2] /\ k - 2 \in 1 .. c
        BY <2>2, <1>12
      <3>2. w[k].file \in N
        BY <3>1, <1>6
      <3> QED BY <3>1, <3>2 DEF Records
    <2>3. CASE k = c + 3
      <3>1. w[k] = e
        BY <2>3, <1>12
      <3> QED BY <3>1, <1>2, <1>7 DEF Records
    <2> QED BY <2>1, <2>2, <2>3, <1>13
  <1>18. /\ w \in Seq(Steps) /\ c \in Nat /\ sent[r] < c /\ c <= Copies[r] /\ N \in SUBSET Files
         /\ \A g \in N : g.row = r /\ g.copy \in (sent[r] + 1) .. c
    BY <1>2, <1>6, <1>11 DEF c
  <1>19. day' \in [Rows -> 0 .. MaxDay] /\ sent' = [sent EXCEPT ![r] = c]
    BY <1>5
  <1> QED BY <1>0, <1>5, <1>16, <1>17, <1>18, <1>19, SavingKeeps, Zenon

-----------------------------------------------------------------------------
(* Every step keeps the inductive invariant.                               *)
LEMMA NextOK == Inv /\ [PicNext]_pic_vars => Inv'
  <1> SUFFICES ASSUME Inv, [PicNext]_pic_vars PROVE Inv'
    OBVIOUS
  <1>1. CASE \E t \in Cameras, r \in Passes : on_device_data_pictures(t, r)
    BY <1>1, PassKeeps
  <1>2. CASE \E t \in Clerks, r \in Vouchers : client_submit_picture(t, r)
    BY <1>2, SubmitKeeps
  <1>3. CASE \E r \in Passes : LeavesPark(r)
    BY <1>3, LeavesKeeps
  <1>4. ASSUME NEW t \in PicThreads, PicStep(t) \/ RemoveFails(t) \/ ExistsFails(t) \/ PicStatementFails(t)
        PROVE  Inv'
    <2>1. CASE clear_pic_by_counts(t)
      BY <2>1, RemovalKeeps DEF clear_pic_by_counts
    <2>2. CASE clear_earliest_day_voucher_pic(t)
      BY <2>2, RemovalKeeps DEF clear_earliest_day_voucher_pic
    <2>3. CASE clear_expired_pic(t)
      BY <2>3, RemovalKeeps DEF clear_expired_pic
    <2>4. CASE PictureDirectory(t) \/ WriteFile(t) \/ InsertPassVehicleInfo(t)
                 \/ UpdateVoucherPictureURL(t) \/ picture_storage_manage(t)
      BY <2>4, DirectoryKeeps, WriteKeeps, InsertKeeps, UpdateKeeps, ManageKeeps
    <2>5. CASE clear_earliest_day_vehicle_pic(t) \/ RemoveFile(t) \/ EmptyPicPath(t)
                 \/ RemoveEmptyDirectory(t)
      BY <2>5, EarliestVehicleKeeps, RemoveKeeps, EmptyKeeps, RemoveDirectoryKeeps
    <2>6. CASE RemoveFails(t) \/ ExistsFails(t) \/ PicStatementFails(t)
      BY <2>6, RemoveFailsKeeps, ExistsFailsKeeps, StatementFailsKeeps
    <2> QED BY <1>4, <2>1, <2>2, <2>3, <2>4, <2>5, <2>6 DEF PicStep
  <1>5. CASE clear_pic
    BY <1>5, NightKeeps
  <1>6. CASE Crash
    BY <1>6, CrashKeeps
  <1>7. CASE Restart \/ UNCHANGED pic_vars
    <2>1. /\ up' \in BOOLEAN
          /\ UNCHANGED <<today, day, url, inside, files, folders, sent, job, leaked, unwritten>>
      BY <1>7 DEF Restart, pic_vars, tables, history, Inv, Typed
    <2>2. \A st : StepOK(st)' <=> StepOK(st)
      BY <2>1 DEF StepOK, Counted
    <2> QED BY <2>1, <2>2 DEF Inv, Typed, RowsOK, Counted, JobsOK, InsidePicturesKept,
                              FilesAreListed, Unrecorded
  <1> QED BY <1>1, <1>2, <1>3, <1>4, <1>5, <1>6, <1>7 DEF PicNext

(* The inductive invariant holds in every reachable state.                 *)
LEMMA InvAlways == PicSpec => []Inv
  BY InitOK, NextOK, PTL DEF PicSpec

(* The rows, files, directories and counters keep their types; a row names *)
(* files of its own, a payment at most one voucher.                        *)
THEOREM TypeCorrect == PicSpec => []PicTypeOK
  <1>1. Inv => PicTypeOK
    <2> SUFFICES ASSUME Inv PROVE PicTypeOK
      OBVIOUS
    <2>1. Typed /\ RowsOK
      BY DEF Inv
    <2>2. \A r \in Rows : sent[r] \in 0 .. Copies[r]
      BY <2>1, PictureAssumption DEF Typed
    <2>3. \A r \in Rows : url[r] \subseteq {f \in Files : f.row = r}
      BY <2>1 DEF Typed, RowsOK
    <2>4. ASSUME NEW r \in Vouchers PROVE Cardinality(url[r]) <= 1
      <3>1. CASE url[r] = {}
        BY <3>1, FS_EmptySet
      <3>2. CASE url[r] # {}
        <4>1. PICK f \in url[r] : TRUE
          BY <3>2
        <4>2. url[r] = {f}
          BY <2>1, <2>4, <4>1 DEF RowsOK
        <4>3. Cardinality({f}) = 1
          BY FS_Singleton
        <4> QED BY <4>2, <4>3
      <3> QED BY <3>1, <3>2
    <2> QED BY <2>1, <2>2, <2>3, <2>4 DEF PicTypeOK, Typed
  <1> QED BY <1>1, InvAlways, PTL

(* No clean-up, at night or for want of space, removes a picture of a      *)
(* vehicle that is inside, whatever it has read before.                    *)
THEOREM PicturesKept == PicSpec => []InsidePicturesKept
  <1>1. Inv => InsidePicturesKept
    BY DEF Inv
  <1> QED BY <1>1, InvAlways, PTL

(* Every file on the disk is named by its row, about to be, or leaked.     *)
THEOREM FilesStayListed == PicSpec => []FilesAreListed
  <1>1. Inv => FilesAreListed
    BY DEF Inv
  <1> QED BY <1>1, InvAlways, PTL
=============================================================================
