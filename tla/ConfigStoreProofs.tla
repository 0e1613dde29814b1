-------------------------- MODULE ConfigStoreProofs --------------------------
(***************************************************************************)
(* Proofs about ConfigStore, for every set of dispatchers, accounts and    *)
(* settings, every length of lists and every heap.                         *)
(***************************************************************************)
EXTENDS ConfigStore, SequenceTheorems, TLAPS

-----------------------------------------------------------------------------
(* What n cells of an array say.                                           *)

\* No key occurs twice.
Differ(cells, n) == \A i, j \in 1..n : i # j => cells[i].key # cells[j].key

\* No key occurs twice but the last one, in two equal cells.
Almost(cells, n) ==
  /\ Differ(cells, n - 1)
  /\ \A i, j \in 1..n : cells[i].key = cells[j].key => cells[i] = cells[j]

Named(cells, n) == \A i \in 1..n : cells[i].key \in Accounts

\* The account a stands as v says; of any other v nothing is said.
Shows(cells, n, a, v) ==
  /\ v \in {"in", "off"} =>
       /\ \E i \in 1..n : cells[i].key = a
       /\ \A i \in 1..n : cells[i].key = a => cells[i].disabled = (v = "off")
  /\ v = "out" => \A i \in 1..n : cells[i].key # a

-----------------------------------------------------------------------------
(* The inductive invariant, in three layers.                               *)

Saving == {"save", "apply"}

\* In turn, one operation is under way, and sees what is published except
\* between its change and its publication.
Alone ==
  ~Overlapping =>
    /\ \A v, w \in Writers : pc[v] # "idle" /\ pc[w] # "idle" => v = w
    /\ \A w \in Writers : pc[w] \notin Saving \cup {"idle"} => cfg[w] = published

\* Overlapping operations share one array; nobody ever saves a key twice.
Slices ==
  \A w \in Writers : pc[w] # "idle" =>
    /\ cfg[w].arr # NoArray
    /\ Differ(heap[cfg[w].arr], cfg[w].len) /\ Named(heap[cfg[w].arr], cfg[w].len)
    /\ Overlapping \/ pc[w] \notin Saving =>
         cfg[w].arr = published.arr /\ cfg[w].len = published.len

\* A deletion shifts the published cells before it publishes the shorter
\* list, and its save cannot fail before it has done so.
Shifting(w) ==
  /\ pc[w] \in Saving /\ ~Overlapping
  /\ cfg[w].setting = published.setting /\ ~FirstActive(w)

PublishedSlice ==
  /\ Named(heap[published.arr], published.len)
  /\ Almost(heap[published.arr], published.len)
  /\ Differ(heap[published.arr], published.len) \/ \E w \in Writers : Shifting(w)

Copies ==
  /\ \A c \in order : ~c.disabled /\ c.key \in Accounts /\ (Overlapping => c.key \in Keys(published))
  /\ \A d \in Dispatchers : pc[d] = "running" =>
       mine[d].key \in Accounts /\ (Overlapping => mine[d].key \in Keys(published))

Stored ==
  /\ Len(table.rows) <= MaxLen /\ Differ(table.rows, Len(table.rows)) /\ Named(table.rows, Len(table.rows))
  /\ Len(file.accounts) <= MaxLen
  /\ \A i, j \in 1..Len(file.accounts) : file.accounts[i] = file.accounts[j] => i = j

Shape == TypeOK /\ Alone /\ Slices /\ PublishedSlice /\ Copies /\ Stored

\* Only an admin request past its reading has a task.
TaskPlace == task # NoTask => pc[Admin] \in {"save", "apply", "table", "reorder"}

\* A setting is changed in turn: told to be saved, it is everywhere;
\* under way, it is in the file once that is written, then published.
SettingEverywhere ==
  /\ promised # -1 =>
       /\ published.setting = promised /\ file.setting = promised
       /\ task.setting = -1
       /\ \A w \in Writers : pc[w] # "idle" => cfg[w].setting = promised
  /\ task.setting # -1 =>
       /\ ~Overlapping /\ cfg[Admin].setting = task.setting
       /\ pc[Admin] = "save" => published.setting # task.setting
       /\ pc[Admin] # "save" => file.setting = task.setting

\* Outside a save, the table is what is published unless a save has failed.
TableFollows ==
  (\A w \in Writers : pc[w] \notin {"save", "apply", "table"}) /\ ~unsaved =>
    /\ table.rows = Listing(published, heap)
    /\ ~Overlapping => table.active = published.active

\* What the administrator was told of a is true everywhere, ...
Everywhere(a) ==
  Told(a) =>
    /\ Shows(heap[published.arr], published.len, a, promise[a])
    /\ Shows(table.rows, Len(table.rows), a, promise[a])
    /\ \A w \in Writers : pc[w] # "idle" => Shows(heap[cfg[w].arr], cfg[w].len, a, promise[a])
    /\ promise[a] # "in" => \A c \in order : c.key # a
    /\ \A d \in Dispatchers : pc[d] = "running" /\ mine[d].key = a =>
         promise[a] = (IF mine[d].disabled THEN "off" ELSE "in")

\* ... and what a request about a is to achieve is true of its copy.
OnItsWay(a) ==
  task.account = a =>
    /\ promise[a] = "?"
    /\ Shows(heap[cfg[Admin].arr], cfg[Admin].len, a, task.want)
    /\ pc[Admin] = "reorder" => Shows(table.rows, Len(table.rows), a, task.want)
    /\ \A d \in Dispatchers : pc[d] = "running" => mine[d].key # a

Truth(a) == Everywhere(a) /\ OnItsWay(a)

Truthful == /\ ~Overlapping => tainted = {}
            /\ \A a \in Accounts \ tainted : Truth(a)

-----------------------------------------------------------------------------
(* Cells.                                                                  *)

LEMMA CarryOver ==
  ASSUME NEW cells, NEW other, NEW n \in Nat,
         \A i \in 1..n : other[i].key = cells[i].key
  PROVE  /\ Differ(cells, n) => Differ(other, n)
         /\ Named(cells, n) => Named(other, n)
BY DEF Differ, Named

\* A list without duplicates has, a fortiori, at most one at its end.
LEMMA DifferIsAlmost ==
  ASSUME NEW cells, NEW n \in Nat, Differ(cells, n)
  PROVE  Almost(cells, n)
BY DEF Differ, Almost

LEMMA IndexIs ==
  ASSUME NEW h, NEW a, h.len \in Nat, Almost(heap[h.arr], h.len), a \in Keys(h)
  PROVE  /\ IndexOf(h, a) \in 1..h.len
         /\ heap[h.arr][IndexOf(h, a)].key = a
<1> DEFINE First(i) == heap[h.arr][i].key = a /\ \A j \in 1..(i-1) : heap[h.arr][j].key # a
<1>1. PICK i \in 1..h.len : heap[h.arr][i].key = a
  BY DEF Keys
<1>2. \E k \in 1..h.len : First(k)
  <2>1. CASE \E k \in 1..(h.len - 1) : heap[h.arr][k].key = a
    <3>1. PICK k \in 1..(h.len - 1) : heap[h.arr][k].key = a
      BY <2>1
    <3>2. \A j \in 1..(k-1) : heap[h.arr][j].key # a
      BY <3>1 DEF Almost, Differ
    <3>. QED  BY <3>1, <3>2
  <2>2. CASE ~ \E k \in 1..(h.len - 1) : heap[h.arr][k].key = a
    BY <1>1, <2>2
  <2>. QED  BY <2>1, <2>2
<1>3. IndexOf(h, a) = CHOOSE k \in 1..h.len : First(k)
  BY DEF IndexOf
<1> HIDE DEF First
<1>4. IndexOf(h, a) \in 1..h.len /\ First(IndexOf(h, a))
  BY <1>2, <1>3
<1>. QED  BY <1>4 DEF First

LEMMA ListingIs ==
  ASSUME NEW cells \in [1..MaxLen -> Cell], NEW n \in 0..MaxLen
  PROVE  /\ SubSeq(cells, 1, n) \in Seq(Cell)
         /\ Len(SubSeq(cells, 1, n)) = n
         /\ \A i \in 1..n : SubSeq(cells, 1, n)[i] = cells[i]
<1>1. MaxLen \in Nat
  BY StoreAssumption
<1>2. cells \in Seq(Cell) /\ Len(cells) = MaxLen
  BY <1>1
<1>. QED  BY <1>1, <1>2, SubSeqProperties

LEMMA PadIs ==
  ASSUME NEW s \in Seq(Cell), Len(s) <= MaxLen
  PROVE  /\ Pad(s) \in [1..MaxLen -> Cell]
         /\ \A i \in 1..Len(s) : Pad(s)[i] = s[i]
<1>1. MaxLen \in Nat /\ Len(s) \in Nat /\ \A i \in 1..Len(s) : s[i] \in Cell
  BY StoreAssumption
<1>2. NoCell \in Cell
  BY DEF NoCell, Cell
<1>3. \A i \in 1..MaxLen : (IF i <= Len(s) THEN s[i] ELSE NoCell) \in Cell
  BY <1>1, <1>2
<1>. QED  BY <1>1, <1>3 DEF Pad

\* A sequence is listed by the array it fills.
LEMMA PadLists ==
  ASSUME NEW s \in Seq(Cell), Len(s) <= MaxLen
  PROVE  SubSeq(Pad(s), 1, Len(s)) = s
<1> DEFINE t == SubSeq(Pad(s), 1, Len(s))
<1>1. Len(s) \in 0..MaxLen
  BY StoreAssumption
<1>2. t \in Seq(Cell) /\ Len(t) = Len(s) /\ \A i \in 1..Len(s) : t[i] = Pad(s)[i]
  BY <1>1, PadIs, ListingIs
<1> HIDE DEF t
<1>3. t = s
  BY <1>2, PadIs, SeqEqual
<1>. QED  BY <1>3 DEF t

\* Equal cells say the same of an account.
LEMMA ShowsSame ==
  ASSUME NEW cells, NEW other, NEW n \in Nat, NEW a, NEW v,
         \A i \in 1..n : other[i] = cells[i], Shows(cells, n, a, v)
  PROVE  Shows(other, n, a, v)
BY DEF Shows

\* Of its own account it says what it holds.
LEMMA ShowsItself ==
  ASSUME NEW cells, NEW n \in Nat, NEW k \in 1..n, Differ(cells, n), cells[k].disabled \in BOOLEAN
  PROVE  Shows(cells, n, cells[k].key, IF cells[k].disabled THEN "off" ELSE "in")
BY DEF Shows, Differ

-----------------------------------------------------------------------------
(* The steps that change cells.                                            *)

\* The writer w overwrites its k-th cell by c, under the same key.
Overwrites(w, k, c) ==
  /\ heap[cfg[w].arr][k].key = c.key
  /\ heap' = [heap EXCEPT ![cfg[w].arr][k] = c]

LEMMA OverwriteKeeps ==
  ASSUME TypeOK, NEW w \in Writers, cfg[w].arr # NoArray,
         NEW k \in 1..cfg[w].len, NEW c \in Cell, Overwrites(w, k, c)
  PROVE  /\ heap' \in [Arrays -> [1..MaxLen -> Cell]]
         /\ heap'[cfg[w].arr][k] = c
         /\ \A x \in Arrays : \A i \in 1..MaxLen :
              /\ heap'[x][i].key = heap[x][i].key
              /\ x # cfg[w].arr \/ i # k => heap'[x][i] = heap[x][i]
<1>1. cfg[w].arr \in Arrays /\ k \in 1..MaxLen
  BY StoreAssumption DEF TypeOK, Config
<1>. QED  BY <1>1 DEF Overwrites, TypeOK

\* The two ways of overwriting: all of the cell, or its switch.
LEMMA UpdateOverwrites ==
  ASSUME TypeOK, Slices, NEW w \in Writers, pc[w] # "idle",
         NEW c \in Cell, c.key \in Keys(cfg[w]),
         heap' = [heap EXCEPT ![cfg[w].arr][IndexOf(cfg[w], c.key)] = c]
  PROVE  \E k \in 1..cfg[w].len : Overwrites(w, k, c)
<1>1. cfg[w].len \in Nat /\ Almost(heap[cfg[w].arr], cfg[w].len)
  BY DifferIsAlmost, StoreAssumption DEF TypeOK, Config, Slices
<1>. QED  BY <1>1, IndexIs DEF Overwrites

LEMMA SwitchOverwrites ==
  ASSUME TypeOK, Slices, NEW a \in Accounts, NEW off \in BOOLEAN,
         pc[Admin] # "idle", a \in Keys(cfg[Admin]),
         heap' = [heap EXCEPT ![cfg[Admin].arr][IndexOf(cfg[Admin], a)].disabled = off]
  PROVE  \E k \in 1..cfg[Admin].len : Overwrites(Admin, k, [key |-> a, disabled |-> off])
<1>1. Admin \in Writers /\ MaxLen \in Nat
  BY StoreAssumption DEF Writers
<1>2. cfg[Admin].len \in 0..MaxLen /\ cfg[Admin].arr \in Arrays
  BY <1>1 DEF TypeOK, Config, Slices
<1>3. Almost(heap[cfg[Admin].arr], cfg[Admin].len)
  BY <1>1, <1>2, DifferIsAlmost DEF Slices
<1> DEFINE k == IndexOf(cfg[Admin], a)
<1>4. k \in 1..cfg[Admin].len /\ heap[cfg[Admin].arr][k].key = a
  BY <1>2, <1>3, IndexIs
<1> HIDE DEF k
<1>5. heap[cfg[Admin].arr][k] \in Cell
  <2>1. k \in 1..MaxLen
    BY <1>1, <1>2, <1>4
  <2>2. heap \in [Arrays -> [1..MaxLen -> Cell]]
    BY DEF TypeOK
  <2>. QED  BY <2>1, <2>2, <1>2
<1>6. [heap[cfg[Admin].arr][k] EXCEPT !.disabled = off] = [key |-> a, disabled |-> off]
  BY <1>4, <1>5 DEF Cell
<1>7. heap' = [heap EXCEPT ![cfg[Admin].arr][k] = [key |-> a, disabled |-> off]]
  <2>1. heap' = [heap EXCEPT ![cfg[Admin].arr][k].disabled = off]
    BY DEF k
  <2>2. heap' = [heap EXCEPT ![cfg[Admin].arr] =
                   [heap[cfg[Admin].arr] EXCEPT ![k] = [heap[cfg[Admin].arr][k] EXCEPT !.disabled = off]]]
    BY <2>1, <1>2, <1>4 DEF TypeOK
  <2>. QED  BY <2>2, <1>6
<1>. QED  BY <1>4, <1>7 DEF Overwrites

\* The writer w adds the cell c after its last one, where no other list
\* reaches, in its own array or in a new one.
ExtendsTo(w, n, c, x) ==
  /\ n + 1 <= MaxLen /\ n + 1 <= cap'[x]
  /\ cfg' = [cfg EXCEPT ![w].arr = x, ![w].len = n + 1]
  /\ heap' \in [Arrays -> [1..MaxLen -> Cell]] /\ cap' \in [Arrays -> 0..MaxLen]
  /\ heap'[x][n + 1] = c
  /\ \A i \in 1..n : heap'[x][i] = heap[cfg[w].arr][i]
  /\ \A y \in Referenced : cap'[y] = cap[y]
  /\ \A y \in Referenced : \A i \in 1..MaxLen :
       heap'[y][i] = heap[y][i] \/ (y = cfg[w].arr /\ i = n + 1)

Extends(w, c, x) == ExtendsTo(w, cfg[w].len, c, x)

LEMMA UpsertEffect ==
  ASSUME TypeOK, Slices, NEW w \in Writers, pc[w] # "idle", NEW c \in Cell, Upsert(w, c)
  PROVE  \/ /\ cfg' = cfg /\ cap' = cap /\ c.key \in Keys(cfg[w])
            /\ \E k \in 1..cfg[w].len : Overwrites(w, k, c)
         \/ /\ c.key \notin Keys(cfg[w])
            /\ \E x \in Arrays : Extends(w, c, x)
<1> DEFINE h == cfg[w]
<1>1. MaxLen \in Nat /\ h.len \in 0..MaxLen /\ h.arr \in Arrays /\ h.arr \in Referenced
  BY StoreAssumption DEF TypeOK, Config, Slices, Referenced
<1>2. Referenced \subseteq Arrays
  BY DEF Referenced, TypeOK, Config, Slices
<1>3. CASE /\ c.key \in Keys(h)
           /\ heap' = [heap EXCEPT ![h.arr][IndexOf(h, c.key)] = c]
           /\ cfg' = cfg
           /\ UNCHANGED cap
  BY <1>3, UpdateOverwrites
<1>4. CASE /\ c.key \notin Keys(h) /\ h.len < cap[h.arr]
           /\ heap' = [heap EXCEPT ![h.arr][h.len + 1] = c]
           /\ cfg' = [cfg EXCEPT ![w].len = @ + 1]
           /\ UNCHANGED cap
  <2>1. cap[h.arr] \in 0..MaxLen /\ h.len + 1 \in 1..MaxLen
    BY <1>1, <1>4 DEF TypeOK
  <2>2. cfg' = [cfg EXCEPT ![w].arr = h.arr, ![w].len = h.len + 1]
    BY <1>4 DEF TypeOK, Config
  <2>3. /\ heap' \in [Arrays -> [1..MaxLen -> Cell]] /\ heap'[h.arr][h.len + 1] = c
        /\ \A y \in Arrays : \A i \in 1..MaxLen :
             heap'[y][i] = heap[y][i] \/ (y = h.arr /\ i = h.len + 1)
    BY <1>1, <1>4, <2>1 DEF TypeOK
  <2>4. \A i \in 1..h.len : heap'[h.arr][i] = heap[h.arr][i]
    BY <1>1, <2>1, <2>3
  <2>5. h.len + 1 <= MaxLen /\ h.len + 1 <= cap'[h.arr]
    BY <1>1, <1>4, <2>1
  <2>6. cap' \in [Arrays -> 0..MaxLen] /\ \A y \in Referenced : cap'[y] = cap[y]
    BY <1>4 DEF TypeOK
  <2>7. \A y \in Referenced : \A i \in 1..MaxLen :
           heap'[y][i] = heap[y][i] \/ (y = h.arr /\ i = h.len + 1)
    BY <1>2, <2>3
  <2>8. Extends(w, c, h.arr)
    BY <2>2, <2>3, <2>4, <2>5, <2>6, <2>7 DEF Extends, ExtendsTo
  <2>. QED  BY <1>1, <1>4, <2>8
<1>5. CASE /\ c.key \notin Keys(h) /\ h.len = cap[h.arr] /\ h.len < MaxLen
           /\ \E x \in FreeArrays, m \in (h.len + 1)..MaxLen :
                /\ heap' = [heap EXCEPT ![x] = Pad(Append(Listing(h, heap), c))]
                /\ cap' = [cap EXCEPT ![x] = m]
                /\ cfg' = [cfg EXCEPT ![w].arr = x, ![w].len = @ + 1]
  <2>1. PICK x \in FreeArrays, m \in (h.len + 1)..MaxLen :
          /\ heap' = [heap EXCEPT ![x] = Pad(Append(Listing(h, heap), c))]
          /\ cap' = [cap EXCEPT ![x] = m]
          /\ cfg' = [cfg EXCEPT ![w].arr = x, ![w].len = @ + 1]
    BY <1>5
  <2>2. x \in Arrays /\ x \notin Referenced /\ x # h.arr
    BY <1>1 DEF FreeArrays
  <2> DEFINE s == Listing(h, heap)
             t == Append(s, c)
  <2>3. heap[h.arr] \in [1..MaxLen -> Cell]
    BY <1>1 DEF TypeOK
  <2>4. s \in Seq(Cell) /\ Len(s) = h.len /\ \A i \in 1..h.len : s[i] = heap[h.arr][i]
    BY <1>1, <2>3, ListingIs DEF Listing
  <2> HIDE DEF s
  <2>5. /\ t \in Seq(Cell) /\ Len(t) = h.len + 1 /\ t[h.len + 1] = c
        /\ \A i \in 1..h.len : t[i] = heap[h.arr][i]
    BY <2>4, <1>1
  <2> HIDE DEF t
  <2>6. Len(t) <= MaxLen
    BY <1>1, <1>5, <2>5
  <2>7. Pad(t) \in [1..MaxLen -> Cell] /\ \A i \in 1..(h.len + 1) : Pad(t)[i] = t[i]
    BY <2>5, <2>6, PadIs
  <2>8. heap' = [heap EXCEPT ![x] = Pad(t)]
    BY <2>1 DEF s, t
  <2>9. /\ heap' \in [Arrays -> [1..MaxLen -> Cell]]
        /\ heap'[x] = Pad(t)
        /\ \A y \in Referenced : heap'[y] = heap[y]
    BY <1>2, <2>2, <2>7, <2>8 DEF TypeOK
  <2>10. /\ cap' \in [Arrays -> 0..MaxLen] /\ h.len + 1 <= cap'[x]
         /\ \A y \in Referenced : cap'[y] = cap[y]
    BY <1>1, <1>2, <2>1, <2>2 DEF TypeOK
  <2>11. cfg' = [cfg EXCEPT ![w].arr = x, ![w].len = h.len + 1]
    BY <2>1 DEF TypeOK, Config
  <2>12. heap'[x][h.len + 1] = c /\ \A i \in 1..h.len : heap'[x][i] = heap[h.arr][i]
    BY <1>1, <2>5, <2>7, <2>9
  <2>13. h.len + 1 <= MaxLen
    BY <1>1, <1>5
  <2>14. \A y \in Referenced : \A i \in 1..MaxLen :
            heap'[y][i] = heap[y][i] \/ (y = h.arr /\ i = h.len + 1)
    BY <2>9
  <2>15. Extends(w, c, x)
    BY <2>9, <2>10, <2>11, <2>12, <2>13, <2>14 DEF Extends, ExtendsTo
  <2>. QED  BY <1>5, <2>2, <2>15
<1>. QED  BY <1>3, <1>4, <1>5 DEF Upsert

-----------------------------------------------------------------------------
(* The shape of the state.                                                 *)

HeapType ==
  /\ heap \in [Arrays -> [1..MaxLen -> Cell]]
  /\ cap \in [Arrays -> 0..MaxLen]
  /\ published \in Config /\ published.arr # NoArray /\ published.len <= cap[published.arr]
  /\ pc \in [Writers -> {"idle", "read", "running", "save", "apply", "table", "reorder"}]
  /\ cfg \in [Writers -> Config]
  /\ \A w \in Writers : pc[w] # "idle" => cfg[w].len <= cap[cfg[w].arr]

CopyType ==
  /\ order \subseteq Cell
  /\ file \in [accounts : Seq(Accounts), setting : Settings]
  /\ table \in [rows : Seq(Cell), active : Accounts \cup {NoAccount}]
  /\ mine \in [Writers -> Cell]

GhostType ==
  /\ task \in [account : Accounts \cup {NoAccount}, want : {"in", "off", "out", "?"},
                setting : Settings \cup {-1}]
  /\ promise \in [Accounts -> {"in", "off", "out", "revived", "?"}]
  /\ promised \in Settings \cup {-1}
  /\ tainted \subseteq Accounts
  /\ unsaved \in BOOLEAN
  /\ mode \in Modes

LEMMA TypeParts == TypeOK <=> HeapType /\ CopyType /\ GhostType
BY DEF TypeOK, HeapType, CopyType, GhostType

LEMMA LoadedIs ==
  ASSUME TypeOK, Stored
  PROVE  /\ Loaded \in Seq(Cell) /\ Len(Loaded) <= MaxLen
         /\ Differ(Loaded, Len(Loaded)) /\ Named(Loaded, Len(Loaded))
<1>1. CASE table.rows # <<>>
  BY <1>1 DEF Loaded, TypeOK, Stored
<1>2. CASE table.rows = <<>>
  <2> DEFINE s == file.accounts
  <2>1. Loaded = Rows(s)
    BY <1>2 DEF Loaded
  <2>2. s \in Seq(Accounts) /\ Len(s) <= MaxLen /\ \A i, j \in 1..Len(s) : s[i] = s[j] => i = j
    BY DEF TypeOK, Stored
  <2> HIDE DEF s
  <2>3. Len(s) \in Nat /\ \A i \in 1..Len(s) : s[i] \in Accounts
    BY <2>2
  <2>4. \A i \in 1..Len(s) : Rows(s)[i] = Enabled(s[i])
    BY DEF Rows
  <2>5. \A i \in 1..Len(s) : Rows(s)[i] \in Cell /\ Rows(s)[i].key = s[i]
    <3>1. TAKE i \in 1..Len(s)
    <3>2. s[i] \in Accounts /\ Rows(s)[i] = [key |-> s[i], disabled |-> FALSE]
      BY <2>3, <2>4 DEF Enabled
    <3>. QED  BY <3>2 DEF Cell
  <2>6. Rows(s) \in Seq(Cell) /\ Len(Rows(s)) = Len(s)
    BY <2>3, <2>5 DEF Rows
  <2>. QED  BY <2>1, <2>2, <2>3, <2>5, <2>6 DEF Differ, Named
<1>. QED  BY <1>1, <1>2

\* Every list of a configuration in use has its cells.
LEMMA HeaderIs ==
  ASSUME TypeOK, Slices
  PROVE  /\ published.arr \in Arrays /\ published.len \in 0..MaxLen
         /\ \A w \in Writers : pc[w] # "idle" => cfg[w].arr \in Arrays /\ cfg[w].len \in 0..MaxLen
         /\ \A x \in Arrays, i \in 1..MaxLen : heap[x][i] \in Cell
<1>1. heap \in [Arrays -> [1..MaxLen -> Cell]]
  BY DEF TypeOK
<1>2. \A x \in Arrays, i \in 1..MaxLen : heap[x][i] \in Cell
  BY <1>1
<1>. QED  BY <1>2 DEF TypeOK, Slices, Config

LEMMA EligibleIs ==
  ASSUME TypeOK, NEW h, h.arr \in Arrays, h.len \in 0..MaxLen
  PROVE  \A c \in Eligible(h, heap) :
           c \in Cell /\ ~c.disabled /\ \E i \in 1..h.len : heap[h.arr][i] = c
<1>1. \A i \in 1..h.len : heap[h.arr][i] \in Cell
  BY StoreAssumption DEF TypeOK
<1>. QED  BY <1>1 DEF Eligible

\* The cells a deletion leaves.
Shifted(cells, k, n) == [j \in 1..MaxLen |-> IF j >= k /\ j < n THEN cells[j + 1] ELSE cells[j]]

LEMMA RemoveEffect ==
  ASSUME TypeOK, Slices, NEW a \in Accounts, Remove(a)
  PROVE  /\ pc[Admin] = "read" /\ ~Overlapping
         /\ \E k \in 1..cfg[Admin].len :
              /\ heap[cfg[Admin].arr][k].key = a
              /\ heap' = [heap EXCEPT ![cfg[Admin].arr] = Shifted(heap[cfg[Admin].arr], k, cfg[Admin].len)]
         /\ heap' \in [Arrays -> [1..MaxLen -> Cell]]
         /\ cfg' = [cfg EXCEPT ![Admin].len = @ - 1,
                      ![Admin].active = IF @ = a THEN NoAccount ELSE @]
<1> DEFINE h == cfg[Admin]
<1>1. Admin \in Writers /\ MaxLen \in Nat
  BY StoreAssumption DEF Writers
<1>2. pc[Admin] = "read" /\ ~Overlapping /\ a \in Keys(h)
  BY DEF Remove, Structural, Overlapping
<1>3. h.len \in 0..MaxLen /\ h.arr \in Arrays /\ Almost(heap[h.arr], h.len)
  BY <1>1, <1>2, HeaderIs, DifferIsAlmost DEF Slices
<1> DEFINE k == IndexOf(h, a)
<1>4. k \in 1..h.len /\ heap[h.arr][k].key = a
  BY <1>2, <1>3, IndexIs
<1>5. heap \in [Arrays -> [1..MaxLen -> Cell]]
  BY DEF TypeOK
<1>6. heap' = [heap EXCEPT ![h.arr] = Shifted(heap[h.arr], k, h.len)]
  BY <1>3, <1>5 DEF Remove, Shifted
<1> HIDE DEF k
<1>7. \A j \in 1..MaxLen : j < h.len => j + 1 \in 1..MaxLen
  BY <1>1, <1>3
<1>8. Shifted(heap[h.arr], k, h.len) \in [1..MaxLen -> Cell]
  BY <1>3, <1>5, <1>7 DEF Shifted
<1>9. heap' \in [Arrays -> [1..MaxLen -> Cell]]
  BY <1>3, <1>5, <1>6, <1>8
<1>. QED  BY <1>2, <1>4, <1>6, <1>9 DEF Remove

LEMMA ExtendType ==
  ASSUME TypeOK, Slices, NEW w \in Writers, NEW c, NEW x \in Arrays, Extends(w, c, x),
         pc[w] # "idle", published' = published, pc' = [pc EXCEPT ![w] = "save"]
  PROVE  HeapType'
<1> DEFINE n == cfg[w].len
<1>1. MaxLen \in Nat /\ n \in 0..MaxLen /\ NoArray \notin Arrays
  BY HeaderIs, StoreAssumption
<1>2. /\ n + 1 <= MaxLen /\ n + 1 <= cap'[x]
      /\ cfg' = [cfg EXCEPT ![w].arr = x, ![w].len = n + 1]
      /\ heap' \in [Arrays -> [1..MaxLen -> Cell]] /\ cap' \in [Arrays -> 0..MaxLen]
      /\ \A y \in Referenced : cap'[y] = cap[y]
  BY DEF Extends, ExtendsTo
<1>3. /\ published.arr \in Referenced
      /\ \A v \in Writers : pc[v] # "idle" => cfg[v].arr \in Referenced
  BY DEF Referenced
<1> HIDE DEF n
<1>4. HeapType
  BY TypeParts
<1>5. cfg' \in [Writers -> Config]
  <2>1. n + 1 \in 0..MaxLen /\ cfg \in [Writers -> Config]
    BY <1>1, <1>2, <1>4 DEF HeapType
  <2>. QED  BY <1>2, <2>1 DEF Config
<1>6. \A v \in Writers : pc'[v] # "idle" => cfg'[v].len <= cap'[cfg'[v].arr]
  <2>1. cfg'[w].len = n + 1 /\ cfg'[w].arr = x
    BY <1>2, <1>4 DEF HeapType, Config
  <2>2. ASSUME NEW v \in Writers, v # w, pc'[v] # "idle" PROVE cfg'[v].len <= cap'[cfg'[v].arr]
    <3>1. cfg'[v] = cfg[v] /\ pc[v] # "idle"
      BY <1>2, <1>4, <2>2 DEF HeapType
    <3>. QED  BY <1>2, <1>3, <1>4, <3>1 DEF HeapType
  <2>. QED  BY <1>2, <2>1, <2>2
<1>. QED  BY <1>2, <1>3, <1>4, <1>5, <1>6 DEF HeapType

LEMMA TypeStep ==
  ASSUME Shape, [Next]_vars
  PROVE  TypeOK'
<1>. MaxLen \in Nat /\ Admin \in Writers /\ Dispatchers \subseteq Writers /\ 0 \in Settings
  BY StoreAssumption DEF Writers
<1>. TypeOK /\ HeapType /\ CopyType /\ GhostType
  BY TypeParts DEF Shape
<1>. Slices /\ Copies /\ Stored
  BY DEF Shape
<1>1. CASE Restart
  <2>1. HeapType'
    <3> DEFINE s == Loaded
    <3>1. s \in Seq(Cell) /\ Len(s) <= MaxLen /\ Pad(s) \in [1..MaxLen -> Cell]
      BY LoadedIs, PadIs
    <3>2. <<>> \in Seq(Cell) /\ Len(<<>>) <= MaxLen
      OBVIOUS
    <3>3. Pad(<<>>) \in [1..MaxLen -> Cell]
      BY <3>2, PadIs
    <3>4. PICK c \in Len(s)..MaxLen :
            /\ heap' = [x \in Arrays |-> IF x = published.arr THEN Pad(s) ELSE Pad(<<>>)]
            /\ cap' = [cap EXCEPT ![published.arr] = c]
      BY <1>1 DEF Restart
    <3>5. /\ published' = [published EXCEPT !.len = Len(s), !.setting = file.setting,
                            !.active = IF table.rows # <<>> THEN table.active ELSE NoAccount]
          /\ pc' = [w \in Writers |-> "idle"] /\ cfg' = [w \in Writers |-> Blank]
      BY <1>1 DEF Restart
    <3> HIDE DEF s
    <3>6. Len(s) \in Nat /\ published.arr \in Arrays
      BY <3>1, HeaderIs
    <3>7. heap' \in [Arrays -> [1..MaxLen -> Cell]]
      BY <3>1, <3>3, <3>4
    <3>8. cap' \in [Arrays -> 0..MaxLen] /\ cap'[published.arr] >= Len(s)
      BY <3>1, <3>4, <3>6 DEF HeapType
    <3>9. Len(s) \in 0..MaxLen /\ file.setting \in Settings /\ table.active \in Accounts \cup {NoAccount}
      BY <3>1, <3>6 DEF CopyType
    <3>10. /\ published' \in Config /\ published'.len = Len(s)
           /\ published'.arr = published.arr /\ published.arr # NoArray
      BY <3>5, <3>9 DEF HeapType, Config
    <3>11. Blank \in Config
      BY DEF Blank, Config
    <3>12. cfg' \in [Writers -> Config] /\ \A w \in Writers : pc'[w] = "idle"
      BY <3>5, <3>11
    <3>13. pc' \in [Writers -> {"idle", "read", "running", "save", "apply", "table", "reorder"}]
      BY <3>5
    <3>14. published'.len <= cap'[published'.arr]
      BY <3>8, <3>10
    <3>. QED  BY <3>7, <3>8, <3>10, <3>12, <3>13, <3>14 DEF HeapType
  <2>2. CopyType'
    <3>1. Loaded \in Seq(Cell) /\ \A i \in 1..Len(Loaded) : Loaded[i] \in Cell
      BY LoadedIs, ElementOfSeq
    <3>. QED  BY <1>1, <3>1 DEF Restart, disk, ghost, CopyType, NoCell, Cell
  <2>3. GhostType'
    BY <1>1 DEF Restart, disk, ghost, GhostType, NoTask
  <2>. QED  BY <2>1, <2>2, <2>3 DEF TypeOK, HeapType, CopyType, GhostType
<1>2. ASSUME NEW w \in Writers, Take(w) PROVE TypeOK'
  BY <1>2 DEF Take, Goto, disk, ghost, TypeOK, HeapType, CopyType, GhostType
<1>3. ASSUME NEW w \in Writers, Leave(w) PROVE TypeOK'
  <2>1. HeapType'
    BY <1>3 DEF Leave, Goto, disk, ghost, HeapType, Config, Blank
  <2>2. CopyType'
    BY <1>3 DEF Leave, Goto, disk, ghost, CopyType, NoCell, Cell
  <2>3. GhostType'
    BY <1>3 DEF Leave, Goto, disk, ghost, GhostType, NoTask
  <2>. QED  BY <2>1, <2>2, <2>3 DEF TypeOK, HeapType, CopyType, GhostType
<1>4. ASSUME NEW d \in Dispatchers, NEW cell \in order, PickCandidate(d, cell)
      PROVE  TypeOK'
  <2>1. HeapType'
    BY <1>4 DEF PickCandidate, Hold, Goto, disk, ghost, HeapType, Config, Blank
  <2>2. CopyType'
    BY <1>4 DEF PickCandidate, Hold, Goto, disk, ghost, CopyType, NoCell, Cell
  <2>3. GhostType'
    BY <1>4 DEF PickCandidate, Hold, Goto, disk, ghost, GhostType, Copies
  <2>. QED  BY <2>1, <2>2, <2>3 DEF TypeOK, HeapType, CopyType, GhostType
<1>5. ASSUME NEW d \in Dispatchers, PickActive(d) PROVE TypeOK'
  <2> DEFINE c == heap[cfg[d].arr][IndexOf(cfg[d], cfg[d].active)]
  <2>1. c \in Cell /\ c.key \in Accounts
    <3>1. d \in Writers /\ cfg[d].len \in 0..MaxLen /\ cfg[d].arr \in Arrays
      BY <1>5, HeaderIs DEF PickActive
    <3>2. Almost(heap[cfg[d].arr], cfg[d].len) /\ Named(heap[cfg[d].arr], cfg[d].len)
      BY <1>5, <3>1, DifferIsAlmost DEF PickActive, Slices
    <3>3. IndexOf(cfg[d], cfg[d].active) \in 1..cfg[d].len
      BY <1>5, <3>1, <3>2, IndexIs DEF PickActive
    <3>. QED  BY <3>1, <3>2, <3>3, HeaderIs DEF Named
  <2>2. PickActive(d) <=> pc[d] = "read" /\ cfg[d].active \in Keys(cfg[d]) /\ Hold(d, c)
                          /\ UNCHANGED <<heap, cap, published, order, disk, cfg, task, promise, promised, unsaved, mode>>
    BY DEF PickActive
  <2> HIDE DEF c
  <2>3. HeapType'
    BY <1>5, <2>2 DEF Hold, Goto, HeapType
  <2>4. CopyType'
    BY <1>5, <2>1, <2>2 DEF Hold, disk, CopyType
  <2>5. GhostType'
    BY <1>5, <2>1, <2>2 DEF Hold, GhostType
  <2>. QED  BY <2>3, <2>4, <2>5 DEF TypeOK, HeapType, CopyType, GhostType
<1>6. ASSUME NEW d \in Dispatchers, Record(d) PROVE TypeOK'
  <2>1. HeapType'
    <3>1. pc[d] # "idle" /\ mine[d] \in Cell /\ Upsert(d, mine[d])
      BY <1>6 DEF Record, CopyType
    <3>2. published' = published /\ pc' = [pc EXCEPT ![d] = "save"]
      BY <1>6 DEF Record, Goto
    <3>3. CASE /\ cfg' = cfg /\ cap' = cap
               /\ \E k \in 1..cfg[d].len : Overwrites(d, k, mine[d])
      <4>1. heap' \in [Arrays -> [1..MaxLen -> Cell]]
        BY <3>1, <3>3, OverwriteKeeps DEF Slices
      <4>. QED  BY <3>1, <3>2, <3>3, <4>1 DEF HeapType
    <3>4. CASE \E x \in Arrays : Extends(d, mine[d], x)
      BY <3>1, <3>2, <3>4, ExtendType
    <3>. QED  BY <3>1, <3>3, <3>4, UpsertEffect
  <2>2. CopyType'
    BY <1>6 DEF Record, Goto, disk, ghost, CopyType, NoCell, Cell
  <2>3. GhostType'
    BY <1>6 DEF Record, Goto, disk, ghost, GhostType, NoTask
  <2>. QED  BY <2>1, <2>2, <2>3 DEF TypeOK, HeapType, CopyType, GhostType
<1>7. ASSUME NEW d \in Dispatchers, RecordActive(d) PROVE TypeOK'
  <2>1. HeapType'
    <3>1. PICK k \in 1..cfg[d].len : Overwrites(d, k, mine[d])
      BY <1>7, UpdateOverwrites DEF RecordActive, CopyType
    <3>2. cfg[d].arr # NoArray /\ mine[d] \in Cell
      BY <1>7 DEF RecordActive, Slices, CopyType
    <3>3. heap' \in [Arrays -> [1..MaxLen -> Cell]]
      BY <3>1, <3>2, OverwriteKeeps
    <3>4. mine[d].key \in Accounts \cup {NoAccount}
      BY DEF CopyType, Cell
    <3>5. pc[d] = "running" /\ pc' = [pc EXCEPT ![d] = "save"] /\ cfg' = [cfg EXCEPT ![d].active = mine[d].key]
      BY <1>7 DEF RecordActive, Goto
    <3>6. cap' = cap /\ published' = published
      BY <1>7 DEF RecordActive
    <3>. QED  BY <3>3, <3>4, <3>5, <3>6 DEF HeapType, Config
  <2>2. CopyType'
    BY <1>7 DEF RecordActive, Goto, disk, ghost, CopyType, NoCell, Cell
  <2>3. GhostType'
    BY <1>7 DEF RecordActive, Goto, disk, ghost, GhostType, NoTask
  <2>. QED  BY <2>1, <2>2, <2>3 DEF TypeOK, HeapType, CopyType, GhostType
<1>8. ASSUME NEW d \in Dispatchers, RecordRefreshed(d) PROVE TypeOK'
  <2>1. HeapType'
    <3>1. PICK k \in 1..cfg[d].len : Overwrites(d, k, mine[d])
      BY <1>8, UpdateOverwrites DEF RecordRefreshed, CopyType
    <3>2. cfg[d].arr # NoArray /\ mine[d] \in Cell
      BY <1>8 DEF RecordRefreshed, Slices, CopyType
    <3>3. heap' \in [Arrays -> [1..MaxLen -> Cell]]
      BY <3>1, <3>2, OverwriteKeeps
    <3>4. mine[d].key \in Accounts \cup {NoAccount}
      BY DEF CopyType, Cell
    <3>5. pc[d] = "running" /\ pc' = [pc EXCEPT ![d] = "save"] /\ cfg' = [cfg EXCEPT ![d].active = mine[d].key]
      BY <1>8 DEF RecordRefreshed, Goto
    <3>6. cap' = cap /\ published' = published
      BY <1>8 DEF RecordRefreshed
    <3>. QED  BY <3>3, <3>4, <3>5, <3>6 DEF HeapType, Config
  <2>2. CopyType'
    BY <1>8 DEF RecordRefreshed, Goto, disk, ghost, CopyType, NoCell, Cell
  <2>3. GhostType'
    BY <1>8 DEF RecordRefreshed, Goto, disk, ghost, GhostType, NoTask
  <2>. QED  BY <2>1, <2>2, <2>3 DEF TypeOK, HeapType, CopyType, GhostType
<1>9. ASSUME NEW a \in Accounts, NEW off \in BOOLEAN, Edit(a, off) PROVE TypeOK'
  <2>1. HeapType'
    <3>1. PICK k \in 1..cfg[Admin].len : Overwrites(Admin, k, [key |-> a, disabled |-> off])
      BY <1>9, SwitchOverwrites DEF Edit
    <3>2. cfg[Admin].arr # NoArray /\ [key |-> a, disabled |-> off] \in Cell
      BY <1>9 DEF Edit, Slices, Cell
    <3>3. heap' \in [Arrays -> [1..MaxLen -> Cell]]
      BY <3>1, <3>2, OverwriteKeeps
    <3>4. PICK act \in {cfg[Admin].active, a} :
            cfg' = [cfg EXCEPT ![Admin].active = IF ~off THEN act ELSE IF @ = a THEN NoAccount ELSE @]
      BY <1>9 DEF Edit
    <3>5. cap' = cap /\ published' = published /\ pc' = [pc EXCEPT ![Admin] = "save"] /\ pc[Admin] = "read"
      BY <1>9 DEF Edit, Begin, Goto
    <3>. QED  BY <3>3, <3>4, <3>5 DEF HeapType, Config
  <2>2. CopyType'
    BY <1>9 DEF Edit, Begin, Goto, disk, ghost, CopyType, NoCell, Cell
  <2>3. GhostType'
    BY <1>9 DEF Edit, Begin, Goto, disk, ghost, GhostType, NoTask
  <2>. QED  BY <2>1, <2>2, <2>3 DEF TypeOK, HeapType, CopyType, GhostType
<1>10. ASSUME NEW a \in Accounts, RejectEdit(a) PROVE TypeOK'
  <2>1. HeapType'
    <3>1. PICK k \in 1..cfg[Admin].len : Overwrites(Admin, k, [key |-> a, disabled |-> FALSE])
      BY <1>10, SwitchOverwrites DEF RejectEdit
    <3>2. cfg[Admin].arr # NoArray /\ [key |-> a, disabled |-> FALSE] \in Cell
      BY <1>10 DEF RejectEdit, Slices, Cell
    <3>3. heap' \in [Arrays -> [1..MaxLen -> Cell]]
      BY <3>1, <3>2, OverwriteKeeps
    <3>. QED  BY <1>10, <3>3 DEF RejectEdit, Goto, HeapType, Config, Blank
  <2>2. CopyType'
    BY <1>10 DEF RejectEdit, Goto, disk, ghost, CopyType, NoCell, Cell
  <2>3. GhostType'
    BY <1>10 DEF RejectEdit, Goto, disk, ghost, GhostType, NoTask
  <2>. QED  BY <2>1, <2>2, <2>3 DEF TypeOK, HeapType, CopyType, GhostType
<1>11. ASSUME NEW a \in Accounts, Activate(a) PROVE TypeOK'
  <2>1. HeapType'
    BY <1>11 DEF Activate, Goto, disk, ghost, HeapType, Config, Blank
  <2>2. CopyType'
    BY <1>11 DEF Activate, Goto, disk, ghost, CopyType, NoCell, Cell
  <2>3. GhostType'
    BY <1>11 DEF Activate, Goto, disk, ghost, GhostType, NoTask
  <2>. QED  BY <2>1, <2>2, <2>3 DEF TypeOK, HeapType, CopyType, GhostType
<1>12. ASSUME NEW a \in Accounts, Add(a) PROVE TypeOK'
  <2>1. HeapType'
    <3>1. pc[Admin] # "idle" /\ Enabled(a) \in Cell /\ Upsert(Admin, Enabled(a))
      BY <1>12 DEF Add, CopyType, Enabled, Cell
    <3>2. published' = published /\ pc' = [pc EXCEPT ![Admin] = "save"]
      BY <1>12 DEF Add, Begin, Goto
    <3>3. CASE /\ cfg' = cfg /\ cap' = cap
               /\ \E k \in 1..cfg[Admin].len : Overwrites(Admin, k, Enabled(a))
      <4>1. heap' \in [Arrays -> [1..MaxLen -> Cell]]
        BY <3>1, <3>3, OverwriteKeeps DEF Slices
      <4>. QED  BY <3>1, <3>2, <3>3, <4>1 DEF HeapType
    <3>4. CASE \E x \in Arrays : Extends(Admin, Enabled(a), x)
      BY <3>1, <3>2, <3>4, ExtendType
    <3>. QED  BY <3>1, <3>3, <3>4, UpsertEffect
  <2>2. CopyType'
    BY <1>12 DEF Add, Begin, Goto, disk, ghost, CopyType, NoCell, Cell
  <2>3. GhostType'
    BY <1>12 DEF Add, Begin, Goto, disk, ghost, GhostType, NoTask
  <2>. QED  BY <2>1, <2>2, <2>3 DEF TypeOK, HeapType, CopyType, GhostType
<1>13. ASSUME NEW a \in Accounts, Remove(a) PROVE TypeOK'
  <2>1. HeapType'
    <3>1. /\ pc[Admin] = "read" /\ heap' \in [Arrays -> [1..MaxLen -> Cell]]
          /\ cfg' = [cfg EXCEPT ![Admin].len = @ - 1,
                       ![Admin].active = IF @ = a THEN NoAccount ELSE @]
      BY <1>13, RemoveEffect
    <3>2. cap' = cap /\ published' = published /\ pc' = [pc EXCEPT ![Admin] = "save"]
      BY <1>13 DEF Remove, Begin, Goto
    <3>. PICK k \in 1..cfg[Admin].len : heap[cfg[Admin].arr][k].key = a
      BY <1>13, RemoveEffect
    <3>3. /\ cfg[Admin].len \in 1..MaxLen /\ cfg[Admin].len - 1 \in 0..MaxLen
          /\ cfg[Admin].len <= cap[cfg[Admin].arr] /\ cap[cfg[Admin].arr] \in Nat
      BY <3>1, HeaderIs DEF HeapType
    <3>4. cfg' \in [Writers -> Config]
      BY <3>1, <3>3 DEF HeapType, Config
    <3>5. cfg'[Admin].len <= cap[cfg'[Admin].arr]
      BY <3>1, <3>3 DEF HeapType, Config
    <3>6. \A w \in Writers \ {Admin} : cfg'[w] = cfg[w] /\ pc'[w] = pc[w]
      BY <3>1, <3>2 DEF HeapType
    <3>7. \A w \in Writers : pc'[w] # "idle" => cfg'[w].len <= cap[cfg'[w].arr]
      BY <3>5, <3>6 DEF HeapType
    <3>. QED  BY <3>1, <3>2, <3>4, <3>7 DEF HeapType
  <2>2. CopyType'
    BY <1>13 DEF Remove, Begin, Goto, disk, ghost, CopyType, NoCell, Cell
  <2>3. GhostType'
    BY <1>13 DEF Remove, Begin, Goto, disk, ghost, GhostType, NoTask
  <2>. QED  BY <2>1, <2>2, <2>3 DEF TypeOK, HeapType, CopyType, GhostType
<1>14. ASSUME NEW v \in Settings, ChangeSetting(v) PROVE TypeOK'
  <2>1. HeapType'
    BY <1>14 DEF ChangeSetting, Goto, disk, ghost, HeapType, Config, Blank
  <2>2. CopyType'
    BY <1>14 DEF ChangeSetting, Goto, disk, ghost, CopyType, NoCell, Cell
  <2>3. GhostType'
    BY <1>14 DEF ChangeSetting, Goto, disk, ghost, GhostType, NoTask
  <2>. QED  BY <2>1, <2>2, <2>3 DEF TypeOK, HeapType, CopyType, GhostType
<1>15. ASSUME NEW w \in Writers, SaveFile(w) PROVE TypeOK'
  <2>1. HeapType'
    BY <1>15 DEF SaveFile, Goto, disk, ghost, HeapType, Config, Blank
  <2>2. CopyType'
    <3>1. <<>> \in Seq(Accounts) /\ cfg[w].setting \in Settings
      BY DEF HeapType, Config
    <3>2. file' \in {file, [accounts |-> <<>>, setting |-> cfg[w].setting]}
      BY <1>15 DEF SaveFile
    <3>3. order' = order /\ table' = table /\ mine' = mine
      BY <1>15 DEF SaveFile
    <3>4. file' \in [accounts : Seq(Accounts), setting : Settings]
      <4>1. [accounts |-> <<>>, setting |-> cfg[w].setting] \in [accounts : Seq(Accounts), setting : Settings]
        BY <3>1
      <4>. QED  BY <4>1, <3>2 DEF CopyType
    <3>. QED  BY <3>3, <3>4 DEF CopyType
  <2>3. GhostType'
    BY <1>15 DEF SaveFile, Goto, disk, ghost, GhostType, NoTask
  <2>. QED  BY <2>1, <2>2, <2>3 DEF TypeOK, HeapType, CopyType, GhostType
<1>16. ASSUME NEW w \in Writers, SaveFileFails(w) PROVE TypeOK'
  <2>1. HeapType'
    BY <1>16 DEF SaveFileFails, End, Goto, disk, ghost, HeapType, Config, Blank
  <2>2. CopyType'
    BY <1>16 DEF SaveFileFails, End, Goto, disk, ghost, CopyType, NoCell, Cell
  <2>3. GhostType'
    BY <1>16 DEF SaveFileFails, End, Goto, disk, ghost, GhostType, NoTask
  <2>. QED  BY <2>1, <2>2, <2>3 DEF TypeOK, HeapType, CopyType, GhostType
<1>17. ASSUME NEW w \in Writers, Apply(w) PROVE TypeOK'
  <2>1. HeapType'
    BY <1>17, HeaderIs DEF Apply, Goto, HeapType, Slices
  <2>2. CopyType'
    BY <1>17, HeaderIs, EligibleIs DEF Apply, disk, CopyType
  <2>3. GhostType'
    BY <1>17 DEF Apply, Goto, disk, ghost, GhostType, NoTask
  <2>. QED  BY <2>1, <2>2, <2>3 DEF TypeOK, HeapType, CopyType, GhostType
<1>18. ASSUME NEW w \in Writers, SaveTable(w) PROVE TypeOK'
  <2>1. HeapType'
    BY <1>18 DEF SaveTable, Goto, disk, ghost, HeapType, Config, Blank
  <2>2. CopyType'
    <3>1. Listing(cfg[w], heap) \in Seq(Cell)
      BY <1>18, HeaderIs, ListingIs DEF SaveTable, Listing, HeapType
    <3>. QED  BY <1>18, <3>1 DEF SaveTable, CopyType, HeapType, Config
  <2>3. GhostType'
    BY <1>18 DEF SaveTable, Goto, disk, ghost, GhostType, NoTask
  <2>. QED  BY <2>1, <2>2, <2>3 DEF TypeOK, HeapType, CopyType, GhostType
<1>19. ASSUME NEW w \in Writers, SaveTableFails(w) PROVE TypeOK'
  <2>1. HeapType'
    BY <1>19 DEF SaveTableFails, End, Goto, disk, ghost, HeapType, Config, Blank
  <2>2. CopyType'
    BY <1>19 DEF SaveTableFails, End, Goto, disk, ghost, CopyType, NoCell, Cell
  <2>3. GhostType'
    BY <1>19 DEF SaveTableFails, End, Goto, disk, ghost, GhostType, NoTask
  <2>. QED  BY <2>1, <2>2, <2>3 DEF TypeOK, HeapType, CopyType, GhostType
<1>20. ASSUME NEW w \in Writers, Reorder(w) PROVE TypeOK'
  <2>1. HeapType'
    BY <1>20 DEF Reorder, End, Goto, disk, ghost, HeapType, Config, Blank
  <2>2. CopyType'
    <3>1. order' \subseteq Cell
      BY <1>20, HeaderIs, EligibleIs DEF Reorder
    <3>. QED  BY <1>20, <3>1 DEF Reorder, End, disk, CopyType, NoCell, Cell
  <2>3. GhostType'
    BY <1>20 DEF Reorder, End, Goto, disk, ghost, GhostType, NoTask
  <2>. QED  BY <2>1, <2>2, <2>3 DEF TypeOK, HeapType, CopyType, GhostType
<1>21. CASE UNCHANGED vars
  BY <1>21 DEF vars, disk, ghost, TypeOK, HeapType, CopyType, GhostType
<1>. QED  BY <1>1, <1>2, <1>3, <1>4, <1>5, <1>6, <1>7, <1>8, <1>9, <1>10, <1>11,
          <1>12, <1>13, <1>14, <1>15, <1>16, <1>17, <1>18, <1>19, <1>20, <1>21
     DEF Next, DispatcherStep, AdminStep, SaveStep

-----------------------------------------------------------------------------
(* One operation at a time.                                                *)

LEMMA AloneStep ==
  ASSUME Shape, [Next]_vars
  PROVE  Alone'
<1>. MaxLen \in Nat /\ Admin \in Writers /\ Dispatchers \subseteq Writers
  BY StoreAssumption DEF Writers
<1>. TypeOK /\ Alone /\ Slices /\ PublishedSlice /\ Copies /\ Stored
  BY DEF Shape
<1>. HeapType
  BY TypeParts
<1>1. CASE Restart
  BY <1>1 DEF Restart, Loaded, disk, ghost, Alone, Overlapping, Saving, HeapType
<1>2. ASSUME NEW w \in Writers, Take(w) PROVE Alone'
  BY <1>2 DEF Take, Goto, disk, ghost, Alone, Overlapping, Saving, HeapType
<1>3. ASSUME NEW w \in Writers, Leave(w) PROVE Alone'
  BY <1>3 DEF Leave, Goto, disk, ghost, Alone, Overlapping, Saving, HeapType
<1>4. ASSUME NEW d \in Dispatchers, NEW cell \in order, PickCandidate(d, cell)
      PROVE  Alone'
  BY <1>4 DEF PickCandidate, Hold, Goto, disk, ghost, Alone, Overlapping, Saving,
       HeapType
<1>5. ASSUME NEW d \in Dispatchers, PickActive(d) PROVE Alone'
  BY <1>5 DEF PickActive, Hold, Goto, disk, ghost, Alone, Overlapping, Saving, HeapType
<1>6. ASSUME NEW d \in Dispatchers, Record(d) PROVE Alone'
  BY <1>6 DEF Record, Goto, disk, ghost, Alone, Overlapping, Saving, HeapType
<1>7. ASSUME NEW d \in Dispatchers, RecordActive(d) PROVE Alone'
  BY <1>7 DEF RecordActive, Goto, disk, ghost, Alone, Overlapping, Saving, HeapType
<1>8. ASSUME NEW d \in Dispatchers, RecordRefreshed(d) PROVE Alone'
  BY <1>8 DEF RecordRefreshed, Goto, disk, ghost, Alone, Overlapping, Saving, HeapType
<1>9. ASSUME NEW a \in Accounts, NEW off \in BOOLEAN, Edit(a, off) PROVE Alone'
  BY <1>9 DEF Edit, Begin, Goto, disk, ghost, Alone, Overlapping, Saving, HeapType
<1>10. ASSUME NEW a \in Accounts, RejectEdit(a) PROVE Alone'
  BY <1>10 DEF RejectEdit, Goto, disk, ghost, Alone, Overlapping, Saving, HeapType
<1>11. ASSUME NEW a \in Accounts, Activate(a) PROVE Alone'
  BY <1>11 DEF Activate, Goto, disk, ghost, Alone, Overlapping, Saving, HeapType
<1>12. ASSUME NEW a \in Accounts, Add(a) PROVE Alone'
  BY <1>12 DEF Add, Begin, Goto, disk, ghost, Alone, Overlapping, Saving, HeapType
<1>13. ASSUME NEW a \in Accounts, Remove(a) PROVE Alone'
  BY <1>13 DEF Remove, Begin, Goto, disk, ghost, Alone, Overlapping, Saving, HeapType
<1>14. ASSUME NEW v \in Settings, ChangeSetting(v) PROVE Alone'
  BY <1>14 DEF ChangeSetting, Goto, disk, ghost, Alone, Overlapping, Saving, HeapType
<1>15. ASSUME NEW w \in Writers, SaveFile(w) PROVE Alone'
  BY <1>15 DEF SaveFile, Goto, disk, ghost, Alone, Overlapping, Saving, HeapType
<1>16. ASSUME NEW w \in Writers, SaveFileFails(w) PROVE Alone'
  BY <1>16 DEF SaveFileFails, End, Goto, disk, ghost, Alone, Overlapping, Saving,
       HeapType
<1>17. ASSUME NEW w \in Writers, Apply(w) PROVE Alone'
  BY <1>17 DEF Apply, Goto, disk, ghost, Alone, Overlapping, Saving, HeapType
<1>18. ASSUME NEW w \in Writers, SaveTable(w) PROVE Alone'
  BY <1>18 DEF SaveTable, Goto, disk, ghost, Alone, Overlapping, Saving, HeapType
<1>19. ASSUME NEW w \in Writers, SaveTableFails(w) PROVE Alone'
  BY <1>19 DEF SaveTableFails, End, Goto, disk, ghost, Alone, Overlapping, Saving,
       HeapType
<1>20. ASSUME NEW w \in Writers, Reorder(w) PROVE Alone'
  BY <1>20 DEF Reorder, End, Goto, disk, ghost, Alone, Overlapping, Saving, HeapType
<1>21. CASE UNCHANGED vars
  BY <1>21 DEF vars, disk, ghost, Alone, Overlapping, Saving, HeapType
<1>. QED  BY <1>1, <1>2, <1>3, <1>4, <1>5, <1>6, <1>7, <1>8, <1>9, <1>10, <1>11,
          <1>12, <1>13, <1>14, <1>15, <1>16, <1>17, <1>18, <1>19, <1>20, <1>21
     DEF Next, DispatcherStep, AdminStep, SaveStep

-----------------------------------------------------------------------------
(* The lists in use.                                                       *)

\* An overwritten cell keeps its key.
LEMMA OverwriteSlices ==
  ASSUME TypeOK, NEW w \in Writers, cfg[w].arr # NoArray, NEW k \in 1..cfg[w].len,
         NEW c \in Cell, Overwrites(w, k, c)
  PROVE  \A x \in Arrays, n \in 0..MaxLen :
           /\ Differ(heap[x], n) => Differ(heap'[x], n)
           /\ Named(heap[x], n) => Named(heap'[x], n)
<1>. TAKE x \in Arrays, n \in 0..MaxLen
<1>1. n \in Nat /\ \A i \in 1..n : i \in 1..MaxLen
  BY StoreAssumption
<1>2. \A i \in 1..n : heap'[x][i].key = heap[x][i].key
  BY <1>1, OverwriteKeeps
<1>. QED  BY <1>1, <1>2, CarryOver

\* A new key follows the others.
LEMMA ExtendSlices ==
  ASSUME TypeOK, Slices, NEW w \in Writers, pc[w] # "idle", NEW c \in Cell,
         c.key \in Accounts, c.key \notin Keys(cfg[w]), NEW x \in Arrays, Extends(w, c, x)
  PROVE  Differ(heap'[x], cfg[w].len + 1) /\ Named(heap'[x], cfg[w].len + 1)
<1> DEFINE h == cfg[w]
<1>1. /\ h.len \in Nat /\ Differ(heap[h.arr], h.len) /\ Named(heap[h.arr], h.len)
      /\ \A i \in 1..h.len : heap[h.arr][i].key # c.key
  BY HeaderIs, StoreAssumption DEF Slices, Keys
<1>2. heap'[x][h.len + 1] = c /\ \A i \in 1..h.len : heap'[x][i] = heap[h.arr][i]
  BY DEF Extends, ExtendsTo
<1> HIDE DEF h
<1>3. \A i \in 1..(h.len + 1) : i = h.len + 1 \/ i \in 1..h.len
  BY <1>1
<1>. QED  BY <1>1, <1>2, <1>3 DEF Differ, Named, h

\* After a shift the shorter list has no key twice, the longer one at most
\* its last.
LEMMA ShiftSlices ==
  ASSUME NEW cells \in [1..MaxLen -> Cell], NEW n \in 1..MaxLen, NEW k \in 1..n,
         Differ(cells, n), Named(cells, n)
  PROVE  /\ Differ(Shifted(cells, k, n), n - 1) /\ Named(Shifted(cells, k, n), n)
         /\ Almost(Shifted(cells, k, n), n)
<1> DEFINE s == Shifted(cells, k, n)
<1>1. MaxLen \in Nat
  BY StoreAssumption
<1>2. \A i \in 1..n : s[i] = IF i >= k /\ i < n THEN cells[i + 1] ELSE cells[i]
  BY <1>1 DEF Shifted
<1> HIDE DEF s
<1>3. Differ(s, n - 1) /\ Named(s, n)
  BY <1>1, <1>2 DEF Differ, Named
<1>4. \A i, j \in 1..n : s[i].key = s[j].key => s[i] = s[j]
  BY <1>1, <1>2 DEF Differ
<1>. QED  BY <1>3, <1>4 DEF s, Almost

\* Came(s, n, cells, m): every one of the first n cells of s is one of cells.
Came(s, n, cells, m) == \A i \in 1..n : \E j \in 1..m : s[i] = cells[j]

LEMMA ShiftCells ==
  ASSUME NEW cells \in [1..MaxLen -> Cell], NEW n \in 1..MaxLen, NEW k \in 1..n, Differ(cells, n)
  PROVE  /\ Came(Shifted(cells, k, n), n, cells, n)
         /\ \A j \in (1..n) \ {k} : \E i \in 1..(n - 1) : Shifted(cells, k, n)[i] = cells[j]
         /\ \A i \in 1..(n - 1) : Shifted(cells, k, n)[i].key # cells[k].key
<1> DEFINE s == Shifted(cells, k, n)
<1>1. MaxLen \in Nat
  BY StoreAssumption
<1>2. \A i \in 1..n : s[i] = IF i >= k /\ i < n THEN cells[i + 1] ELSE cells[i]
  BY <1>1 DEF Shifted
<1> HIDE DEF s
<1>3. Came(s, n, cells, n)
  BY <1>1, <1>2 DEF Came
<1>4. ASSUME NEW j \in (1..n) \ {k} PROVE \E i \in 1..(n - 1) : s[i] = cells[j]
  <2>1. CASE j < k
    BY <1>1, <1>2, <2>1
  <2>2. CASE j > k
    <3>1. j - 1 \in 1..(n - 1) /\ s[j - 1] = cells[j]
      BY <1>1, <1>2, <2>2
    <3>. QED  BY <3>1
  <2>. QED  BY <1>1, <2>1, <2>2
<1>5. \A i \in 1..(n - 1) : s[i].key # cells[k].key
  BY <1>1, <1>2 DEF Differ
<1>. QED  BY <1>3, <1>4, <1>5 DEF s

LEMMA SlicesStep ==
  ASSUME Shape, [Next]_vars
  PROVE  Slices'
<1>. MaxLen \in Nat /\ Admin \in Writers /\ Dispatchers \subseteq Writers
  BY StoreAssumption DEF Writers
<1>. TypeOK /\ Alone /\ Slices /\ PublishedSlice /\ Copies /\ Stored
  BY DEF Shape
<1>. HeapType /\ CopyType
  BY TypeParts
<1>1. CASE Restart
  BY <1>1 DEF Restart, Loaded, disk, ghost, Slices, Overlapping, Saving, HeapType,
       Config
<1>2. ASSUME NEW w \in Writers, Take(w) PROVE Slices'
  <2>1. \A v \in Writers : ~Shifting(v)
    BY <1>2 DEF Take, Shifting, Saving, Overlapping
  <2>2. Differ(heap[published.arr], published.len) /\ Named(heap[published.arr], published.len)
    BY <2>1 DEF PublishedSlice
  <2>. QED  BY <1>2, <2>2 DEF Take, Goto, Slices, HeapType, Saving, Overlapping
<1>3. ASSUME NEW w \in Writers, Leave(w) PROVE Slices'
  BY <1>3 DEF Leave, Goto, disk, ghost, Slices, Overlapping, Saving, HeapType, Config
<1>4. ASSUME NEW d \in Dispatchers, NEW cell \in order, PickCandidate(d, cell)
      PROVE  Slices'
  BY <1>4 DEF PickCandidate, Hold, Goto, disk, ghost, Slices, Overlapping, Saving,
       HeapType, Config
<1>5. ASSUME NEW d \in Dispatchers, PickActive(d) PROVE Slices'
  BY <1>5 DEF PickActive, Hold, Goto, disk, ghost, Slices, Overlapping, Saving,
       HeapType, Config
<1>6. ASSUME NEW d \in Dispatchers, Record(d) PROVE Slices'
  <2>1. /\ pc[d] \in {"read", "running"} /\ mine[d] \in Cell /\ mine[d].key \in Accounts
        /\ Upsert(d, mine[d])
    BY <1>6 DEF Record, CopyType, Copies
  <2>2. published' = published /\ mode' = mode /\ pc' = [pc EXCEPT ![d] = "save"]
    BY <1>6 DEF Record, Goto
  <2>3. CASE /\ cfg' = cfg
             /\ \E k \in 1..cfg[d].len : Overwrites(d, k, mine[d])
    <3>1. \A x \in Arrays, n \in 0..MaxLen :
             /\ Differ(heap[x], n) => Differ(heap'[x], n)
             /\ Named(heap[x], n) => Named(heap'[x], n)
      BY <2>1, <2>3, OverwriteSlices DEF Slices
    <3>. QED  BY <2>1, <2>2, <2>3, <3>1, HeaderIs DEF HeapType, Slices, Saving, Overlapping
  <2>4. CASE mine[d].key \notin Keys(cfg[d]) /\ \E x \in Arrays : Extends(d, mine[d], x)
    <3>1. PICK x \in Arrays : Extends(d, mine[d], x)
      BY <2>4
    <3>2. ~Overlapping /\ \A v \in Writers : pc[v] # "idle" => v = d
      BY <1>6, <2>1, <2>4 DEF Record, Copies, Slices, Keys, Alone, Saving
    <3>3. Differ(heap'[x], cfg[d].len + 1) /\ Named(heap'[x], cfg[d].len + 1)
      BY <2>1, <2>4, <3>1, ExtendSlices
    <3>4. cfg' = [cfg EXCEPT ![d].arr = x, ![d].len = cfg[d].len + 1]
      BY <3>1 DEF Extends, ExtendsTo
    <3>5. x # NoArray
      BY StoreAssumption
    <3>. QED  BY <2>1, <2>2, <3>2, <3>3, <3>4, <3>5 DEF HeapType, Config, Slices, Saving,
                   Overlapping
  <2>. QED  BY <2>1, <2>3, <2>4, UpsertEffect
<1>7. ASSUME NEW d \in Dispatchers, RecordActive(d) PROVE Slices'
  <2>1. PICK k \in 1..cfg[d].len : Overwrites(d, k, mine[d])
    BY <1>7, UpdateOverwrites DEF RecordActive, CopyType
  <2>2. cfg[d].arr # NoArray /\ mine[d] \in Cell
    BY <1>7 DEF RecordActive, Slices, Cell, CopyType
  <2>3. \A x \in Arrays, n \in 0..MaxLen :
           /\ Differ(heap[x], n) => Differ(heap'[x], n)
           /\ Named(heap[x], n) => Named(heap'[x], n)
    BY <2>1, <2>2, OverwriteSlices
  <2>4. published' = published /\ mode' = mode /\ pc' = [pc EXCEPT ![d] = "save"] /\ pc[d] # "idle"
    BY <1>7 DEF RecordActive, Goto
  <2>5. \A v \in Writers : pc'[v] # "idle" => cfg'[v].arr = cfg[v].arr /\ cfg'[v].len = cfg[v].len
    BY <1>7 DEF RecordActive, Goto, HeapType, Config
  <2>. QED  BY <2>3, <2>4, <2>5, HeaderIs DEF HeapType, Slices, Saving, Overlapping
<1>8. ASSUME NEW d \in Dispatchers, RecordRefreshed(d) PROVE Slices'
  <2>1. PICK k \in 1..cfg[d].len : Overwrites(d, k, mine[d])
    BY <1>8, UpdateOverwrites DEF RecordRefreshed, CopyType
  <2>2. cfg[d].arr # NoArray /\ mine[d] \in Cell
    BY <1>8 DEF RecordRefreshed, Slices, Cell, CopyType
  <2>3. \A x \in Arrays, n \in 0..MaxLen :
           /\ Differ(heap[x], n) => Differ(heap'[x], n)
           /\ Named(heap[x], n) => Named(heap'[x], n)
    BY <2>1, <2>2, OverwriteSlices
  <2>4. published' = published /\ mode' = mode /\ pc' = [pc EXCEPT ![d] = "save"] /\ pc[d] # "idle"
    BY <1>8 DEF RecordRefreshed, Goto
  <2>5. \A v \in Writers : pc'[v] # "idle" => cfg'[v].arr = cfg[v].arr /\ cfg'[v].len = cfg[v].len
    BY <1>8 DEF RecordRefreshed, Goto, HeapType, Config
  <2>. QED  BY <2>3, <2>4, <2>5, HeaderIs DEF HeapType, Slices, Saving, Overlapping
<1>9. ASSUME NEW a \in Accounts, NEW off \in BOOLEAN, Edit(a, off) PROVE Slices'
  <2>1. PICK k \in 1..cfg[Admin].len : Overwrites(Admin, k, [key |-> a, disabled |-> off])
    BY <1>9, SwitchOverwrites DEF Edit
  <2>2. cfg[Admin].arr # NoArray /\ [key |-> a, disabled |-> off] \in Cell
    BY <1>9 DEF Edit, Slices, Cell
  <2>3. \A x \in Arrays, n \in 0..MaxLen :
           /\ Differ(heap[x], n) => Differ(heap'[x], n)
           /\ Named(heap[x], n) => Named(heap'[x], n)
    BY <2>1, <2>2, OverwriteSlices
  <2>4. published' = published /\ mode' = mode /\ pc' = [pc EXCEPT ![Admin] = "save"] /\ pc[Admin] # "idle"
    BY <1>9 DEF Edit, Begin, Goto
  <2>5. \A v \in Writers : pc'[v] # "idle" => cfg'[v].arr = cfg[v].arr /\ cfg'[v].len = cfg[v].len
    BY <1>9 DEF Edit, Begin, Goto, HeapType, Config
  <2>. QED  BY <2>3, <2>4, <2>5, HeaderIs DEF HeapType, Slices, Saving, Overlapping
<1>10. ASSUME NEW a \in Accounts, RejectEdit(a) PROVE Slices'
  <2>1. PICK k \in 1..cfg[Admin].len : Overwrites(Admin, k, [key |-> a, disabled |-> FALSE])
    BY <1>10, SwitchOverwrites DEF RejectEdit
  <2>2. cfg[Admin].arr # NoArray /\ [key |-> a, disabled |-> FALSE] \in Cell
    BY <1>10 DEF RejectEdit, Slices, Cell
  <2>3. \A x \in Arrays, n \in 0..MaxLen :
           /\ Differ(heap[x], n) => Differ(heap'[x], n)
           /\ Named(heap[x], n) => Named(heap'[x], n)
    BY <2>1, <2>2, OverwriteSlices
  <2>4. published' = published /\ mode' = mode /\ pc' = [pc EXCEPT ![Admin] = "idle"] /\ pc[Admin] # "idle"
    BY <1>10 DEF RejectEdit, Goto
  <2>5. \A v \in Writers : pc'[v] # "idle" => cfg'[v].arr = cfg[v].arr /\ cfg'[v].len = cfg[v].len
    BY <1>10 DEF RejectEdit, Goto, HeapType, Config
  <2>. QED  BY <2>3, <2>4, <2>5, HeaderIs DEF HeapType, Slices, Saving, Overlapping
<1>11. ASSUME NEW a \in Accounts, Activate(a) PROVE Slices'
  BY <1>11 DEF Activate, Goto, disk, ghost, Slices, Overlapping, Saving, HeapType,
       Config
<1>12. ASSUME NEW a \in Accounts, Add(a) PROVE Slices'
  <2>1. /\ pc[Admin] \in {"read", "running"} /\ Enabled(a) \in Cell /\ Enabled(a).key \in Accounts
        /\ Upsert(Admin, Enabled(a))
    BY <1>12 DEF Add, CopyType, Copies, Enabled, Cell
  <2>2. published' = published /\ mode' = mode /\ pc' = [pc EXCEPT ![Admin] = "save"]
    BY <1>12 DEF Add, Begin, Goto
  <2>3. CASE /\ cfg' = cfg
             /\ \E k \in 1..cfg[Admin].len : Overwrites(Admin, k, Enabled(a))
    <3>1. \A x \in Arrays, n \in 0..MaxLen :
             /\ Differ(heap[x], n) => Differ(heap'[x], n)
             /\ Named(heap[x], n) => Named(heap'[x], n)
      BY <2>1, <2>3, OverwriteSlices DEF Slices
    <3>. QED  BY <2>1, <2>2, <2>3, <3>1, HeaderIs DEF HeapType, Slices, Saving, Overlapping
  <2>4. CASE Enabled(a).key \notin Keys(cfg[Admin]) /\ \E x \in Arrays : Extends(Admin, Enabled(a), x)
    <3>1. PICK x \in Arrays : Extends(Admin, Enabled(a), x)
      BY <2>4
    <3>2. ~Overlapping /\ \A v \in Writers : pc[v] # "idle" => v = Admin
      BY <1>12, <2>1, <2>4 DEF Add, Structural, Overlapping, Alone
    <3>3. Differ(heap'[x], cfg[Admin].len + 1) /\ Named(heap'[x], cfg[Admin].len + 1)
      BY <2>1, <2>4, <3>1, ExtendSlices
    <3>4. cfg' = [cfg EXCEPT ![Admin].arr = x, ![Admin].len = cfg[Admin].len + 1]
      BY <3>1 DEF Extends, ExtendsTo
    <3>5. x # NoArray
      BY StoreAssumption
    <3>. QED  BY <2>1, <2>2, <3>2, <3>3, <3>4, <3>5 DEF HeapType, Config, Slices, Saving,
                   Overlapping
  <2>. QED  BY <2>1, <2>3, <2>4, UpsertEffect
<1>13. ASSUME NEW a \in Accounts, Remove(a) PROVE Slices'
  <2> DEFINE h == cfg[Admin]
  <2>1. /\ pc[Admin] = "read" /\ ~Overlapping
        /\ cfg' = [cfg EXCEPT ![Admin].len = @ - 1, ![Admin].active = IF @ = a THEN NoAccount ELSE @]
    BY <1>13, RemoveEffect
  <2>2. PICK k \in 1..h.len : heap' = [heap EXCEPT ![h.arr] = Shifted(heap[h.arr], k, h.len)]
    BY <1>13, RemoveEffect
  <2>3. h.arr \in Arrays /\ h.len \in 1..MaxLen /\ h.arr # NoArray
    BY <2>1, <2>2, HeaderIs DEF Slices
  <2>4. heap'[h.arr] = Shifted(heap[h.arr], k, h.len) /\ heap[h.arr] \in [1..MaxLen -> Cell]
    BY <2>2, <2>3 DEF HeapType
  <2>5. Differ(heap'[h.arr], h.len - 1) /\ Named(heap'[h.arr], h.len)
    BY <2>1, <2>3, <2>4, ShiftSlices DEF Slices
  <2>6. Named(heap'[h.arr], h.len - 1)
    BY <2>3, <2>5 DEF Named
  <2>7. mode' = mode /\ pc' = [pc EXCEPT ![Admin] = "save"]
    BY <1>13 DEF Remove, Begin, Goto
  <2>8. \A v \in Writers : pc'[v] # "idle" => v = Admin
    BY <2>1, <2>7 DEF Alone, HeapType
  <2>9. cfg'[Admin].arr = h.arr /\ cfg'[Admin].len = h.len - 1
    BY <2>1 DEF HeapType, Config
  <2>. QED  BY <2>1, <2>3, <2>5, <2>6, <2>7, <2>8, <2>9 DEF Slices, Saving, Overlapping, HeapType
<1>14. ASSUME NEW v \in Settings, ChangeSetting(v) PROVE Slices'
  BY <1>14 DEF ChangeSetting, Goto, disk, ghost, Slices, Overlapping, Saving, HeapType,
       Config
<1>15. ASSUME NEW w \in Writers, SaveFile(w) PROVE Slices'
  BY <1>15 DEF SaveFile, Goto, disk, ghost, Slices, Overlapping, Saving, HeapType,
       Config
<1>16. ASSUME NEW w \in Writers, SaveFileFails(w) PROVE Slices'
  BY <1>16 DEF SaveFileFails, End, Goto, disk, ghost, Slices, Overlapping, Saving,
       HeapType, Config
<1>17. ASSUME NEW w \in Writers, Apply(w) PROVE Slices'
  <2>1. heap' = heap /\ cfg' = cfg /\ mode' = mode /\ published' = cfg[w]
        /\ pc[w] # "idle" /\ pc' = [pc EXCEPT ![w] = "table"]
    BY <1>17 DEF Apply, Goto
  <2>2. \A v \in Writers : pc'[v] # "idle" => pc[v] # "idle"
    BY <2>1 DEF HeapType
  <2>3. CASE Overlapping
    BY <2>1, <2>2, <2>3 DEF Slices, Overlapping
  <2>4. CASE ~Overlapping
    <3>1. \A v \in Writers : pc'[v] # "idle" => v = w
      BY <2>1, <2>2, <2>4 DEF Alone
    <3>. QED  BY <2>1, <2>2, <3>1 DEF Slices
  <2>. QED  BY <2>3, <2>4
<1>18. ASSUME NEW w \in Writers, SaveTable(w) PROVE Slices'
  BY <1>18 DEF SaveTable, Goto, disk, ghost, Slices, Overlapping, Saving, HeapType,
       Config
<1>19. ASSUME NEW w \in Writers, SaveTableFails(w) PROVE Slices'
  BY <1>19 DEF SaveTableFails, End, Goto, disk, ghost, Slices, Overlapping, Saving,
       HeapType, Config
<1>20. ASSUME NEW w \in Writers, Reorder(w) PROVE Slices'
  BY <1>20 DEF Reorder, End, Goto, disk, ghost, Slices, Overlapping, Saving, HeapType,
       Config
<1>21. CASE UNCHANGED vars
  BY <1>21 DEF vars, disk, ghost, Slices, Overlapping, Saving, HeapType, Config
<1>. QED  BY <1>1, <1>2, <1>3, <1>4, <1>5, <1>6, <1>7, <1>8, <1>9, <1>10, <1>11,
          <1>12, <1>13, <1>14, <1>15, <1>16, <1>17, <1>18, <1>19, <1>20, <1>21
     DEF Next, DispatcherStep, AdminStep, SaveStep

-----------------------------------------------------------------------------
(* The published list.                                                     *)

\* Nobody is in the middle of a deletion while somebody is elsewhere.
LEMMA NobodyShifts ==
  ASSUME Alone, PublishedSlice, NEW w \in Writers, pc[w] \notin Saving \cup {"idle"}
  PROVE  Differ(heap[published.arr], published.len)
BY DEF Alone, PublishedSlice, Shifting, Saving

LEMMA DifferStays ==
  ASSUME TypeOK, Slices, PublishedSlice, NEW w \in Writers, cfg[w].arr # NoArray,
         NEW k \in 1..cfg[w].len, NEW c \in Cell, Overwrites(w, k, c),
         Differ(heap[published.arr], published.len), published' = published
  PROVE  PublishedSlice'
<1>1. published.arr \in Arrays /\ published.len \in 0..MaxLen /\ published.len \in Nat
  BY HeaderIs, StoreAssumption
<1>2. Differ(heap'[published.arr], published.len) /\ Named(heap'[published.arr], published.len)
  BY <1>1, OverwriteSlices DEF PublishedSlice
<1>3. Almost(heap'[published.arr], published.len)
  BY <1>1, <1>2, DifferIsAlmost
<1>. QED  BY <1>2, <1>3 DEF PublishedSlice

LEMMA PublishedStep ==
  ASSUME Shape, [Next]_vars
  PROVE  PublishedSlice'
<1>. MaxLen \in Nat /\ Admin \in Writers /\ Dispatchers \subseteq Writers
  BY StoreAssumption DEF Writers
<1>. TypeOK /\ Alone /\ Slices /\ PublishedSlice /\ Copies /\ Stored
  BY DEF Shape
<1>. HeapType /\ CopyType
  BY TypeParts
<1>1. CASE Restart
  <2> DEFINE s == Loaded
  <2>1. s \in Seq(Cell) /\ Len(s) <= MaxLen /\ Differ(s, Len(s)) /\ Named(s, Len(s))
    BY LoadedIs
  <2>2. heap' = [x \in Arrays |-> IF x = published.arr THEN Pad(s) ELSE Pad(<<>>)]
    BY <1>1 DEF Restart
  <2>3. published'.arr = published.arr /\ published'.len = Len(s)
    BY <1>1 DEF Restart, HeapType, Config
  <2> HIDE DEF s
  <2>4. Len(s) \in Nat /\ \A i \in 1..Len(s) : heap'[published.arr][i] = s[i]
    BY <2>1, <2>2, HeaderIs, PadIs
  <2>5. Differ(heap'[published.arr], Len(s)) /\ Named(heap'[published.arr], Len(s))
    BY <2>1, <2>4, CarryOver
  <2>. QED  BY <2>3, <2>4, <2>5, DifferIsAlmost DEF PublishedSlice
<1>2. ASSUME NEW w \in Writers, Take(w) PROVE PublishedSlice'
  <2>1. Differ(heap[published.arr], published.len)
    BY <1>2 DEF Take, PublishedSlice, Shifting, Saving, Overlapping
  <2>. QED  BY <1>2, <2>1 DEF Take, PublishedSlice
<1>3. ASSUME NEW w \in Writers, Leave(w) PROVE PublishedSlice'
  <2>1. Differ(heap[published.arr], published.len)
    BY <1>3, NobodyShifts DEF Leave, Saving
  <2>. QED  BY <1>3, <2>1 DEF Leave, PublishedSlice
<1>4. ASSUME NEW d \in Dispatchers, NEW cell \in order, PickCandidate(d, cell)
      PROVE  PublishedSlice'
  <2>1. Differ(heap[published.arr], published.len)
    BY <1>4, NobodyShifts DEF PickCandidate, Saving
  <2>. QED  BY <1>4, <2>1 DEF PickCandidate, PublishedSlice
<1>5. ASSUME NEW d \in Dispatchers, PickActive(d) PROVE PublishedSlice'
  <2>1. Differ(heap[published.arr], published.len)
    BY <1>5, NobodyShifts DEF PickActive, Saving
  <2>. QED  BY <1>5, <2>1 DEF PickActive, PublishedSlice
<1>6. ASSUME NEW d \in Dispatchers, Record(d) PROVE PublishedSlice'
  <2>1. /\ pc[d] \in {"read", "running"} /\ mine[d] \in Cell /\ Upsert(d, mine[d])
        /\ published' = published
    BY <1>6 DEF Record, CopyType
  <2>2. Differ(heap[published.arr], published.len)
    BY <2>1, NobodyShifts DEF Saving
  <2>3. CASE \E k \in 1..cfg[d].len : Overwrites(d, k, mine[d])
    BY <2>1, <2>2, <2>3, DifferStays DEF Slices
  <2>4. CASE mine[d].key \notin Keys(cfg[d]) /\ \E x \in Arrays : Extends(d, mine[d], x)
    <3>1. cfg[d].len = published.len /\ cfg[d].arr = published.arr
      BY <2>1 DEF Slices, Saving
    <3>2. published.len \in 0..MaxLen /\ MaxLen \in Nat /\ published.arr \in Referenced
      BY HeaderIs, StoreAssumption DEF Referenced
    <3>3. \A i \in 1..published.len : heap'[published.arr][i] = heap[published.arr][i]
      <4>1. \A i \in 1..published.len : i \in 1..MaxLen /\ i # published.len + 1
        BY <3>2
      <4>. QED  BY <2>4, <3>1, <3>2, <4>1 DEF Extends, ExtendsTo
    <3>4. Named(heap'[published.arr], published.len) /\ Differ(heap'[published.arr], published.len)
      BY <2>2, <3>2, <3>3, CarryOver DEF PublishedSlice
    <3>. QED  BY <2>1, <3>2, <3>4, DifferIsAlmost DEF PublishedSlice
  <2>. QED  BY <2>1, <2>3, <2>4, UpsertEffect
<1>7. ASSUME NEW d \in Dispatchers, RecordActive(d) PROVE PublishedSlice'
  <2>1. PICK k \in 1..cfg[d].len : Overwrites(d, k, mine[d])
    BY <1>7, UpdateOverwrites DEF RecordActive, CopyType
  <2>2. cfg[d].arr # NoArray /\ mine[d] \in Cell
    BY <1>7 DEF RecordActive, Slices, Cell, CopyType
  <2>3. Differ(heap[published.arr], published.len)
    BY <1>7, NobodyShifts DEF RecordActive, Saving
  <2>4. published' = published
    BY <1>7 DEF RecordActive
  <2>. QED  BY <2>1, <2>2, <2>3, <2>4, DifferStays
<1>8. ASSUME NEW d \in Dispatchers, RecordRefreshed(d) PROVE PublishedSlice'
  <2>1. PICK k \in 1..cfg[d].len : Overwrites(d, k, mine[d])
    BY <1>8, UpdateOverwrites DEF RecordRefreshed, CopyType
  <2>2. cfg[d].arr # NoArray /\ mine[d] \in Cell
    BY <1>8 DEF RecordRefreshed, Slices, Cell, CopyType
  <2>3. Differ(heap[published.arr], published.len)
    BY <1>8, NobodyShifts DEF RecordRefreshed, Saving
  <2>4. published' = published
    BY <1>8 DEF RecordRefreshed
  <2>. QED  BY <2>1, <2>2, <2>3, <2>4, DifferStays
<1>9. ASSUME NEW a \in Accounts, NEW off \in BOOLEAN, Edit(a, off)
      PROVE  PublishedSlice'
  <2>1. PICK k \in 1..cfg[Admin].len : Overwrites(Admin, k, [key |-> a, disabled |-> off])
    BY <1>9, SwitchOverwrites DEF Edit
  <2>2. cfg[Admin].arr # NoArray /\ [key |-> a, disabled |-> off] \in Cell
    BY <1>9 DEF Edit, Slices, Cell
  <2>3. Differ(heap[published.arr], published.len)
    BY <1>9, NobodyShifts DEF Edit, Saving
  <2>4. published' = published
    BY <1>9 DEF Edit
  <2>. QED  BY <2>1, <2>2, <2>3, <2>4, DifferStays
<1>10. ASSUME NEW a \in Accounts, RejectEdit(a) PROVE PublishedSlice'
  <2>1. PICK k \in 1..cfg[Admin].len : Overwrites(Admin, k, [key |-> a, disabled |-> FALSE])
    BY <1>10, SwitchOverwrites DEF RejectEdit
  <2>2. cfg[Admin].arr # NoArray /\ [key |-> a, disabled |-> FALSE] \in Cell
    BY <1>10 DEF RejectEdit, Slices, Cell
  <2>3. Differ(heap[published.arr], published.len)
    BY <1>10, NobodyShifts DEF RejectEdit, Saving
  <2>4. published' = published
    BY <1>10 DEF RejectEdit
  <2>. QED  BY <2>1, <2>2, <2>3, <2>4, DifferStays
<1>11. ASSUME NEW a \in Accounts, Activate(a) PROVE PublishedSlice'
  <2>1. Differ(heap[published.arr], published.len)
    BY <1>11, NobodyShifts DEF Activate, Saving
  <2>. QED  BY <1>11, <2>1 DEF Activate, PublishedSlice
<1>12. ASSUME NEW a \in Accounts, Add(a) PROVE PublishedSlice'
  <2>1. /\ pc[Admin] \in {"read", "running"} /\ Enabled(a) \in Cell /\ Upsert(Admin, Enabled(a))
        /\ published' = published
    BY <1>12 DEF Add, CopyType, Enabled, Cell
  <2>2. Differ(heap[published.arr], published.len)
    BY <2>1, NobodyShifts DEF Saving
  <2>3. CASE \E k \in 1..cfg[Admin].len : Overwrites(Admin, k, Enabled(a))
    BY <2>1, <2>2, <2>3, DifferStays DEF Slices
  <2>4. CASE Enabled(a).key \notin Keys(cfg[Admin]) /\ \E x \in Arrays : Extends(Admin, Enabled(a), x)
    <3>1. cfg[Admin].len = published.len /\ cfg[Admin].arr = published.arr
      BY <2>1 DEF Slices, Saving
    <3>2. published.len \in 0..MaxLen /\ MaxLen \in Nat /\ published.arr \in Referenced
      BY HeaderIs, StoreAssumption DEF Referenced
    <3>3. \A i \in 1..published.len : heap'[published.arr][i] = heap[published.arr][i]
      <4>1. \A i \in 1..published.len : i \in 1..MaxLen /\ i # published.len + 1
        BY <3>2
      <4>. QED  BY <2>4, <3>1, <3>2, <4>1 DEF Extends, ExtendsTo
    <3>4. Named(heap'[published.arr], published.len) /\ Differ(heap'[published.arr], published.len)
      BY <2>2, <3>2, <3>3, CarryOver DEF PublishedSlice
    <3>. QED  BY <2>1, <3>2, <3>4, DifferIsAlmost DEF PublishedSlice
  <2>. QED  BY <2>1, <2>3, <2>4, UpsertEffect
<1>13. ASSUME NEW a \in Accounts, Remove(a) PROVE PublishedSlice'
  <2> DEFINE h == cfg[Admin]
  <2>1. /\ pc[Admin] = "read" /\ ~Overlapping
        /\ cfg' = [cfg EXCEPT ![Admin].len = @ - 1, ![Admin].active = IF @ = a THEN NoAccount ELSE @]
    BY <1>13, RemoveEffect
  <2>2. PICK k \in 1..h.len : heap' = [heap EXCEPT ![h.arr] = Shifted(heap[h.arr], k, h.len)]
    BY <1>13, RemoveEffect
  <2>3. h.arr \in Arrays /\ h.len \in 1..MaxLen /\ h = published
    BY <2>1, <2>2, HeaderIs DEF Alone, Saving
  <2>4. heap'[h.arr] = Shifted(heap[h.arr], k, h.len) /\ heap[h.arr] \in [1..MaxLen -> Cell]
    BY <2>2, <2>3 DEF HeapType
  <2>5. Almost(heap'[h.arr], h.len) /\ Named(heap'[h.arr], h.len)
    BY <2>1, <2>3, <2>4, ShiftSlices DEF Slices
  <2>6. mode' = mode /\ pc' = [pc EXCEPT ![Admin] = "save"] /\ published' = published
    BY <1>13 DEF Remove, Begin, Goto
  <2>7. cfg'[Admin].setting = published.setting /\ cfg'[Admin].active \in {published.active, NoAccount}
    BY <2>1, <2>3 DEF HeapType, Config
  <2>8. Shifting(Admin)'
    BY <2>1, <2>6, <2>7 DEF Shifting, Saving, FirstActive, Overlapping, HeapType
  <2>. QED  BY <2>3, <2>5, <2>6, <2>8 DEF PublishedSlice
<1>14. ASSUME NEW v \in Settings, ChangeSetting(v) PROVE PublishedSlice'
  <2>1. Differ(heap[published.arr], published.len)
    BY <1>14, NobodyShifts DEF ChangeSetting, Saving
  <2>. QED  BY <1>14, <2>1 DEF ChangeSetting, PublishedSlice
<1>15. ASSUME NEW w \in Writers, SaveFile(w) PROVE PublishedSlice'
  <2>1. ASSUME NEW v \in Writers, Shifting(v) PROVE Shifting(v)'
    BY <1>15, <2>1 DEF SaveFile, Goto, Shifting, Saving, FirstActive, Overlapping, HeapType
  <2>. QED  BY <1>15, <2>1 DEF SaveFile, PublishedSlice
<1>16. ASSUME NEW w \in Writers, SaveFileFails(w) PROVE PublishedSlice'
  <2>1. Differ(heap[published.arr], published.len)
    BY <1>16 DEF SaveFileFails, PublishedSlice, Shifting, Alone, Saving
  <2>. QED  BY <1>16, <2>1 DEF SaveFileFails, PublishedSlice
<1>17. ASSUME NEW w \in Writers, Apply(w) PROVE PublishedSlice'
  <2>1. cfg[w].len \in Nat
    BY <1>17, HeaderIs, StoreAssumption DEF Apply
  <2>. QED  BY <1>17, <2>1, DifferIsAlmost DEF Apply, Slices, PublishedSlice
<1>18. ASSUME NEW w \in Writers, SaveTable(w) PROVE PublishedSlice'
  <2>1. Differ(heap[published.arr], published.len)
    BY <1>18, NobodyShifts DEF SaveTable, Saving
  <2>. QED  BY <1>18, <2>1 DEF SaveTable, PublishedSlice
<1>19. ASSUME NEW w \in Writers, SaveTableFails(w) PROVE PublishedSlice'
  <2>1. Differ(heap[published.arr], published.len)
    BY <1>19, NobodyShifts DEF SaveTableFails, Saving
  <2>. QED  BY <1>19, <2>1 DEF SaveTableFails, PublishedSlice
<1>20. ASSUME NEW w \in Writers, Reorder(w) PROVE PublishedSlice'
  <2>1. Differ(heap[published.arr], published.len)
    BY <1>20, NobodyShifts DEF Reorder, Saving
  <2>. QED  BY <1>20, <2>1 DEF Reorder, PublishedSlice
<1>21. CASE UNCHANGED vars
  BY <1>21 DEF vars, disk, ghost, PublishedSlice, Shifting, Overlapping, Saving,
       FirstActive
<1>. QED  BY <1>1, <1>2, <1>3, <1>4, <1>5, <1>6, <1>7, <1>8, <1>9, <1>10, <1>11,
          <1>12, <1>13, <1>14, <1>15, <1>16, <1>17, <1>18, <1>19, <1>20, <1>21
     DEF Next, DispatcherStep, AdminStep, SaveStep

-----------------------------------------------------------------------------
(* What is remembered elsewhere.                                           *)

\* The keys of overlapping operations are those of the published list, and
\* an overwritten cell keeps its key.
LEMMA KeysStay ==
  ASSUME TypeOK, Slices, NEW w \in Writers, cfg[w].arr # NoArray, NEW k \in 1..cfg[w].len,
         NEW c \in Cell, Overwrites(w, k, c), published' = published
  PROVE  Keys(published)' = Keys(published)
<1>1. /\ published.arr \in Arrays /\ published.len \in 0..MaxLen
      /\ \A i \in 1..published.len : i \in 1..MaxLen
  BY HeaderIs, StoreAssumption
<1>2. \A i \in 1..published.len : heap'[published.arr][i].key = heap[published.arr][i].key
  BY <1>1, OverwriteKeeps
<1>. QED  BY <1>2 DEF Keys

LEMMA SameSliceKeys ==
  ASSUME NEW g, NEW h, g.arr = h.arr, g.len = h.len
  PROVE  Keys(g) = Keys(h)
BY DEF Keys

LEMMA EligibleNamed ==
  ASSUME TypeOK, NEW h, h.arr \in Arrays, h.len \in 0..MaxLen, Named(heap[h.arr], h.len)
  PROVE  \A c \in Eligible(h, heap) : ~c.disabled /\ c.key \in Accounts /\ c.key \in Keys(h)
BY EligibleIs DEF Named, Keys

LEMMA CopiesStep ==
  ASSUME Shape, [Next]_vars
  PROVE  Copies'
<1>. MaxLen \in Nat /\ Admin \in Writers /\ Dispatchers \subseteq Writers
  BY StoreAssumption DEF Writers
<1>. TypeOK /\ Alone /\ Slices /\ PublishedSlice /\ Copies /\ Stored
  BY DEF Shape
<1>. HeapType /\ CopyType
  BY TypeParts
<1>1. CASE Restart
  <2> DEFINE s == Loaded
  <2>1. s \in Seq(Cell) /\ Len(s) <= MaxLen /\ Named(s, Len(s))
    BY LoadedIs
  <2>2. /\ heap' = [x \in Arrays |-> IF x = published.arr THEN Pad(s) ELSE Pad(<<>>)]
        /\ order' = {s[i] : i \in {j \in 1..Len(s) : ~s[j].disabled}}
        /\ pc' = [w \in Writers |-> "idle"]
    BY <1>1 DEF Restart
  <2>3. published'.arr = published.arr /\ published'.len = Len(s)
    BY <1>1 DEF Restart, HeapType, Config
  <2> HIDE DEF s
  <2>4. Len(s) \in Nat /\ \A i \in 1..Len(s) : heap'[published.arr][i] = s[i]
    BY <2>1, <2>2, HeaderIs, PadIs
  <2>5. \A c \in order' : ~c.disabled /\ c.key \in Accounts /\ c.key \in Keys(published)'
    BY <2>1, <2>2, <2>3, <2>4 DEF Named, Keys
  <2>. QED  BY <2>2, <2>5 DEF Copies
<1>2. ASSUME NEW w \in Writers, Take(w) PROVE Copies'
  BY <1>2 DEF Take, Goto, disk, ghost, Copies, Overlapping, Keys, HeapType, CopyType
<1>3. ASSUME NEW w \in Writers, Leave(w) PROVE Copies'
  BY <1>3 DEF Leave, Goto, disk, ghost, Copies, Overlapping, Keys, HeapType, CopyType
<1>4. ASSUME NEW d \in Dispatchers, NEW cell \in order, PickCandidate(d, cell)
      PROVE  Copies'
  BY <1>4 DEF PickCandidate, Hold, Goto, disk, ghost, Copies, Overlapping, Keys,
       HeapType, CopyType
<1>5. ASSUME NEW d \in Dispatchers, PickActive(d) PROVE Copies'
  <2> DEFINE c == heap[cfg[d].arr][IndexOf(cfg[d], cfg[d].active)]
  <2>1. d \in Writers /\ pc[d] = "read" /\ cfg[d].len \in 0..MaxLen /\ cfg[d].arr \in Arrays
    BY <1>5, HeaderIs DEF PickActive
  <2>2. Almost(heap[cfg[d].arr], cfg[d].len)
    BY <2>1, DifferIsAlmost DEF Slices
  <2>3. c.key \in Keys(cfg[d]) /\ c.key = cfg[d].active
    BY <1>5, <2>1, <2>2, IndexIs DEF PickActive
  <2>4. c.key \in Accounts /\ c.key \in Keys(published)
    BY <2>1, <2>3, SameSliceKeys DEF Keys, Named, Slices, Saving
  <2>5. mine' = [mine EXCEPT ![d] = c] /\ pc' = [pc EXCEPT ![d] = "running"]
        /\ order' = order /\ mode' = mode /\ heap' = heap /\ published' = published
    BY <1>5 DEF PickActive, Hold, Goto
  <2> HIDE DEF c
  <2>. QED  BY <2>4, <2>5 DEF HeapType, CopyType, Copies, Overlapping, Keys
<1>6. ASSUME NEW d \in Dispatchers, Record(d) PROVE Copies'
  <2>1. pc[d] = "running" /\ mine[d] \in Cell /\ Upsert(d, mine[d]) /\ published' = published
        /\ order' = order /\ mine' = mine /\ mode' = mode /\ pc' = [pc EXCEPT ![d] = "save"]
    BY <1>6 DEF Record, CopyType, Goto
  <2>2. CASE \E k \in 1..cfg[d].len : Overwrites(d, k, mine[d])
    <3>1. Keys(published)' = Keys(published)
      BY <2>1, <2>2, KeysStay DEF Slices
    <3>. QED  BY <2>1, <3>1 DEF HeapType, Copies, Overlapping
  <2>3. CASE mine[d].key \notin Keys(cfg[d])
    <3>1. ~Overlapping
      BY <2>1, <2>3, SameSliceKeys DEF Copies, Slices, Saving
    <3>. QED  BY <2>1, <3>1 DEF HeapType, Copies, Overlapping
  <2>. QED  BY <2>1, <2>2, <2>3, UpsertEffect
<1>7. ASSUME NEW d \in Dispatchers, RecordActive(d) PROVE Copies'
  <2>1. PICK k \in 1..cfg[d].len : Overwrites(d, k, mine[d])
    BY <1>7, UpdateOverwrites DEF RecordActive, CopyType
  <2>2. cfg[d].arr # NoArray /\ mine[d] \in Cell /\ published' = published
    BY <1>7 DEF RecordActive, Slices, Cell, CopyType
  <2>3. Keys(published)' = Keys(published)
    BY <2>1, <2>2, KeysStay
  <2>. QED  BY <1>7, <2>3 DEF RecordActive, Goto, Begin, HeapType, Copies, Overlapping
<1>8. ASSUME NEW d \in Dispatchers, RecordRefreshed(d) PROVE Copies'
  <2>1. PICK k \in 1..cfg[d].len : Overwrites(d, k, mine[d])
    BY <1>8, UpdateOverwrites DEF RecordRefreshed, CopyType
  <2>2. cfg[d].arr # NoArray /\ mine[d] \in Cell /\ published' = published
    BY <1>8 DEF RecordRefreshed, Slices, Cell, CopyType
  <2>3. Keys(published)' = Keys(published)
    BY <2>1, <2>2, KeysStay
  <2>. QED  BY <1>8, <2>3 DEF RecordRefreshed, Goto, Begin, HeapType, Copies, Overlapping
<1>9. ASSUME NEW a \in Accounts, NEW off \in BOOLEAN, Edit(a, off) PROVE Copies'
  <2>1. PICK k \in 1..cfg[Admin].len : Overwrites(Admin, k, [key |-> a, disabled |-> off])
    BY <1>9, SwitchOverwrites DEF Edit
  <2>2. cfg[Admin].arr # NoArray /\ [key |-> a, disabled |-> off] \in Cell /\ published' = published
    BY <1>9 DEF Edit, Slices, Cell
  <2>3. Keys(published)' = Keys(published)
    BY <2>1, <2>2, KeysStay
  <2>. QED  BY <1>9, <2>3 DEF Edit, Goto, Begin, HeapType, Copies, Overlapping
<1>10. ASSUME NEW a \in Accounts, RejectEdit(a) PROVE Copies'
  <2>1. PICK k \in 1..cfg[Admin].len : Overwrites(Admin, k, [key |-> a, disabled |-> FALSE])
    BY <1>10, SwitchOverwrites DEF RejectEdit
  <2>2. cfg[Admin].arr # NoArray /\ [key |-> a, disabled |-> FALSE] \in Cell /\ published' = published
    BY <1>10 DEF RejectEdit, Slices, Cell
  <2>3. Keys(published)' = Keys(published)
    BY <2>1, <2>2, KeysStay
  <2>. QED  BY <1>10, <2>3 DEF RejectEdit, Goto, Begin, HeapType, Copies, Overlapping
<1>11. ASSUME NEW a \in Accounts, Activate(a) PROVE Copies'
  BY <1>11 DEF Activate, Goto, disk, ghost, Copies, Overlapping, Keys, HeapType,
       CopyType
<1>12. ASSUME NEW a \in Accounts, Add(a) PROVE Copies'
  BY <1>12 DEF Add, Structural, Begin, Goto, HeapType, Copies, Overlapping
<1>13. ASSUME NEW a \in Accounts, Remove(a) PROVE Copies'
  BY <1>13 DEF Remove, Structural, Begin, Goto, HeapType, Copies, Overlapping
<1>14. ASSUME NEW v \in Settings, ChangeSetting(v) PROVE Copies'
  BY <1>14 DEF ChangeSetting, Goto, disk, ghost, Copies, Overlapping, Keys, HeapType,
       CopyType
<1>15. ASSUME NEW w \in Writers, SaveFile(w) PROVE Copies'
  BY <1>15 DEF SaveFile, Goto, disk, ghost, Copies, Overlapping, Keys, HeapType,
       CopyType
<1>16. ASSUME NEW w \in Writers, SaveFileFails(w) PROVE Copies'
  <2>1. \A d \in Dispatchers : pc'[d] = "running" => pc[d] = "running" /\ mine'[d] = mine[d]
    BY <1>16 DEF SaveFileFails, End, Goto, HeapType, CopyType
  <2>. QED  BY <1>16, <2>1 DEF SaveFileFails, Copies, Overlapping, Keys
<1>17. ASSUME NEW w \in Writers, Apply(w) PROVE Copies'
  <2>1. cfg[w].arr \in Arrays /\ cfg[w].len \in 0..MaxLen /\ Named(heap[cfg[w].arr], cfg[w].len)
    BY <1>17, HeaderIs DEF Apply, Slices
  <2>2. \A c \in order' : ~c.disabled /\ c.key \in Accounts /\ c.key \in Keys(published)'
    BY <1>17, <2>1, EligibleNamed DEF Apply, Keys
  <2>3. Overlapping => Keys(published)' = Keys(published)
    BY <1>17 DEF Apply, Keys, Slices
  <2>4. \A d \in Dispatchers : pc'[d] = "running" => pc[d] = "running" /\ mine'[d] = mine[d]
    BY <1>17 DEF Apply, Goto, HeapType
  <2>. QED  BY <1>17, <2>2, <2>3, <2>4 DEF Apply, Copies, Overlapping
<1>18. ASSUME NEW w \in Writers, SaveTable(w) PROVE Copies'
  BY <1>18 DEF SaveTable, Goto, disk, ghost, Copies, Overlapping, Keys, HeapType,
       CopyType
<1>19. ASSUME NEW w \in Writers, SaveTableFails(w) PROVE Copies'
  <2>1. \A d \in Dispatchers : pc'[d] = "running" => pc[d] = "running" /\ mine'[d] = mine[d]
    BY <1>19 DEF SaveTableFails, End, Goto, HeapType, CopyType
  <2>. QED  BY <1>19, <2>1 DEF SaveTableFails, Copies, Overlapping, Keys
<1>20. ASSUME NEW w \in Writers, Reorder(w) PROVE Copies'
  <2>1. \A c \in order' : ~c.disabled /\ c.key \in Accounts /\ c.key \in Keys(published)
    BY <1>20, HeaderIs, EligibleNamed DEF Reorder, PublishedSlice
  <2>2. \A d \in Dispatchers : pc'[d] = "running" => pc[d] = "running" /\ mine'[d] = mine[d]
    BY <1>20 DEF Reorder, End, Goto, HeapType, CopyType
  <2>. QED  BY <1>20, <2>1, <2>2 DEF Reorder, Copies, Overlapping, Keys
<1>21. CASE UNCHANGED vars
  BY <1>21 DEF vars, disk, ghost, Copies, Overlapping, Keys, HeapType, CopyType
<1>. QED  BY <1>1, <1>2, <1>3, <1>4, <1>5, <1>6, <1>7, <1>8, <1>9, <1>10, <1>11,
          <1>12, <1>13, <1>14, <1>15, <1>16, <1>17, <1>18, <1>19, <1>20, <1>21
     DEF Next, DispatcherStep, AdminStep, SaveStep

\* What is stored has no account twice.
LEMMA StoredStep ==
  ASSUME Shape, [Next]_vars
  PROVE  Stored'
<1>. MaxLen \in Nat /\ Admin \in Writers /\ Dispatchers \subseteq Writers
  BY StoreAssumption DEF Writers
<1>. TypeOK /\ Alone /\ Slices /\ PublishedSlice /\ Copies /\ Stored
  BY DEF Shape
<1>. HeapType /\ CopyType
  BY TypeParts
<1>1. CASE Restart
  <2>1. Len(Loaded) <= MaxLen /\ Differ(Loaded, Len(Loaded)) /\ Named(Loaded, Len(Loaded))
    BY LoadedIs
  <2>. QED  BY <1>1, <2>1 DEF Restart, Stored
<1>2. ASSUME NEW w \in Writers, Take(w) PROVE Stored'
  BY <1>2 DEF Take, Goto, disk, ghost, Stored
<1>3. ASSUME NEW w \in Writers, Leave(w) PROVE Stored'
  BY <1>3 DEF Leave, Goto, disk, ghost, Stored
<1>4. ASSUME NEW d \in Dispatchers, NEW cell \in order, PickCandidate(d, cell)
      PROVE  Stored'
  BY <1>4 DEF PickCandidate, Hold, Goto, disk, ghost, Stored
<1>5. ASSUME NEW d \in Dispatchers, PickActive(d) PROVE Stored'
  BY <1>5 DEF PickActive, Hold, Goto, disk, ghost, Stored
<1>6. ASSUME NEW d \in Dispatchers, Record(d) PROVE Stored'
  BY <1>6 DEF Record, Goto, disk, ghost, Stored
<1>7. ASSUME NEW d \in Dispatchers, RecordActive(d) PROVE Stored'
  BY <1>7 DEF RecordActive, Goto, disk, ghost, Stored
<1>8. ASSUME NEW d \in Dispatchers, RecordRefreshed(d) PROVE Stored'
  BY <1>8 DEF RecordRefreshed, Goto, disk, ghost, Stored
<1>9. ASSUME NEW a \in Accounts, NEW off \in BOOLEAN, Edit(a, off) PROVE Stored'
  BY <1>9 DEF Edit, Begin, Goto, disk, ghost, Stored
<1>10. ASSUME NEW a \in Accounts, RejectEdit(a) PROVE Stored'
  BY <1>10 DEF RejectEdit, Goto, disk, ghost, Stored
<1>11. ASSUME NEW a \in Accounts, Activate(a) PROVE Stored'
  BY <1>11 DEF Activate, Goto, disk, ghost, Stored
<1>12. ASSUME NEW a \in Accounts, Add(a) PROVE Stored'
  BY <1>12 DEF Add, Begin, Goto, disk, ghost, Stored
<1>13. ASSUME NEW a \in Accounts, Remove(a) PROVE Stored'
  BY <1>13 DEF Remove, Begin, Goto, disk, ghost, Stored
<1>14. ASSUME NEW v \in Settings, ChangeSetting(v) PROVE Stored'
  BY <1>14 DEF ChangeSetting, Goto, disk, ghost, Stored
<1>15. ASSUME NEW w \in Writers, SaveFile(w) PROVE Stored'
  <2>1. file' \in {file, [accounts |-> <<>>, setting |-> cfg[w].setting]} /\ table' = table
    BY <1>15 DEF SaveFile
  <2>2. Len(<<>>) = 0
    OBVIOUS
  <2>. QED  BY <2>1, <2>2 DEF Stored
<1>16. ASSUME NEW w \in Writers, SaveFileFails(w) PROVE Stored'
  BY <1>16 DEF SaveFileFails, End, Goto, disk, ghost, Stored
<1>17. ASSUME NEW w \in Writers, Apply(w) PROVE Stored'
  BY <1>17 DEF Apply, Goto, disk, ghost, Stored
<1>18. ASSUME NEW w \in Writers, SaveTable(w) PROVE Stored'
  <2> DEFINE s == Listing(cfg[w], heap)
  <2>1. cfg[w].arr \in Arrays /\ cfg[w].len \in 0..MaxLen /\ heap[cfg[w].arr] \in [1..MaxLen -> Cell]
    BY <1>18, HeaderIs DEF SaveTable, HeapType
  <2>2. Len(s) = cfg[w].len /\ \A i \in 1..cfg[w].len : s[i] = heap[cfg[w].arr][i]
    BY <2>1, ListingIs DEF Listing
  <2>3. table'.rows = s /\ file' = file
    BY <1>18 DEF SaveTable
  <2> HIDE DEF s
  <2>4. cfg[w].len \in Nat /\ Differ(s, cfg[w].len) /\ Named(s, cfg[w].len)
    BY <1>18, <2>1, <2>2 DEF SaveTable, Slices, Differ, Named
  <2>. QED  BY <2>1, <2>2, <2>3, <2>4 DEF Stored
<1>19. ASSUME NEW w \in Writers, SaveTableFails(w) PROVE Stored'
  BY <1>19 DEF SaveTableFails, End, Goto, disk, ghost, Stored
<1>20. ASSUME NEW w \in Writers, Reorder(w) PROVE Stored'
  BY <1>20 DEF Reorder, End, Goto, disk, ghost, Stored
<1>21. CASE UNCHANGED vars
  BY <1>21 DEF vars, disk, ghost, Stored
<1>. QED  BY <1>1, <1>2, <1>3, <1>4, <1>5, <1>6, <1>7, <1>8, <1>9, <1>10, <1>11,
          <1>12, <1>13, <1>14, <1>15, <1>16, <1>17, <1>18, <1>19, <1>20, <1>21
     DEF Next, DispatcherStep, AdminStep, SaveStep

-----------------------------------------------------------------------------
(* The first results.                                                      *)

LEMMA ShapeInit == Init => Shape
<1>. SUFFICES ASSUME Init PROVE Shape
  OBVIOUS
<1>. /\ MaxLen \in Nat /\ Admin \in Writers /\ 0 \in Settings /\ NoArray \notin Arrays
     /\ NoAccount \notin Accounts
  BY StoreAssumption DEF Writers
<1>1. PICK s \in Bootstrap[mode] :
        /\ file = [accounts |-> s, setting |-> 0]
        /\ table = [rows |-> Rows(s), active |-> NoAccount]
        /\ \E x \in Arrays, c \in Len(s)..MaxLen :
             /\ heap = [y \in Arrays |-> IF y = x THEN Pad(Rows(s)) ELSE Pad(<<>>)]
             /\ cap = [y \in Arrays |-> IF y = x THEN c ELSE 0]
             /\ published = [Blank EXCEPT !.arr = x, !.len = Len(s)]
        /\ order = {Enabled(s[i]) : i \in 1..Len(s)}
        /\ promise = [a \in Accounts |-> IF \E i \in 1..Len(s) : s[i] = a THEN "in" ELSE "out"]
  BY Zenon DEF Init
<1>0. PICK x \in Arrays, c \in Len(s)..MaxLen :
        /\ heap = [y \in Arrays |-> IF y = x THEN Pad(Rows(s)) ELSE Pad(<<>>)]
        /\ cap = [y \in Arrays |-> IF y = x THEN c ELSE 0]
        /\ published = [Blank EXCEPT !.arr = x, !.len = Len(s)]
  BY <1>1, Zenon
<1>2. /\ mode \in Modes /\ pc = [w \in Writers |-> "idle"] /\ cfg = [w \in Writers |-> Blank]
      /\ mine = [w \in Writers |-> NoCell] /\ task = NoTask /\ promised = 0 /\ tainted = {}
      /\ unsaved = FALSE
  BY DEF Init
<1>3. /\ s \in Seq(Accounts) /\ Len(s) <= MaxLen /\ Len(s) \in Nat
      /\ \A i, j \in 1..Len(s) : s[i] = s[j] => i = j
      /\ \A i \in 1..Len(s) : s[i] \in Accounts
  BY <1>0, <1>1, <1>2, StoreAssumption
<1> DEFINE t == Rows(s)
<1>4. /\ Len(t) = Len(s)
      /\ \A i \in 1..Len(s) : t[i] \in Cell /\ t[i].key = s[i] /\ t[i] = Enabled(s[i])
  <2>1. \A i \in 1..Len(s) : t[i] = Enabled(s[i])
    BY DEF Rows
  <2>2. ASSUME NEW i \in 1..Len(s) PROVE Enabled(s[i]) \in Cell /\ Enabled(s[i]).key = s[i]
    BY <1>3 DEF Enabled, Cell
  <2>3. Len(t) = Len(s)
    BY <1>3 DEF Rows
  <2>. QED  BY <2>1, <2>2, <2>3
<1>5. t \in Seq(Cell)
  <2>1. t = [i \in 1..Len(s) |-> t[i]]
    BY DEF Rows
  <2>. QED  BY <1>3, <1>4, <2>1, IsASeq
<1> HIDE DEF t
<1>6. Differ(t, Len(t)) /\ Named(t, Len(t))
  BY <1>3, <1>4 DEF Differ, Named
<1>7. /\ Pad(t) \in [1..MaxLen -> Cell] /\ \A i \in 1..Len(t) : Pad(t)[i] = t[i]
  BY <1>3, <1>4, <1>5, PadIs
<1>8. Pad(<<>>) \in [1..MaxLen -> Cell]
  <2>1. <<>> \in Seq(Cell) /\ Len(<<>>) <= MaxLen
    OBVIOUS
  <2>. QED  BY <2>1, PadIs
<1>9. heap[x] = Pad(t) /\ heap \in [Arrays -> [1..MaxLen -> Cell]]
  BY <1>0, <1>1, <1>7, <1>8 DEF t
<1>10. /\ published.arr = x /\ published.len = Len(t) /\ published \in Config
       /\ published.setting = 0 /\ published.active = NoAccount
  <2>1. Len(t) \in 0..MaxLen /\ Len(s) = Len(t) /\ 0 \in 0..MaxLen
    BY <1>3, <1>4
  <2>2. published = [arr |-> x, len |-> Len(t), active |-> NoAccount, setting |-> 0]
    BY <1>0, <2>1 DEF Blank
  <2>. QED  BY <2>1, <2>2 DEF Config
<1>11. Differ(heap[x], Len(t)) /\ Named(heap[x], Len(t))
  BY <1>3, <1>4, <1>6, <1>7, <1>9, CarryOver
<1>12. HeapType
  <2>1. cap \in [Arrays -> 0..MaxLen] /\ Len(t) <= cap[x]
    BY <1>0, <1>1, <1>3, <1>4
  <2>2. Blank \in Config
    BY DEF Blank, Config
  <2>. QED  BY <1>2, <1>9, <1>10, <2>1, <2>2 DEF HeapType
<1>13. CopyType
  <2>1. order \subseteq Cell
    BY <1>0, <1>1, <1>4
  <2>2. table = [rows |-> t, active |-> NoAccount]
    BY <1>1 DEF t
  <2>3. NoCell \in Cell
    BY DEF NoCell, Cell
  <2>. QED  BY <1>0, <1>1, <1>2, <1>3, <1>5, <2>1, <2>2, <2>3 DEF CopyType
<1>14. GhostType
  BY <1>0, <1>1, <1>2 DEF GhostType, NoTask
<1>15. Alone /\ Slices
  BY <1>2 DEF Alone, Slices
<1>16. PublishedSlice
  BY <1>3, <1>4, <1>10, <1>11, DifferIsAlmost DEF PublishedSlice
<1>17. Copies
  <2>1. \A e \in order : \E i \in 1..Len(t) : e = t[i] /\ e = Enabled(s[i]) /\ e.key \in Accounts
    BY <1>0, <1>1, <1>3, <1>4
  <2>2. \A e \in order : ~e.disabled /\ e.key \in Accounts
    BY <2>1 DEF Enabled
  <2>3. \A e \in order : e.key \in Keys(published)
    BY <2>1, <1>4, <1>7, <1>9, <1>10 DEF Keys
  <2>4. \A d \in Dispatchers : pc[d] = "idle"
    BY <1>2 DEF Writers
  <2>. QED  BY <2>2, <2>3, <2>4 DEF Copies
<1>18. Stored
  BY <1>0, <1>1, <1>3, <1>4, <1>6 DEF Stored, t
<1>. QED  BY <1>12, <1>13, <1>14, <1>15, <1>16, <1>17, <1>18, TypeParts DEF Shape

LEMMA ShapeStep == Shape /\ [Next]_vars => Shape'
BY TypeStep, AloneStep, SlicesStep, PublishedStep, CopiesStep, StoredStep DEF Shape

LEMMA ShapeInvariant == Spec => []Shape
BY ShapeInit, ShapeStep, PTL DEF Spec

\* Every state has the shape of TypeOK: in particular no list ever reaches
\* past its array, whatever is appended to, shifted or shared.
THEOREM StoreTypeCorrect == Spec => []TypeOK
<1>1. Shape => TypeOK
  BY DEF Shape
<1>. QED  BY <1>1, ShapeInvariant, PTL

\* No save ever finds an e-mail twice among its accounts, although a
\* deletion leaves the published list with one until it publishes its own.
THEOREM SavesAlwaysDistinct == Spec => []SavesNeverCollide
<1>1. ASSUME Shape PROVE SavesNeverCollide
  <2>1. SUFFICES ASSUME NEW w \in Writers, pc[w] = "table"
                 PROVE  Distinct(Listing(cfg[w], heap))
    BY DEF SavesNeverCollide
  <2> DEFINE n == cfg[w].len
             cells == heap[cfg[w].arr]
  <2>2. n \in 0..MaxLen /\ cells \in [1..MaxLen -> Cell] /\ Differ(cells, n)
    BY <1>1, <2>1, HeaderIs DEF Shape, Slices, TypeOK
  <2>3. Len(SubSeq(cells, 1, n)) = n /\ \A i \in 1..n : SubSeq(cells, 1, n)[i] = cells[i]
    BY <2>2, ListingIs
  <2>. QED  BY <2>2, <2>3 DEF Distinct, Listing, Differ
<1>. QED  BY <1>1, ShapeInvariant, PTL

-----------------------------------------------------------------------------
(* Settings.                                                               *)

LEMMA TaskStep ==
  ASSUME Shape, TaskPlace, [Next]_vars
  PROVE  TaskPlace'
<1>. MaxLen \in Nat /\ Admin \in Writers /\ Dispatchers \subseteq Writers /\ Admin \notin Dispatchers
  BY StoreAssumption DEF Writers
<1>. HeapType /\ Alone /\ TaskPlace
  BY TypeParts DEF Shape
<1>1. CASE Restart
  BY <1>1 DEF Restart, Loaded, disk, ghost, TaskPlace, Overlapping, HeapType, NoTask
<1>2. ASSUME NEW w \in Writers, Take(w) PROVE TaskPlace'
  BY <1>2 DEF Take, Goto, disk, ghost, TaskPlace, Overlapping, HeapType, NoTask
<1>3. ASSUME NEW w \in Writers, Leave(w) PROVE TaskPlace'
  BY <1>3 DEF Leave, Goto, disk, ghost, TaskPlace, Overlapping, HeapType, NoTask
<1>4. ASSUME NEW d \in Dispatchers, NEW cell \in order, PickCandidate(d, cell)
      PROVE  TaskPlace'
  BY <1>4 DEF PickCandidate, Hold, Goto, disk, ghost, TaskPlace, Overlapping, HeapType,
       NoTask
<1>5. ASSUME NEW d \in Dispatchers, PickActive(d) PROVE TaskPlace'
  BY <1>5 DEF PickActive, Hold, Goto, ghost, HeapType, TaskPlace
<1>6. ASSUME NEW d \in Dispatchers, Record(d) PROVE TaskPlace'
  BY <1>6 DEF Record, Goto, disk, ghost, TaskPlace, Overlapping, HeapType, NoTask
<1>7. ASSUME NEW d \in Dispatchers, RecordActive(d) PROVE TaskPlace'
  BY <1>7 DEF RecordActive, Goto, disk, ghost, TaskPlace, Overlapping, HeapType, NoTask
<1>8. ASSUME NEW d \in Dispatchers, RecordRefreshed(d) PROVE TaskPlace'
  BY <1>8 DEF RecordRefreshed, Goto, disk, ghost, TaskPlace, Overlapping, HeapType,
       NoTask
<1>9. ASSUME NEW a \in Accounts, NEW off \in BOOLEAN, Edit(a, off) PROVE TaskPlace'
  BY <1>9 DEF Edit, Begin, Goto, disk, ghost, TaskPlace, Overlapping, HeapType, NoTask
<1>10. ASSUME NEW a \in Accounts, RejectEdit(a) PROVE TaskPlace'
  BY <1>10 DEF RejectEdit, Goto, disk, ghost, TaskPlace, Overlapping, HeapType, NoTask
<1>11. ASSUME NEW a \in Accounts, Activate(a) PROVE TaskPlace'
  BY <1>11 DEF Activate, Goto, disk, ghost, TaskPlace, Overlapping, HeapType, NoTask
<1>12. ASSUME NEW a \in Accounts, Add(a) PROVE TaskPlace'
  BY <1>12 DEF Add, Begin, Goto, disk, ghost, TaskPlace, Overlapping, HeapType, NoTask
<1>13. ASSUME NEW a \in Accounts, Remove(a) PROVE TaskPlace'
  BY <1>13 DEF Remove, Begin, Goto, disk, ghost, TaskPlace, Overlapping, HeapType,
       NoTask
<1>14. ASSUME NEW v \in Settings, ChangeSetting(v) PROVE TaskPlace'
  BY <1>14 DEF ChangeSetting, Goto, disk, ghost, TaskPlace, Overlapping, HeapType,
       NoTask
<1>15. ASSUME NEW w \in Writers, SaveFile(w) PROVE TaskPlace'
  BY <1>15 DEF SaveFile, Goto, disk, ghost, TaskPlace, Overlapping, HeapType, NoTask
<1>16. ASSUME NEW w \in Writers, SaveFileFails(w) PROVE TaskPlace'
  BY <1>16 DEF SaveFileFails, End, Goto, disk, ghost, TaskPlace, Overlapping, HeapType,
       NoTask
<1>17. ASSUME NEW w \in Writers, Apply(w) PROVE TaskPlace'
  BY <1>17 DEF Apply, Goto, disk, ghost, TaskPlace, Overlapping, HeapType, NoTask
<1>18. ASSUME NEW w \in Writers, SaveTable(w) PROVE TaskPlace'
  BY <1>18 DEF SaveTable, Goto, disk, ghost, TaskPlace, Overlapping, HeapType, NoTask
<1>19. ASSUME NEW w \in Writers, SaveTableFails(w) PROVE TaskPlace'
  BY <1>19 DEF SaveTableFails, End, Goto, disk, ghost, TaskPlace, Overlapping,
       HeapType, NoTask
<1>20. ASSUME NEW w \in Writers, Reorder(w) PROVE TaskPlace'
  BY <1>20 DEF Reorder, End, Goto, disk, ghost, TaskPlace, Overlapping, HeapType, NoTask
<1>21. CASE UNCHANGED vars
  BY <1>21 DEF vars, disk, ghost, TaskPlace, Overlapping, HeapType, NoTask
<1>. QED  BY <1>1, <1>2, <1>3, <1>4, <1>5, <1>6, <1>7, <1>8, <1>9, <1>10, <1>11,
          <1>12, <1>13, <1>14, <1>15, <1>16, <1>17, <1>18, <1>19, <1>20, <1>21
     DEF Next, DispatcherStep, AdminStep, SaveStep

LEMMA SettingStep ==
  ASSUME Shape, TaskPlace, SettingEverywhere, [Next]_vars
  PROVE  SettingEverywhere'
<1>. MaxLen \in Nat /\ Admin \in Writers /\ Dispatchers \subseteq Writers /\ Admin \notin Dispatchers
  BY StoreAssumption DEF Writers
<1>. TypeOK /\ HeapType /\ CopyType /\ Slices /\ Alone /\ TaskPlace
  BY TypeParts DEF Shape
<1>1. CASE Restart
  BY <1>1 DEF Restart, Loaded, disk, ghost, SettingEverywhere, TaskPlace, Alone,
       Saving, Overlapping, HeapType, Config, Blank, NoTask
<1>2. ASSUME NEW w \in Writers, Take(w) PROVE SettingEverywhere'
  BY <1>2 DEF Take, Goto, disk, ghost, SettingEverywhere, TaskPlace, Alone, Saving,
       Overlapping, HeapType, Config, Blank, NoTask
<1>3. ASSUME NEW w \in Writers, Leave(w) PROVE SettingEverywhere'
  BY <1>3 DEF Leave, Goto, disk, ghost, SettingEverywhere, TaskPlace, Alone, Saving,
       Overlapping, HeapType, Config, Blank, NoTask
<1>4. ASSUME NEW d \in Dispatchers, NEW cell \in order, PickCandidate(d, cell)
      PROVE  SettingEverywhere'
  BY <1>4 DEF PickCandidate, Hold, Goto, disk, ghost, SettingEverywhere, TaskPlace,
       Alone, Saving, Overlapping, HeapType, Config, Blank, NoTask
<1>5. ASSUME NEW d \in Dispatchers, PickActive(d) PROVE SettingEverywhere'
  BY <1>5 DEF PickActive, Hold, Goto, disk, ghost, SettingEverywhere, TaskPlace, Alone,
       Saving, Overlapping, HeapType, Config, Blank, NoTask
<1>6. ASSUME NEW d \in Dispatchers, Record(d) PROVE SettingEverywhere'
  <2>1. \A v \in Writers : cfg'[v].setting = cfg[v].setting
    <3>1. mine[d] \in Cell /\ pc[d] # "idle" /\ Upsert(d, mine[d])
      BY <1>6 DEF Record, CopyType
    <3>2. CASE cfg' = cfg
      BY <3>2
    <3>3. CASE \E x \in Arrays : Extends(d, mine[d], x)
      <4>1. PICK x \in Arrays : cfg' = [cfg EXCEPT ![d].arr = x, ![d].len = cfg[d].len + 1]
        BY <3>3 DEF Extends, ExtendsTo
      <4>. QED  BY <4>1 DEF HeapType, Config
    <3>. QED  BY <3>1, <3>2, <3>3, UpsertEffect
  <2>. QED  BY <1>6, <2>1 DEF Record, Goto, disk, ghost, SettingEverywhere, TaskPlace,
                 Alone, Saving, Overlapping, HeapType, NoTask
<1>7. ASSUME NEW d \in Dispatchers, RecordActive(d) PROVE SettingEverywhere'
  BY <1>7 DEF RecordActive, Goto, disk, ghost, SettingEverywhere, TaskPlace, Alone,
       Saving, Overlapping, HeapType, Config, Blank, NoTask
<1>8. ASSUME NEW d \in Dispatchers, RecordRefreshed(d) PROVE SettingEverywhere'
  BY <1>8 DEF RecordRefreshed, Goto, disk, ghost, SettingEverywhere, TaskPlace, Alone,
       Saving, Overlapping, HeapType, Config, Blank, NoTask
<1>9. ASSUME NEW a \in Accounts, NEW off \in BOOLEAN, Edit(a, off)
      PROVE  SettingEverywhere'
  BY <1>9 DEF Edit, Begin, Goto, disk, ghost, SettingEverywhere, TaskPlace, Alone,
       Saving, Overlapping, HeapType, Config, Blank, NoTask
<1>10. ASSUME NEW a \in Accounts, RejectEdit(a) PROVE SettingEverywhere'
  BY <1>10 DEF RejectEdit, Goto, disk, ghost, SettingEverywhere, TaskPlace, Alone,
       Saving, Overlapping, HeapType, Config, Blank, NoTask
<1>11. ASSUME NEW a \in Accounts, Activate(a) PROVE SettingEverywhere'
  BY <1>11 DEF Activate, Goto, disk, ghost, SettingEverywhere, TaskPlace, Alone,
       Saving, Overlapping, HeapType, Config, Blank, NoTask
<1>12. ASSUME NEW a \in Accounts, Add(a) PROVE SettingEverywhere'
  <2>1. \A v \in Writers : cfg'[v].setting = cfg[v].setting
    <3>1. Enabled(a) \in Cell /\ pc[Admin] # "idle" /\ Upsert(Admin, Enabled(a))
      BY <1>12 DEF Add, CopyType, Enabled, Cell
    <3>2. CASE cfg' = cfg
      BY <3>2
    <3>3. CASE \E x \in Arrays : Extends(Admin, Enabled(a), x)
      <4>1. PICK x \in Arrays : cfg' = [cfg EXCEPT ![Admin].arr = x, ![Admin].len = cfg[Admin].len + 1]
        BY <3>3 DEF Extends, ExtendsTo
      <4>. QED  BY <4>1 DEF HeapType, Config
    <3>. QED  BY <3>1, <3>2, <3>3, UpsertEffect
  <2>. QED  BY <1>12, <2>1 DEF Add, Begin, Goto, disk, ghost, SettingEverywhere, TaskPlace,
                 Alone, Saving, Overlapping, HeapType, NoTask
<1>13. ASSUME NEW a \in Accounts, Remove(a) PROVE SettingEverywhere'
  BY <1>13 DEF Remove, Begin, Goto, disk, ghost, SettingEverywhere, TaskPlace, Alone,
       Saving, Overlapping, HeapType, Config, Blank, NoTask
<1>14. ASSUME NEW v \in Settings, ChangeSetting(v) PROVE SettingEverywhere'
  BY <1>14 DEF ChangeSetting, Goto, disk, ghost, SettingEverywhere, TaskPlace, Alone,
       Saving, Overlapping, HeapType, Config, Blank, NoTask
<1>15. ASSUME NEW w \in Writers, SaveFile(w) PROVE SettingEverywhere'
  BY <1>15 DEF SaveFile, Goto, disk, ghost, SettingEverywhere, TaskPlace, Alone,
       Saving, Overlapping, HeapType, Config, Blank, NoTask
<1>16. ASSUME NEW w \in Writers, SaveFileFails(w) PROVE SettingEverywhere'
  BY <1>16 DEF SaveFileFails, End, Goto, disk, ghost, SettingEverywhere, TaskPlace,
       Alone, Saving, Overlapping, HeapType, Config, Blank, NoTask
<1>17. ASSUME NEW w \in Writers, Apply(w) PROVE SettingEverywhere'
  BY <1>17 DEF Apply, Goto, disk, ghost, SettingEverywhere, TaskPlace, Alone, Saving,
       Overlapping, HeapType, Config, Blank, NoTask
<1>18. ASSUME NEW w \in Writers, SaveTable(w) PROVE SettingEverywhere'
  BY <1>18 DEF SaveTable, Goto, disk, ghost, SettingEverywhere, TaskPlace, Alone,
       Saving, Overlapping, HeapType, Config, Blank, NoTask
<1>19. ASSUME NEW w \in Writers, SaveTableFails(w) PROVE SettingEverywhere'
  BY <1>19 DEF SaveTableFails, End, Goto, disk, ghost, SettingEverywhere, TaskPlace,
       Alone, Saving, Overlapping, HeapType, Config, Blank, NoTask
<1>20. ASSUME NEW w \in Writers, Reorder(w) PROVE SettingEverywhere'
  BY <1>20 DEF Reorder, End, Goto, disk, ghost, SettingEverywhere, TaskPlace, Alone,
       Saving, Overlapping, HeapType, Config, Blank, NoTask
<1>21. CASE UNCHANGED vars
  BY <1>21 DEF vars, disk, ghost, SettingEverywhere, TaskPlace, Alone, Saving,
       Overlapping, HeapType, Config, Blank, NoTask
<1>. QED  BY <1>1, <1>2, <1>3, <1>4, <1>5, <1>6, <1>7, <1>8, <1>9, <1>10, <1>11,
          <1>12, <1>13, <1>14, <1>15, <1>16, <1>17, <1>18, <1>19, <1>20, <1>21
     DEF Next, DispatcherStep, AdminStep, SaveStep

LEMMA SettingInvariant == Spec => [](Shape /\ TaskPlace /\ SettingEverywhere)
<1>1. Init => TaskPlace /\ SettingEverywhere
  <2>1. ASSUME Init PROVE TaskPlace /\ SettingEverywhere
    <3>1. task = NoTask /\ promised = 0 /\ file.setting = 0 /\ published.setting = 0
      BY <2>1 DEF Init, Blank
    <3>2. \A w \in Writers : pc[w] = "idle"
      BY <2>1 DEF Init
    <3>. QED  BY <3>1, <3>2 DEF TaskPlace, SettingEverywhere, NoTask
  <2>. QED  BY <2>1
<1>. QED  BY <1>1, ShapeInit, ShapeStep, TaskStep, SettingStep, PTL DEF Spec

\* A setting the administrator was told is saved is in force and in the file,
\* across restarts and failed saves.
THEOREM SettingsAreKept == Spec => []SettingKept
<1>1. SettingEverywhere => SettingKept
  BY DEF SettingEverywhere, SettingKept
<1>. QED  BY <1>1, SettingInvariant, PTL

-----------------------------------------------------------------------------
(* The table.                                                              *)

LEMMA TableStep ==
  ASSUME Shape, TableFollows, [Next]_vars
  PROVE  TableFollows'
<1>. MaxLen \in Nat /\ Admin \in Writers /\ Dispatchers \subseteq Writers
  BY StoreAssumption DEF Writers
<1>. TypeOK /\ HeapType /\ Alone /\ Slices /\ Stored
  BY TypeParts DEF Shape
<1>1. CASE Restart
  <2> DEFINE s == Loaded
  <2>1. s \in Seq(Cell) /\ Len(s) <= MaxLen
    BY LoadedIs
  <2>2. heap' = [x \in Arrays |-> IF x = published.arr THEN Pad(s) ELSE Pad(<<>>)]
    BY <1>1 DEF Restart
  <2>3. published'.arr = published.arr /\ published'.len = Len(s) /\ table'.rows = s
        /\ table'.active = published'.active
    BY <1>1 DEF Restart, HeapType, Config
  <2> HIDE DEF s
  <2>4. heap'[published'.arr] = Pad(s)
    BY <2>2, <2>3, HeaderIs
  <2>5. Listing(published, heap)' = s
    BY <2>1, <2>3, <2>4, PadLists DEF Listing
  <2>. QED  BY <2>3, <2>5 DEF TableFollows
<1>2. ASSUME NEW w \in Writers, Take(w) PROVE TableFollows'
  BY <1>2 DEF Take, Goto, disk, ghost, TableFollows, Listing, Overlapping, HeapType
<1>3. ASSUME NEW w \in Writers, Leave(w) PROVE TableFollows'
  BY <1>3 DEF Leave, Goto, disk, ghost, TableFollows, Listing, Overlapping, HeapType
<1>4. ASSUME NEW d \in Dispatchers, NEW cell \in order, PickCandidate(d, cell)
      PROVE  TableFollows'
  BY <1>4 DEF PickCandidate, Hold, Goto, disk, ghost, TableFollows, Listing,
       Overlapping, HeapType
<1>5. ASSUME NEW d \in Dispatchers, PickActive(d) PROVE TableFollows'
  BY <1>5 DEF PickActive, Hold, Goto, disk, ghost, TableFollows, Listing, Overlapping,
       HeapType
<1>6. ASSUME NEW d \in Dispatchers, Record(d) PROVE TableFollows'
  BY <1>6 DEF Record, Goto, disk, ghost, TableFollows, Listing, Overlapping, HeapType
<1>7. ASSUME NEW d \in Dispatchers, RecordActive(d) PROVE TableFollows'
  BY <1>7 DEF RecordActive, Goto, disk, ghost, TableFollows, Listing, Overlapping,
       HeapType
<1>8. ASSUME NEW d \in Dispatchers, RecordRefreshed(d) PROVE TableFollows'
  BY <1>8 DEF RecordRefreshed, Goto, disk, ghost, TableFollows, Listing, Overlapping,
       HeapType
<1>9. ASSUME NEW a \in Accounts, NEW off \in BOOLEAN, Edit(a, off)
      PROVE  TableFollows'
  BY <1>9 DEF Edit, Begin, Goto, disk, ghost, TableFollows, Listing, Overlapping,
       HeapType
<1>10. ASSUME NEW a \in Accounts, RejectEdit(a) PROVE TableFollows'
  BY <1>10 DEF RejectEdit, Goto, disk, ghost, TableFollows, Listing, Overlapping,
       HeapType
<1>11. ASSUME NEW a \in Accounts, Activate(a) PROVE TableFollows'
  BY <1>11 DEF Activate, Goto, disk, ghost, TableFollows, Listing, Overlapping, HeapType
<1>12. ASSUME NEW a \in Accounts, Add(a) PROVE TableFollows'
  BY <1>12 DEF Add, Begin, Goto, disk, ghost, TableFollows, Listing, Overlapping,
       HeapType
<1>13. ASSUME NEW a \in Accounts, Remove(a) PROVE TableFollows'
  BY <1>13 DEF Remove, Begin, Goto, disk, ghost, TableFollows, Listing, Overlapping,
       HeapType
<1>14. ASSUME NEW v \in Settings, ChangeSetting(v) PROVE TableFollows'
  BY <1>14 DEF ChangeSetting, Goto, disk, ghost, TableFollows, Listing, Overlapping,
       HeapType
<1>15. ASSUME NEW w \in Writers, SaveFile(w) PROVE TableFollows'
  BY <1>15 DEF SaveFile, Goto, disk, ghost, TableFollows, Listing, Overlapping, HeapType
<1>16. ASSUME NEW w \in Writers, SaveFileFails(w) PROVE TableFollows'
  BY <1>16 DEF SaveFileFails, End, Goto, disk, ghost, TableFollows, Listing,
       Overlapping, HeapType
<1>17. ASSUME NEW w \in Writers, Apply(w) PROVE TableFollows'
  BY <1>17 DEF Apply, Goto, disk, ghost, TableFollows, Listing, Overlapping, HeapType
<1>18. ASSUME NEW w \in Writers, SaveTable(w) PROVE TableFollows'
  <2>1. cfg[w].arr = published.arr /\ cfg[w].len = published.len
    BY <1>18 DEF SaveTable, Slices, Saving
  <2>2. Listing(cfg[w], heap) = Listing(published, heap)
    BY <2>1 DEF Listing
  <2>3. ~Overlapping => cfg[w].active = published.active
    BY <1>18 DEF SaveTable, Alone, Saving
  <2>4. table' = [rows |-> Listing(published, heap), active |-> cfg[w].active]
    BY <1>18, <2>2 DEF SaveTable
  <2>5. published' = published /\ heap' = heap /\ mode' = mode
    BY <1>18 DEF SaveTable
  <2>6. Listing(published, heap)' = Listing(published, heap)
    BY <2>5 DEF Listing
  <2>. QED  BY <2>3, <2>4, <2>5, <2>6 DEF TableFollows, Overlapping
<1>19. ASSUME NEW w \in Writers, SaveTableFails(w) PROVE TableFollows'
  BY <1>19 DEF SaveTableFails, End, Goto, disk, ghost, TableFollows, Listing,
       Overlapping, HeapType
<1>20. ASSUME NEW w \in Writers, Reorder(w) PROVE TableFollows'
  BY <1>20 DEF Reorder, End, Goto, disk, ghost, TableFollows, Listing, Overlapping,
       HeapType
<1>21. CASE UNCHANGED vars
  BY <1>21 DEF vars, disk, ghost, TableFollows, Listing, Overlapping, HeapType
<1>. QED  BY <1>1, <1>2, <1>3, <1>4, <1>5, <1>6, <1>7, <1>8, <1>9, <1>10, <1>11,
          <1>12, <1>13, <1>14, <1>15, <1>16, <1>17, <1>18, <1>19, <1>20, <1>21
     DEF Next, DispatcherStep, AdminStep, SaveStep

LEMMA TableInit == Init => TableFollows
<1>. SUFFICES ASSUME Init PROVE TableFollows
  OBVIOUS
<1>1. PICK s \in Bootstrap[mode] :
        /\ table = [rows |-> Rows(s), active |-> NoAccount]
        /\ \E x \in Arrays :
             /\ heap = [y \in Arrays |-> IF y = x THEN Pad(Rows(s)) ELSE Pad(<<>>)]
             /\ published = [Blank EXCEPT !.arr = x, !.len = Len(s)]
  BY Zenon DEF Init
<1>2. PICK x \in Arrays :
        /\ heap = [y \in Arrays |-> IF y = x THEN Pad(Rows(s)) ELSE Pad(<<>>)]
        /\ published = [Blank EXCEPT !.arr = x, !.len = Len(s)]
  BY <1>1, Zenon
<1> DEFINE t == Rows(s)
<1>3. Len(s) \in Nat /\ Len(s) <= MaxLen /\ mode \in Modes /\ s \in Seq(Accounts)
  BY StoreAssumption DEF Init
<1>4. Len(t) = Len(s)
  BY <1>3 DEF Rows
<1>5. t \in Seq(Cell)
  BY <1>1, ShapeInit DEF Shape, TypeOK
<1> HIDE DEF t
<1>6. heap[x] = Pad(t) /\ published.arr = x /\ published.len = Len(t) /\ published.active = NoAccount
  BY <1>2, <1>4 DEF Blank, t
<1>7. Listing(published, heap) = t
  BY <1>3, <1>4, <1>5, <1>6, PadLists DEF Listing
<1>. QED  BY <1>1, <1>6, <1>7 DEF TableFollows, t

LEMMA TableInvariant == Spec => [](Shape /\ TableFollows)
BY ShapeInit, TableInit, ShapeStep, TableStep, PTL DEF Spec

\* As long as operations follow each other, the table is exactly what is
\* published whenever nothing is under way and the last save did not fail.
THEOREM TableIsCurrent == Spec => []TableCurrent
<1>1. ASSUME Shape, TableFollows PROVE TableCurrent
  <2>1. SUFFICES ASSUME ~Overlapping, Quiet, ~unsaved
                 PROVE  table = [rows |-> Listing(published, heap), active |-> published.active]
    BY DEF TableCurrent
  <2>2. table.rows = Listing(published, heap) /\ table.active = published.active
    BY <1>1, <2>1 DEF TableFollows, Quiet
  <2>3. table = [rows |-> table.rows, active |-> table.active]
    BY <1>1 DEF Shape, TypeOK
  <2>. QED  BY <2>2, <2>3
<1>. QED  BY <1>1, TableInvariant, PTL

\* Whatever the order in which overlapping operations save, the table ends
\* with the accounts that are published.
THEOREM RowsAreCurrent == Spec => []RowsCurrent
<1>1. ASSUME Shape, TableFollows PROVE RowsCurrent
  BY <1>1 DEF TableFollows, RowsCurrent, Quiet
<1>. QED  BY <1>1, TableInvariant, PTL

-----------------------------------------------------------------------------
(* Promises.                                                               *)

LEMMA ActiveCell ==
  ASSUME TypeOK, Slices, NEW d \in Writers, pc[d] = "read", cfg[d].active \in Keys(cfg[d])
  PROVE  LET k == IndexOf(cfg[d], cfg[d].active)
             c == heap[cfg[d].arr][k]
         IN  k \in 1..cfg[d].len /\ c \in Cell /\ c.key \in Accounts /\ c.key = cfg[d].active
<1>1. /\ MaxLen \in Nat /\ cfg[d].len \in 0..MaxLen /\ cfg[d].arr \in Arrays
      /\ Named(heap[cfg[d].arr], cfg[d].len) /\ Almost(heap[cfg[d].arr], cfg[d].len)
  BY StoreAssumption, HeaderIs, DifferIsAlmost DEF Slices
<1> DEFINE k == IndexOf(cfg[d], cfg[d].active)
<1>2. k \in 1..cfg[d].len /\ heap[cfg[d].arr][k].key = cfg[d].active
  BY <1>1, IndexIs
<1> HIDE DEF k
<1>3. heap[cfg[d].arr][k] \in Cell /\ heap[cfg[d].arr][k].key \in Accounts
  BY <1>1, <1>2, HeaderIs DEF Named
<1>. QED  BY <1>2, <1>3 DEF k

\* In turn, no request is using an account that is edited.
LEMMA TaintStep ==
  ASSUME Shape, TaskPlace, ~Overlapping => tainted = {}, [Next]_vars
  PROVE  (~Overlapping => tainted = {})'
<1>. /\ MaxLen \in Nat /\ Admin \in Writers /\ Dispatchers \subseteq Writers
     /\ Admin \notin Dispatchers /\ NoAccount \notin Accounts
  BY StoreAssumption DEF Writers
<1>. HeapType /\ CopyType /\ GhostType /\ TypeOK
  BY TypeParts DEF Shape
<1>. Alone /\ Slices /\ PublishedSlice /\ Copies /\ Stored
  BY DEF Shape
<1>1. CASE Restart
  BY <1>1 DEF Restart, Loaded, disk, ghost, Overlapping
<1>2. ASSUME NEW w \in Writers, Take(w) PROVE (~Overlapping => tainted = {})'
  BY <1>2 DEF Take, Goto, disk, ghost, Overlapping
<1>3. ASSUME NEW w \in Writers, Leave(w) PROVE (~Overlapping => tainted = {})'
  BY <1>3 DEF Leave, Goto, disk, ghost, Overlapping
<1>4. ASSUME NEW d \in Dispatchers, NEW cell \in order, PickCandidate(d, cell)
      PROVE  (~Overlapping => tainted = {})'
  <2>1. ASSUME ~Overlapping PROVE tainted' = tainted
    <3>1. task = NoTask
      BY <1>4, <2>1 DEF PickCandidate, TaskPlace, Alone
    <3>2. cell.key # NoAccount
      BY <1>4 DEF Copies
    <3>. QED  BY <1>4, <3>1, <3>2 DEF PickCandidate, Hold, Pending, NoTask
  <2>. QED  BY <1>4, <2>1 DEF PickCandidate, Overlapping
<1>5. ASSUME NEW d \in Dispatchers, PickActive(d)
      PROVE  (~Overlapping => tainted = {})'
  <2> DEFINE c == heap[cfg[d].arr][IndexOf(cfg[d], cfg[d].active)]
  <2>1. ASSUME ~Overlapping PROVE tainted' = tainted
    <3>1. task = NoTask
      BY <1>5, <2>1 DEF PickActive, TaskPlace, Alone
    <3>2. c.key \in Accounts
      BY <1>5, ActiveCell DEF PickActive
    <3>3. tainted' = IF Pending(c.key) THEN tainted \cup {c.key} ELSE tainted
      BY <1>5 DEF PickActive, Hold
    <3>. QED  BY <3>1, <3>2, <3>3 DEF Pending, NoTask
  <2>. QED  BY <1>5, <2>1 DEF PickActive, Overlapping
<1>6. ASSUME NEW d \in Dispatchers, Record(d) PROVE (~Overlapping => tainted = {})'
  BY <1>6 DEF Record, Goto, disk, ghost, Overlapping
<1>7. ASSUME NEW d \in Dispatchers, RecordActive(d)
      PROVE  (~Overlapping => tainted = {})'
  BY <1>7 DEF RecordActive, Goto, disk, ghost, Overlapping
<1>8. ASSUME NEW d \in Dispatchers, RecordRefreshed(d)
      PROVE  (~Overlapping => tainted = {})'
  BY <1>8 DEF RecordRefreshed, Goto, disk, ghost, Overlapping
<1>9. ASSUME NEW a \in Accounts, NEW off \in BOOLEAN, Edit(a, off)
      PROVE  (~Overlapping => tainted = {})'
  <2>1. ~Overlapping => ~InUse(a)
    BY <1>9 DEF Edit, Alone, InUse
  <2>. QED  BY <1>9, <2>1 DEF Edit, Begin, Overlapping
<1>10. ASSUME NEW a \in Accounts, RejectEdit(a) PROVE (~Overlapping => tainted = {})'
  BY <1>10 DEF RejectEdit, Goto, disk, ghost, Overlapping
<1>11. ASSUME NEW a \in Accounts, Activate(a) PROVE (~Overlapping => tainted = {})'
  BY <1>11 DEF Activate, Goto, disk, ghost, Overlapping
<1>12. ASSUME NEW a \in Accounts, Add(a) PROVE (~Overlapping => tainted = {})'
  <2>1. ~Overlapping => ~InUse(a)
    BY <1>12 DEF Add, Alone, InUse
  <2>. QED  BY <1>12, <2>1 DEF Add, Begin, Overlapping
<1>13. ASSUME NEW a \in Accounts, Remove(a) PROVE (~Overlapping => tainted = {})'
  <2>1. ~Overlapping => ~InUse(a)
    BY <1>13 DEF Remove, Alone, InUse
  <2>. QED  BY <1>13, <2>1 DEF Remove, Begin, Overlapping
<1>14. ASSUME NEW v \in Settings, ChangeSetting(v)
       PROVE  (~Overlapping => tainted = {})'
  BY <1>14 DEF ChangeSetting, Goto, disk, ghost, Overlapping
<1>15. ASSUME NEW w \in Writers, SaveFile(w) PROVE (~Overlapping => tainted = {})'
  BY <1>15 DEF SaveFile, Goto, disk, ghost, Overlapping
<1>16. ASSUME NEW w \in Writers, SaveFileFails(w)
       PROVE  (~Overlapping => tainted = {})'
  BY <1>16 DEF SaveFileFails, End, Goto, disk, ghost, Overlapping
<1>17. ASSUME NEW w \in Writers, Apply(w) PROVE (~Overlapping => tainted = {})'
  BY <1>17 DEF Apply, Goto, disk, ghost, Overlapping
<1>18. ASSUME NEW w \in Writers, SaveTable(w) PROVE (~Overlapping => tainted = {})'
  BY <1>18 DEF SaveTable, Goto, disk, ghost, Overlapping
<1>19. ASSUME NEW w \in Writers, SaveTableFails(w)
       PROVE  (~Overlapping => tainted = {})'
  BY <1>19 DEF SaveTableFails, End, Goto, disk, ghost, Overlapping
<1>20. ASSUME NEW w \in Writers, Reorder(w) PROVE (~Overlapping => tainted = {})'
  BY <1>20 DEF Reorder, End, Goto, disk, ghost, Overlapping
<1>21. CASE UNCHANGED vars
  BY <1>21 DEF vars, disk, ghost, Overlapping
<1>. QED  BY <1>1, <1>2, <1>3, <1>4, <1>5, <1>6, <1>7, <1>8, <1>9, <1>10, <1>11,
          <1>12, <1>13, <1>14, <1>15, <1>16, <1>17, <1>18, <1>19, <1>20, <1>21
     DEF Next, DispatcherStep, AdminStep, SaveStep

\* An operation that leaves the lists alone, and what it does to the lists
\* otherwise: what they say of other accounts stays, ...
LEMMA OverwriteShows ==
  ASSUME TypeOK, NEW w \in Writers, cfg[w].arr # NoArray, NEW k \in 1..cfg[w].len,
         NEW c \in Cell, Overwrites(w, k, c), NEW b, b # c.key, NEW v
  PROVE  \A x \in Arrays, n \in 0..MaxLen : Shows(heap[x], n, b, v) => Shows(heap'[x], n, b, v)
<1>. TAKE x \in Arrays, n \in 0..MaxLen
<1>. HAVE Shows(heap[x], n, b, v)
<1>1. n \in Nat /\ \A i \in 1..n : i \in 1..MaxLen
  BY StoreAssumption
<1>2. \A i \in 1..n : heap'[x][i].key = heap[x][i].key /\ (heap[x][i].key = b => heap'[x][i] = heap[x][i])
  <2>1. heap[cfg[w].arr][k].key = c.key
    BY DEF Overwrites
  <2>. QED  BY <1>1, <2>1, OverwriteKeeps
<1>. QED  BY <1>1, <1>2 DEF Shows

\* ... and of its own account they say what was written.
LEMMA OverwriteShowsOwn ==
  ASSUME TypeOK, NEW w \in Writers, cfg[w].arr # NoArray, NEW k \in 1..cfg[w].len,
         NEW c \in Cell, Overwrites(w, k, c), Differ(heap[cfg[w].arr], cfg[w].len)
  PROVE  Shows(heap'[cfg[w].arr], cfg[w].len, c.key, IF c.disabled THEN "off" ELSE "in")
<1>1. cfg[w].arr \in Arrays /\ cfg[w].len \in 0..MaxLen /\ cfg[w].len \in Nat
  BY StoreAssumption DEF TypeOK, Config
<1>2. heap'[cfg[w].arr][k] = c /\ Differ(heap'[cfg[w].arr], cfg[w].len)
  BY <1>1, OverwriteKeeps, OverwriteSlices
<1>. QED  BY <1>1, <1>2, ShowsItself DEF Cell

LEMMA ExtendShows ==
  ASSUME TypeOK, Slices, NEW w \in Writers, pc[w] # "idle", NEW c \in Cell, NEW x \in Arrays,
         Extends(w, c, x), c.key \notin Keys(cfg[w])
  PROVE  /\ \A b, v : b # c.key /\ Shows(heap[cfg[w].arr], cfg[w].len, b, v) =>
              Shows(heap'[x], cfg[w].len + 1, b, v)
         /\ ~c.disabled => Shows(heap'[x], cfg[w].len + 1, c.key, "in")
         /\ \A v \in Writers : pc[v] # "idle" => cfg[v].len \in Nat
<1> DEFINE n == cfg[w].len
           cells == heap[cfg[w].arr]
           other == heap'[x]
<1>1. n \in Nat /\ \A v \in Writers : pc[v] # "idle" => cfg[v].len \in Nat
  BY HeaderIs, StoreAssumption
<1>2. other[n + 1] = c /\ \A i \in 1..n : other[i] = cells[i]
  BY DEF Extends, ExtendsTo
<1>3. \A i \in 1..n : cells[i].key # c.key
  BY DEF Keys
<1> HIDE DEF n, cells, other
<1>4. \A i \in 1..(n + 1) : i = n + 1 \/ i \in 1..n
  BY <1>1
<1>5. \A i \in 1..n : i \in 1..(n + 1)
  BY <1>1
<1>6. n + 1 \in 1..(n + 1)
  BY <1>1
<1>7. ASSUME NEW b, NEW v, b # c.key, Shows(cells, n, b, v) PROVE Shows(other, n + 1, b, v)
  BY <1>2, <1>4, <1>5, <1>7 DEF Shows
<1>8. ASSUME ~c.disabled PROVE Shows(other, n + 1, c.key, "in")
  <2>1. c.disabled = FALSE /\ ("in" = "off") = FALSE
    BY <1>8 DEF Cell
  <2>2. \A i \in 1..(n + 1) : other[i].key = c.key => other[i] = c
    BY <1>2, <1>3, <1>4
  <2>. QED  BY <1>2, <1>6, <2>1, <2>2 DEF Shows
<1>. QED  BY <1>1, <1>7, <1>8 DEF n, cells, other

LEMMA ShiftShows ==
  ASSUME NEW cells \in [1..MaxLen -> Cell], NEW n \in 1..MaxLen, NEW k \in 1..n,
         Differ(cells, n), Named(cells, n)
  PROVE  /\ \A b, v : b # cells[k].key /\ Shows(cells, n, b, v) =>
              Shows(Shifted(cells, k, n), n, b, v) /\ Shows(Shifted(cells, k, n), n - 1, b, v)
         /\ Shows(Shifted(cells, k, n), n - 1, cells[k].key, "out")
<1> DEFINE s == Shifted(cells, k, n)
<1>1. /\ \A i \in 1..n : \E j \in 1..n : s[i] = cells[j]
      /\ \A j \in (1..n) \ {k} : \E i \in 1..(n - 1) : s[i] = cells[j]
      /\ \A i \in 1..(n - 1) : s[i].key # cells[k].key
  BY ShiftCells DEF Came
<1> HIDE DEF s
<1>2. \A i \in 1..(n - 1) : i \in 1..n
  BY StoreAssumption
<1>3. ASSUME NEW b, NEW v, b # cells[k].key, Shows(cells, n, b, v)
      PROVE  Shows(s, n, b, v) /\ Shows(s, n - 1, b, v)
  <2>1. CASE v \in {"in", "off"}
    <3>1. \A i \in 1..n : s[i].key = b => s[i].disabled = (v = "off")
      BY <1>1, <1>3, <2>1 DEF Shows
    <3>2. PICK j \in 1..n : cells[j].key = b
      BY <1>3, <2>1 DEF Shows
    <3>3. PICK i \in 1..(n - 1) : s[i] = cells[j]
      BY <1>1, <1>3, <3>2
    <3>4. (\E l \in 1..(n - 1) : s[l].key = b) /\ \E l \in 1..n : s[l].key = b
      BY <1>2, <3>2, <3>3
    <3>. QED  BY <1>2, <2>1, <3>1, <3>4 DEF Shows
  <2>2. CASE v = "out"
    <3>1. \A i \in 1..n : s[i].key # b
      BY <1>1, <1>3, <2>2 DEF Shows
    <3>. QED  BY <1>2, <2>2, <3>1 DEF Shows
  <2>3. CASE v \notin {"in", "off", "out"}
    BY <2>3 DEF Shows
  <2>. QED  BY <2>1, <2>2, <2>3
<1>4. Shows(s, n - 1, cells[k].key, "out")
  BY <1>1 DEF Shows
<1>. QED  BY <1>3, <1>4 DEF s

\* Who is out or off is not eligible.
LEMMA EligibleShows ==
  ASSUME TypeOK, NEW h, h.arr \in Arrays, h.len \in 0..MaxLen, NEW b, NEW v \in {"off", "out"},
         Shows(heap[h.arr], h.len, b, v)
  PROVE  \A c \in Eligible(h, heap) : c.key # b
<1>1. CASE v = "off"
  <2>1. \A i \in 1..h.len : heap[h.arr][i].key = b => heap[h.arr][i].disabled
    BY <1>1 DEF Shows
  <2>. QED  BY <2>1, EligibleIs
<1>2. CASE v = "out"
  BY <1>2, EligibleIs DEF Shows
<1>. QED  BY <1>1, <1>2

LEMMA ListingShows ==
  ASSUME TypeOK, NEW h, h.arr \in Arrays, h.len \in 0..MaxLen, NEW b, NEW v,
         Shows(heap[h.arr], h.len, b, v)
  PROVE  Shows(Listing(h, heap), Len(Listing(h, heap)), b, v)
<1>1. heap[h.arr] \in [1..MaxLen -> Cell] /\ h.len \in Nat
  BY StoreAssumption DEF TypeOK
<1>2. Len(Listing(h, heap)) = h.len /\ \A i \in 1..h.len : Listing(h, heap)[i] = heap[h.arr][i]
  BY <1>1, ListingIs DEF Listing
<1>. QED  BY <1>1, <1>2, ShowsSame

-----------------------------------------------------------------------------
(* Each account.                                                           *)

\* A request overwrites its account with a copy that agrees with what the
\* administrator was told of it.
LEMMA RequestWrites ==
  ASSUME Shape, TaskPlace, Truthful, NEW d \in Dispatchers, pc[d] = "running",
         NEW k \in 1..cfg[d].len, Overwrites(d, k, mine[d]),
         pc' = [pc EXCEPT ![d] = "save"],
         \A v \in Writers : cfg'[v].arr = cfg[v].arr /\ cfg'[v].len = cfg[v].len,
         UNCHANGED <<published, order, table, mine, task, promise, tainted>>,
         NEW b \in Accounts \ tainted
  PROVE  Truth(b)'
<1>. /\ MaxLen \in Nat /\ Admin \in Writers /\ Dispatchers \subseteq Writers
     /\ Admin \notin Dispatchers /\ NoAccount \notin Accounts
  BY StoreAssumption DEF Writers
<1>. HeapType /\ CopyType /\ GhostType /\ TypeOK
  BY TypeParts DEF Shape
<1>. Alone /\ Slices /\ PublishedSlice /\ Copies /\ Stored
  BY DEF Shape
<1>. Everywhere(b) /\ OnItsWay(b)
  BY DEF Truthful, Truth
<1>1. d \in Writers /\ cfg[d].arr # NoArray /\ mine[d] \in Cell
  BY DEF Slices, CopyType
<1>2. \A v \in Writers : pc'[v] # "idle" => pc[v] # "idle"
  BY DEF HeapType
<1>3. cfg[d].arr = published.arr /\ cfg[d].len = published.len
  BY <1>1 DEF Slices, Saving
<1>4. \A v \in Writers : pc[v] # "idle" => cfg[v].arr \in Arrays /\ cfg[v].len \in 0..MaxLen
  BY HeaderIs
<1>5. published.arr \in Arrays /\ published.len \in 0..MaxLen
  BY HeaderIs
<1>6. CASE b # mine[d].key
  <2>1. \A x \in Arrays, n \in 0..MaxLen, v \in {"in", "off", "out", "?"} :
           Shows(heap[x], n, b, v) => Shows(heap'[x], n, b, v)
    BY <1>1, <1>6, OverwriteShows
  <2>2. task.want \in {"in", "off", "out", "?"} /\ (Told(b) => promise[b] \in {"in", "off", "out", "?"})
    BY DEF GhostType, Told
  <2>3. Everywhere(b)'
    BY <1>2, <1>4, <1>5, <2>1, <2>2 DEF Everywhere, Told, HeapType
  <2>4. OnItsWay(b)'
    <3>1. task.account = b => pc[Admin] # "idle" /\ pc'[Admin] = pc[Admin]
      BY DEF TaskPlace, NoTask, HeapType
    <3>. QED  BY <1>4, <2>1, <2>2, <3>1 DEF OnItsWay, HeapType
  <2>. QED  BY <2>3, <2>4 DEF Truth
<1>7. CASE b = mine[d].key
  <2> DEFINE bit == IF mine[d].disabled THEN "off" ELSE "in"
  <2>1. Shows(heap'[cfg[d].arr], cfg[d].len, b, bit)
    BY <1>1, <1>7, OverwriteShowsOwn DEF Slices
  <2>2. task.account # b
    BY <1>7 DEF OnItsWay
  <2>3. Told(b) => promise[b] = bit
    BY <1>7 DEF Everywhere
  <2> HIDE DEF bit
  <2>4. \A v \in Writers : pc[v] # "idle" => cfg[v].arr = published.arr /\ cfg[v].len = published.len
    BY <1>1, <1>3 DEF Slices, Alone
  <2>5. Everywhere(b)'
    BY <1>2, <1>3, <2>1, <2>3, <2>4 DEF Everywhere, Told, HeapType
  <2>6. OnItsWay(b)'
    BY <2>2 DEF OnItsWay
  <2>. QED  BY <2>5, <2>6 DEF Truth
<1>. QED  BY <1>6, <1>7

\* What is published does not change when a writer adds a cell to its copy.
LEMMA PublishedUntouched ==
  ASSUME TypeOK, Slices, NEW w \in Writers, pc[w] \notin Saving \cup {"idle"},
         NEW c, NEW x \in Arrays, Extends(w, c, x), NEW b, NEW v,
         Shows(heap[published.arr], published.len, b, v)
  PROVE  Shows(heap'[published.arr], published.len, b, v)
<1>1. cfg[w].len = published.len /\ cfg[w].arr = published.arr
  BY DEF Slices
<1>2. /\ MaxLen \in Nat /\ published.len \in 0..MaxLen /\ published.len \in Nat
      /\ published.arr \in Referenced
  BY HeaderIs, StoreAssumption DEF Referenced
<1>3. \A i \in 1..published.len : i \in 1..MaxLen /\ i # published.len + 1
  BY <1>2
<1>4. \A i \in 1..published.len : heap'[published.arr][i] = heap[published.arr][i]
  BY <1>1, <1>2, <1>3 DEF Extends, ExtendsTo
<1>. QED  BY <1>2, <1>4, ShowsSame

\* The administrator's step leaves what is said of b.
Spared(b) ==
  \A v : Shows(heap[published.arr], published.len, b, v) =>
           /\ Shows(heap'[published.arr], published.len, b, v)
           /\ Shows(heap'[cfg'[Admin].arr], cfg'[Admin].len, b, v)

\* An administrator's request about an account, alone, leaves what the lists
\* say of all others.
LEMMA AdminWrites ==
  ASSUME Shape, TaskPlace, Truthful, NEW a \in Accounts, NEW want \in {"in", "off", "out"},
         pc[Admin] = "read", cfg[Admin].arr = published.arr, cfg[Admin].len = published.len,
         pc' = [pc EXCEPT ![Admin] = "save"],
         promise' = [promise EXCEPT ![a] = "?"],
         task' = [NoTask EXCEPT !.account = a, !.want = want],
         tainted' = IF InUse(a) THEN tainted \cup {a} ELSE tainted \ {a},
         UNCHANGED <<published, order, table, mine>>,
         \A v \in Writers : pc'[v] # "idle" => v = Admin,
         \A d \in Dispatchers : pc'[d] # "running",
         NEW b \in Accounts \ tainted',
         b # a => Spared(b),
         Shows(heap'[cfg'[Admin].arr], cfg'[Admin].len, a, want)
  PROVE  Truth(b)'
<1>. /\ MaxLen \in Nat /\ Admin \in Writers /\ Dispatchers \subseteq Writers
     /\ Admin \notin Dispatchers /\ NoAccount \notin Accounts
  BY StoreAssumption DEF Writers
<1>. HeapType /\ CopyType /\ GhostType /\ TypeOK
  BY TypeParts DEF Shape
<1>. Alone /\ Slices /\ PublishedSlice /\ Copies /\ Stored
  BY DEF Shape
<1>. b \notin tainted => Everywhere(b) /\ OnItsWay(b)
  BY DEF Truthful, Truth
<1>1. task'.account = a /\ task'.want = want /\ pc'[Admin] = "save"
  BY DEF NoTask, HeapType
<1>2. OnItsWay(b)'
  BY <1>1 DEF OnItsWay, GhostType
<1>3. CASE b = a
  <2>1. ~Told(b)'
    BY <1>3 DEF Told, GhostType
  <2>. QED  BY <1>2, <2>1 DEF Truth, Everywhere
<1>4. CASE b # a
  <2>1. promise'[b] = promise[b] /\ b \notin tainted
    BY <1>4 DEF GhostType
  <2>2. Everywhere(b)'
    BY <1>4, <2>1 DEF Everywhere, Told, Spared
  <2>. QED  BY <1>2, <2>2 DEF Truth
<1>. QED  BY <1>3, <1>4

LEMMA TruthStep ==
  ASSUME Shape, TaskPlace, Truthful, [Next]_vars, NEW b \in Accounts \ tainted'
  PROVE  Truth(b)'
<1>. /\ MaxLen \in Nat /\ Admin \in Writers /\ Dispatchers \subseteq Writers
     /\ Admin \notin Dispatchers /\ NoAccount \notin Accounts
  BY StoreAssumption DEF Writers
<1>. HeapType /\ CopyType /\ GhostType /\ TypeOK
  BY TypeParts DEF Shape
<1>. Alone /\ Slices /\ PublishedSlice /\ Copies /\ Stored
  BY DEF Shape
<1>. b \notin tainted => Everywhere(b) /\ OnItsWay(b)
  BY DEF Truthful, Truth
<1>1. CASE Restart
  <2> DEFINE s == Loaded
  <2>1. s \in Seq(Cell) /\ Len(s) <= MaxLen /\ Len(s) \in Nat
    BY LoadedIs
  <2>2. /\ heap' = [x \in Arrays |-> IF x = published.arr THEN Pad(s) ELSE Pad(<<>>)]
        /\ order' = {s[i] : i \in {j \in 1..Len(s) : ~s[j].disabled}}
        /\ pc' = [w \in Writers |-> "idle"] /\ task' = NoTask /\ tainted' = tainted /\ table'.rows = s
    BY <1>1 DEF Restart
  <2>3. published'.arr = published.arr /\ published'.len = Len(s)
    BY <1>1 DEF Restart, HeapType, Config
  <2>4. /\ promise'[b] = IF promise[b] = "out" /\ table.rows = <<>> /\ \E i \in 1..Len(s) : s[i].key = b
                         THEN "revived" ELSE promise[b]
    BY <1>1 DEF Restart, GhostType
  <2>5. ASSUME Told(b)' PROVE Shows(s, Len(s), b, promise'[b])
    <3>1. promise'[b] = promise[b] /\ Told(b)
      BY <2>4, <2>5 DEF Told
    <3>2. Shows(table.rows, Len(table.rows), b, promise[b])
      BY <2>2, <3>1 DEF Everywhere
    <3>3. CASE table.rows # <<>>
      BY <3>1, <3>2, <3>3 DEF Loaded
    <3>4. CASE table.rows = <<>>
      <4>1. promise[b] = "out"
        BY <3>1, <3>2, <3>4 DEF Shows, Told
      <4>. QED  BY <2>4, <3>1, <3>4, <4>1 DEF Shows
    <3>. QED  BY <3>3, <3>4
  <2> HIDE DEF s
  <2>6. \A i \in 1..Len(s) : heap'[published.arr][i] = s[i] /\ s[i] \in Cell
    BY <2>1, <2>2, HeaderIs, PadIs
  <2>7. Told(b)' => Shows(heap'[published.arr], Len(s), b, promise'[b])
    BY <2>1, <2>5, <2>6, ShowsSame
  <2>8. ASSUME Told(b)', promise'[b] # "in", NEW c \in order' PROVE c.key # b
    <3>1. PICK i \in 1..Len(s) : c = s[i] /\ ~s[i].disabled
      BY <2>2
    <3>2. Shows(s, Len(s), b, "off") \/ Shows(s, Len(s), b, "out")
      BY <2>5, <2>8 DEF Told
    <3>3. CASE Shows(s, Len(s), b, "out")
      BY <3>1, <3>3 DEF Shows
    <3>4. CASE Shows(s, Len(s), b, "off")
      <4>1. \A j \in 1..Len(s) : s[j].key = b => s[j].disabled
        BY <3>4 DEF Shows
      <4>. QED  BY <3>1, <4>1
    <3>. QED  BY <3>2, <3>3, <3>4
  <2>9. Everywhere(b)'
    BY <2>2, <2>3, <2>5, <2>7, <2>8 DEF Everywhere, Told
  <2>10. OnItsWay(b)'
    BY <2>2 DEF OnItsWay, NoTask
  <2>. QED  BY <2>9, <2>10 DEF Truth
<1>2. ASSUME NEW w \in Writers, Take(w) PROVE Truth(b)'
  <2>1. /\ cfg' = [cfg EXCEPT ![w] = published] /\ pc' = [pc EXCEPT ![w] = "read"] /\ pc[w] = "idle"
        /\ UNCHANGED <<heap, published, order, table, mine, task, promise, tainted>>
    BY <1>2 DEF Take, Goto, disk, ghost
  <2>2. Everywhere(b)'
    BY <2>1 DEF Everywhere, Told, HeapType
  <2>3. OnItsWay(b)'
    BY <2>1 DEF OnItsWay, TaskPlace, NoTask, HeapType
  <2>. QED  BY <2>2, <2>3 DEF Truth
<1>3. ASSUME NEW w \in Writers, Leave(w) PROVE Truth(b)'
  <2>1. /\ cfg' = [cfg EXCEPT ![w] = Blank] /\ pc' = [pc EXCEPT ![w] = "idle"] /\ pc[w] = "read"
        /\ UNCHANGED <<heap, published, order, table, mine, task, promise, tainted>>
    BY <1>3 DEF Leave, Goto, disk, ghost
  <2>2. Everywhere(b)'
    BY <2>1 DEF Everywhere, Told, HeapType
  <2>3. OnItsWay(b)'
    BY <2>1 DEF OnItsWay, TaskPlace, NoTask, HeapType
  <2>. QED  BY <2>2, <2>3 DEF Truth
<1>4. ASSUME NEW d \in Dispatchers, NEW cell \in order, PickCandidate(d, cell)
      PROVE  Truth(b)'
  <2>1. /\ mine' = [mine EXCEPT ![d] = cell] /\ pc' = [pc EXCEPT ![d] = "running"] /\ pc[d] = "read"
        /\ tainted' = (IF task.account = cell.key THEN tainted \cup {cell.key} ELSE tainted)
        /\ UNCHANGED <<heap, published, order, table, cfg, task, promise>>
    BY <1>4 DEF PickCandidate, Hold, Pending, Goto, disk
  <2>2. b \notin tainted /\ (task.account = b => cell.key # b)
    BY <2>1
  <2>3. cell \in order /\ ~cell.disabled
    BY DEF Copies
  <2>4. Told(b) /\ cell.key = b => promise[b] = (IF cell.disabled THEN "off" ELSE "in")
    BY <2>2, <2>3 DEF Everywhere
  <2>5. Everywhere(b)'
    BY <2>1, <2>2, <2>4 DEF Everywhere, Told, HeapType, CopyType
  <2>6. OnItsWay(b)'
    BY <2>1, <2>2 DEF OnItsWay, HeapType, CopyType
  <2>. QED  BY <2>5, <2>6 DEF Truth
<1>5. ASSUME NEW d \in Dispatchers, PickActive(d) PROVE Truth(b)'
  <2> DEFINE k == IndexOf(cfg[d], cfg[d].active)
             c == heap[cfg[d].arr][k]
  <2>0. /\ k \in 1..cfg[d].len /\ c \in Cell
        /\ pc[d] = "read" /\ Hold(d, c)
        /\ UNCHANGED <<heap, published, order, table, cfg, task, promise>>
    BY <1>5, ActiveCell DEF PickActive, disk
  <2> HIDE DEF k
  <2>1. /\ mine' = [mine EXCEPT ![d] = c] /\ pc' = [pc EXCEPT ![d] = "running"] /\ pc[d] = "read"
        /\ tainted' = (IF task.account = c.key THEN tainted \cup {c.key} ELSE tainted)
        /\ UNCHANGED <<heap, published, order, table, cfg, task, promise>>
    BY <2>0 DEF Hold, Pending, Goto
  <2>2. b \notin tainted /\ (task.account = b => c.key # b)
    BY <2>1
  <2>4. Told(b) /\ c.key = b => promise[b] = (IF c.disabled THEN "off" ELSE "in")
    <3>1. SUFFICES ASSUME Told(b), c.key = b PROVE promise[b] = (IF c.disabled THEN "off" ELSE "in")
      OBVIOUS
    <3>2. Shows(heap[cfg[d].arr], cfg[d].len, b, promise[b]) /\ promise[b] \in {"in", "off", "out"}
      BY <2>0, <2>2, <3>1 DEF Everywhere, Told
    <3>3. c.disabled \in BOOLEAN
      BY <2>0 DEF Cell
    <3>. QED  BY <2>0, <3>1, <3>2, <3>3 DEF Shows
  <2>5. Everywhere(b)'
    BY <2>1, <2>2, <2>4 DEF Everywhere, Told, HeapType, CopyType
  <2>6. OnItsWay(b)'
    BY <2>1, <2>2 DEF OnItsWay, HeapType, CopyType
  <2>. QED  BY <2>5, <2>6 DEF Truth
<1>6. ASSUME NEW d \in Dispatchers, Record(d) PROVE Truth(b)'
  <2>1. pc[d] = "running" /\ mine[d] \in Cell /\ Upsert(d, mine[d])
    BY <1>6 DEF Record, CopyType
  <2>2. /\ pc' = [pc EXCEPT ![d] = "save"]
        /\ UNCHANGED <<published, order, table, mine, task, promise, tainted>>
    BY <1>6 DEF Record, Goto, disk, ghost
  <2>3. CASE cfg' = cfg /\ \E k \in 1..cfg[d].len : Overwrites(d, k, mine[d])
    BY <2>1, <2>2, <2>3, RequestWrites
  <2>4. CASE mine[d].key \notin Keys(cfg[d]) /\ \E x \in Arrays : Extends(d, mine[d], x)
    <3>1. PICK x \in Arrays : Extends(d, mine[d], x)
      BY <2>4
    <3>2. ~Overlapping
      BY <2>1, <2>4, SameSliceKeys DEF Copies, Slices, Saving
    <3>3. \A v \in Writers : pc[v] # "idle" => v = d
      BY <2>1, <3>2 DEF Alone
    <3>4. task = NoTask
      BY <2>1, <3>3 DEF TaskPlace
    <3>5. /\ \A v : b # mine[d].key /\ Shows(heap[cfg[d].arr], cfg[d].len, b, v) =>
               Shows(heap'[x], cfg[d].len + 1, b, v)
          /\ cfg' = [cfg EXCEPT ![d].arr = x, ![d].len = cfg[d].len + 1]
      BY <2>1, <2>4, <3>1, ExtendShows DEF Extends, ExtendsTo
    <3>6. \A v : Shows(heap[published.arr], published.len, b, v) => Shows(heap'[published.arr], published.len, b, v)
      BY <2>1, <3>1, PublishedUntouched DEF Saving
    <3>7. Told(b) => b # mine[d].key
      <4>1. SUFFICES ASSUME Told(b), b = mine[d].key PROVE FALSE
        OBVIOUS
      <4>2. Shows(heap[cfg[d].arr], cfg[d].len, b, promise[b]) /\ promise[b] \in {"in", "off"}
        BY <2>1, <2>2, <4>1 DEF Everywhere
      <4>. QED  BY <2>4, <4>1, <4>2 DEF Shows, Keys
    <3>8. cfg'[d].arr = x /\ cfg'[d].len = cfg[d].len + 1
      BY <3>5 DEF HeapType, Config
    <3>9. \A v \in Writers : pc'[v] # "idle" => v = d
      BY <2>2, <3>3 DEF HeapType
    <3>10. Everywhere(b)'
      BY <2>1, <2>2, <3>5, <3>6, <3>7, <3>8, <3>9 DEF Everywhere, Told, HeapType
    <3>11. OnItsWay(b)'
      BY <2>2, <3>4 DEF OnItsWay, NoTask
    <3>. QED  BY <3>10, <3>11 DEF Truth
  <2>. QED  BY <2>1, <2>3, <2>4, UpsertEffect
<1>7. ASSUME NEW d \in Dispatchers, RecordActive(d) PROVE Truth(b)'
  <2>1. PICK k \in 1..cfg[d].len : Overwrites(d, k, mine[d])
    BY <1>7, UpdateOverwrites DEF RecordActive, CopyType
  <2>2. /\ pc' = [pc EXCEPT ![d] = "save"] /\ pc[d] = "running"
        /\ \A v \in Writers : cfg'[v].arr = cfg[v].arr /\ cfg'[v].len = cfg[v].len
        /\ UNCHANGED <<published, order, table, mine, task, promise, tainted>>
    BY <1>7 DEF RecordActive, Goto, disk, ghost, HeapType, Config
  <2>. QED  BY <2>1, <2>2, RequestWrites
<1>8. ASSUME NEW d \in Dispatchers, RecordRefreshed(d) PROVE Truth(b)'
  <2>1. PICK k \in 1..cfg[d].len : Overwrites(d, k, mine[d])
    BY <1>8, UpdateOverwrites DEF RecordRefreshed, CopyType
  <2>2. /\ pc' = [pc EXCEPT ![d] = "save"] /\ pc[d] = "running"
        /\ \A v \in Writers : cfg'[v].arr = cfg[v].arr /\ cfg'[v].len = cfg[v].len
        /\ UNCHANGED <<published, order, table, mine, task, promise, tainted>>
    BY <1>8 DEF RecordRefreshed, Goto, disk, ghost, HeapType, Config
  <2>. QED  BY <2>1, <2>2, RequestWrites
<1>9. ASSUME NEW a \in Accounts, NEW off \in BOOLEAN, Edit(a, off) PROVE Truth(b)'
  <2>1. PICK k \in 1..cfg[Admin].len : Overwrites(Admin, k, [key |-> a, disabled |-> off])
    BY <1>9, SwitchOverwrites DEF Edit
  <2>2. /\ pc[Admin] = "read" /\ pc' = [pc EXCEPT ![Admin] = "save"]
        /\ promise' = [promise EXCEPT ![a] = "?"]
        /\ UNCHANGED <<published, order, table, mine>>
    BY <1>9 DEF Edit, Begin, Goto, disk
  <2>3. cfg[Admin].arr # NoArray /\ [key |-> a, disabled |-> off] \in Cell
    BY <2>2 DEF Slices, Cell
  <2>4. \A v \in Writers : pc'[v] # "idle" => /\ pc[v] # "idle"
                                             /\ cfg'[v].arr = cfg[v].arr /\ cfg'[v].len = cfg[v].len
    BY <1>9 DEF Edit, Begin, Goto, HeapType, Config
  <2>5. \A v \in Writers : pc[v] # "idle" => cfg[v].arr \in Arrays /\ cfg[v].len \in 0..MaxLen
    BY HeaderIs
  <2>6. published.arr \in Arrays /\ published.len \in 0..MaxLen
    BY HeaderIs
  <2>7. CASE b # a
    <3>1. b \notin tainted
      BY <1>9, <2>7 DEF Edit, Begin
    <3>2. \A x \in Arrays, n \in 0..MaxLen, v \in {"in", "off", "out"} :
             Shows(heap[x], n, b, v) => Shows(heap'[x], n, b, v)
      BY <2>1, <2>3, <2>7, OverwriteShows
    <3>3. promise'[b] = promise[b] /\ \A d \in Dispatchers : pc'[d] = pc[d]
      BY <2>2, <2>7 DEF HeapType, GhostType
    <3>4. Everywhere(b)'
      BY <2>2, <2>4, <2>5, <2>6, <3>1, <3>2, <3>3 DEF Everywhere, Told
    <3>5. OnItsWay(b)'
      BY <1>9, <2>2, <2>7 DEF Edit, Begin, OnItsWay, TaskPlace, NoTask
    <3>. QED  BY <3>4, <3>5 DEF Truth
  <2>8. CASE b = a
    <3>1. Everywhere(b)'
      BY <2>2, <2>8 DEF Everywhere, Told, GhostType
    <3>2. Shows(heap'[cfg[Admin].arr], cfg[Admin].len, a, IF off THEN "off" ELSE "in")
      BY <2>1, <2>2, <2>3, OverwriteShowsOwn DEF Slices
    <3>3. ~InUse(a)
      BY <1>9, <2>8 DEF Edit, Begin
    <3>4. /\ cfg'[Admin].arr = cfg[Admin].arr /\ cfg'[Admin].len = cfg[Admin].len
          /\ task'.want = (IF off THEN "off" ELSE "in") /\ promise'[a] = "?" /\ pc'[Admin] = "save"
      BY <1>9, <2>2, <2>4 DEF Edit, Begin, NoTask, HeapType, GhostType
    <3>5. \A d \in Dispatchers : pc'[d] = "running" => mine'[d].key # a
      BY <2>2, <3>3 DEF InUse, HeapType
    <3>6. OnItsWay(b)'
      BY <2>8, <3>2, <3>4, <3>5 DEF OnItsWay
    <3>. QED  BY <3>1, <3>6 DEF Truth
  <2>. QED  BY <2>7, <2>8
<1>10. ASSUME NEW a \in Accounts, RejectEdit(a) PROVE Truth(b)'
  <2>1. PICK k \in 1..cfg[Admin].len : Overwrites(Admin, k, [key |-> a, disabled |-> FALSE])
    BY <1>10, SwitchOverwrites DEF RejectEdit
  <2>2. /\ pc[Admin] = "read" /\ pc' = [pc EXCEPT ![Admin] = "idle"]
        /\ promise' = [promise EXCEPT ![a] = "?"]
        /\ UNCHANGED <<published, order, table, mine>>
    BY <1>10 DEF RejectEdit, Begin, Goto, disk
  <2>3. cfg[Admin].arr # NoArray /\ [key |-> a, disabled |-> FALSE] \in Cell
    BY <2>2 DEF Slices, Cell
  <2>4. \A v \in Writers : pc'[v] # "idle" => /\ pc[v] # "idle"
                                             /\ cfg'[v].arr = cfg[v].arr /\ cfg'[v].len = cfg[v].len
    BY <1>10 DEF RejectEdit, Begin, Goto, HeapType, Config
  <2>5. \A v \in Writers : pc[v] # "idle" => cfg[v].arr \in Arrays /\ cfg[v].len \in 0..MaxLen
    BY HeaderIs
  <2>6. published.arr \in Arrays /\ published.len \in 0..MaxLen
    BY HeaderIs
  <2>7. CASE b # a
    <3>1. b \notin tainted
      BY <1>10, <2>7 DEF RejectEdit, Begin
    <3>2. \A x \in Arrays, n \in 0..MaxLen, v \in {"in", "off", "out"} :
             Shows(heap[x], n, b, v) => Shows(heap'[x], n, b, v)
      BY <2>1, <2>3, <2>7, OverwriteShows
    <3>3. promise'[b] = promise[b] /\ \A d \in Dispatchers : pc'[d] = pc[d]
      BY <2>2, <2>7 DEF HeapType, GhostType
    <3>4. Everywhere(b)'
      BY <2>2, <2>4, <2>5, <2>6, <3>1, <3>2, <3>3 DEF Everywhere, Told
    <3>5. OnItsWay(b)'
      BY <1>10, <2>2, <2>7 DEF RejectEdit, Begin, OnItsWay, TaskPlace, NoTask
    <3>. QED  BY <3>4, <3>5 DEF Truth
  <2>8. CASE b = a
    <3>1. Everywhere(b)'
      BY <2>2, <2>8 DEF Everywhere, Told, GhostType
    <3>2. OnItsWay(b)'
      BY <1>10, <2>2 DEF RejectEdit, OnItsWay, TaskPlace, NoTask
    <3>. QED  BY <3>1, <3>2 DEF Truth
  <2>. QED  BY <2>7, <2>8
<1>11. ASSUME NEW a \in Accounts, Activate(a) PROVE Truth(b)'
  <2>1. /\ \A v \in Writers : cfg'[v].arr = cfg[v].arr /\ cfg'[v].len = cfg[v].len
        /\ pc' = [pc EXCEPT ![Admin] = "save"] /\ pc[Admin] = "read"
        /\ UNCHANGED <<heap, published, order, table, mine, task, promise, tainted>>
    BY <1>11 DEF Activate, Goto, disk, ghost, HeapType, Config
  <2>2. Everywhere(b)'
    BY <2>1 DEF Everywhere, Told, HeapType
  <2>3. OnItsWay(b)'
    BY <2>1 DEF OnItsWay, TaskPlace, NoTask, HeapType
  <2>. QED  BY <2>2, <2>3 DEF Truth
<1>12. ASSUME NEW a \in Accounts, Add(a) PROVE Truth(b)'
  <2>1. /\ pc[Admin] = "read" /\ Enabled(a) \in Cell /\ Enabled(a).key = a /\ Enabled(a).disabled = FALSE
        /\ Upsert(Admin, Enabled(a)) /\ ~Overlapping
    BY <1>12 DEF Add, Enabled, Cell, Structural, Overlapping
  <2>2. /\ pc' = [pc EXCEPT ![Admin] = "save"]
        /\ promise' = [promise EXCEPT ![a] = "?"]
        /\ task' = [NoTask EXCEPT !.account = a, !.want = "in"]
        /\ tainted' = (IF InUse(a) THEN tainted \cup {a} ELSE tainted \ {a})
        /\ UNCHANGED <<published, order, table, mine>>
    BY <1>12 DEF Add, Begin, Goto, disk
  <2>3. \A v \in Writers : pc[v] # "idle" => v = Admin
    BY <2>1 DEF Alone
  <2>4. cfg[Admin].arr = published.arr /\ cfg[Admin].len = published.len /\ published.arr \in Arrays
        /\ published.len \in 0..MaxLen /\ cfg[Admin].arr # NoArray
    BY <2>1, HeaderIs DEF Slices, Saving
  <2>5. /\ \A v \in Writers : pc'[v] # "idle" => v = Admin
        /\ \A d \in Dispatchers : pc'[d] # "running" /\ pc[d] # "running"
    BY <2>2, <2>3 DEF HeapType
  <2>6. /\ b # a => Spared(b)
        /\ Shows(heap'[cfg'[Admin].arr], cfg'[Admin].len, a, "in")
    <3>1. CASE cfg' = cfg /\ \E k \in 1..cfg[Admin].len : Overwrites(Admin, k, Enabled(a))
      <4>1. PICK k \in 1..cfg[Admin].len : Overwrites(Admin, k, Enabled(a))
        BY <3>1
      <4>2. ASSUME b # a, NEW v PROVE Shows(heap[published.arr], published.len, b, v) =>
                                        Shows(heap'[published.arr], published.len, b, v)
        BY <2>1, <2>4, <4>1, <4>2, OverwriteShows
      <4>3. Shows(heap'[cfg[Admin].arr], cfg[Admin].len, a, "in")
        BY <2>1, <2>4, <4>1, OverwriteShowsOwn DEF Slices
      <4>. QED  BY <2>4, <3>1, <4>2, <4>3 DEF Spared
    <3>2. CASE a \notin Keys(cfg[Admin]) /\ \E x \in Arrays : Extends(Admin, Enabled(a), x)
      <4>1. PICK x \in Arrays : Extends(Admin, Enabled(a), x)
        BY <3>2
      <4>2. cfg'[Admin].arr = x /\ cfg'[Admin].len = cfg[Admin].len + 1
        BY <4>1 DEF Extends, ExtendsTo, HeapType, Config
      <4>3. /\ \A e, v : e # a /\ Shows(heap[cfg[Admin].arr], cfg[Admin].len, e, v) =>
                  Shows(heap'[x], cfg[Admin].len + 1, e, v)
            /\ Shows(heap'[x], cfg[Admin].len + 1, a, "in")
        BY <2>1, <3>2, <4>1, ExtendShows
      <4>4. \A v : Shows(heap[published.arr], published.len, b, v) => Shows(heap'[published.arr], published.len, b, v)
        BY <2>1, <4>1, PublishedUntouched DEF Saving
      <4>. QED  BY <2>4, <4>2, <4>3, <4>4 DEF Spared
    <3>. QED  BY <2>1, <3>1, <3>2, UpsertEffect
  <2>7. pc[Admin] = "read" /\ "in" \in {"in", "off", "out"}
    BY <2>1
  <2>8. \A d \in Dispatchers : pc'[d] # "running"
    BY <2>5
  <2>. QED  BY <2>2, <2>4, <2>5, <2>6, <2>7, <2>8, AdminWrites, Zenon
<1>13. ASSUME NEW a \in Accounts, Remove(a) PROVE Truth(b)'
  <2> DEFINE h == cfg[Admin]
  <2>1. /\ pc[Admin] = "read" /\ ~Overlapping
        /\ cfg' = [cfg EXCEPT ![Admin].len = @ - 1, ![Admin].active = IF @ = a THEN NoAccount ELSE @]
    BY <1>13, RemoveEffect
  <2>2. PICK k \in 1..h.len : /\ heap[h.arr][k].key = a
                             /\ heap' = [heap EXCEPT ![h.arr] = Shifted(heap[h.arr], k, h.len)]
    BY <1>13, RemoveEffect
  <2>3. h.arr \in Arrays /\ h.len \in 1..MaxLen /\ h = published
    BY <2>1, <2>2, HeaderIs DEF Alone, Saving
  <2>4. heap'[h.arr] = Shifted(heap[h.arr], k, h.len) /\ heap[h.arr] \in [1..MaxLen -> Cell]
    BY <2>2, <2>3 DEF HeapType
  <2>5. /\ \A e, v : e # a /\ Shows(heap[h.arr], h.len, e, v) =>
              Shows(heap'[h.arr], h.len, e, v) /\ Shows(heap'[h.arr], h.len - 1, e, v)
        /\ Shows(heap'[h.arr], h.len - 1, a, "out")
    <3>1. Differ(heap[h.arr], h.len) /\ Named(heap[h.arr], h.len)
      BY <2>1 DEF Slices
    <3>2. /\ \A e, v : e # heap[h.arr][k].key /\ Shows(heap[h.arr], h.len, e, v) =>
                /\ Shows(Shifted(heap[h.arr], k, h.len), h.len, e, v)
                /\ Shows(Shifted(heap[h.arr], k, h.len), h.len - 1, e, v)
          /\ Shows(Shifted(heap[h.arr], k, h.len), h.len - 1, heap[h.arr][k].key, "out")
      <4> HIDE DEF h
      <4>. QED  BY <2>2, <2>3, <2>4, <3>1, ShiftShows
    <3>. QED  BY <2>2, <2>4, <3>2, Zenon
  <2>6. cfg'[Admin].arr = h.arr /\ cfg'[Admin].len = h.len - 1
    BY <2>1 DEF HeapType, Config
  <2>7. /\ pc' = [pc EXCEPT ![Admin] = "save"]
        /\ promise' = [promise EXCEPT ![a] = "?"]
        /\ task' = [NoTask EXCEPT !.account = a, !.want = "out"]
        /\ tainted' = (IF InUse(a) THEN tainted \cup {a} ELSE tainted \ {a})
        /\ UNCHANGED <<published, order, table, mine>>
    BY <1>13 DEF Remove, Begin, Goto, disk
  <2>8. \A v \in Writers : pc[v] # "idle" => v = Admin
    BY <2>1 DEF Alone
  <2>9. /\ \A v \in Writers : pc'[v] # "idle" => v = Admin
        /\ \A d \in Dispatchers : pc'[d] # "running" /\ pc[d] # "running"
    BY <2>7, <2>8 DEF HeapType
  <2>10. b # a => Spared(b)
    BY <2>3, <2>5, <2>6 DEF Spared
  <2>11. /\ Shows(heap'[cfg'[Admin].arr], cfg'[Admin].len, a, "out") /\ "out" \in {"in", "off", "out"}
         /\ cfg[Admin].arr = published.arr /\ cfg[Admin].len = published.len
    BY <2>3, <2>5, <2>6
  <2>12. pc[Admin] = "read" /\ \A d \in Dispatchers : pc'[d] # "running"
    BY <2>1, <2>9
  <2>. QED  BY <2>7, <2>9, <2>10, <2>11, <2>12, AdminWrites, Zenon
<1>14. ASSUME NEW v \in Settings, ChangeSetting(v) PROVE Truth(b)'
  <2>1. /\ \A u \in Writers : cfg'[u].arr = cfg[u].arr /\ cfg'[u].len = cfg[u].len
        /\ pc' = [pc EXCEPT ![Admin] = "save"] /\ pc[Admin] = "read" /\ task'.account = NoAccount
        /\ UNCHANGED <<heap, published, order, table, mine, promise, tainted>>
    BY <1>14 DEF ChangeSetting, Goto, disk, HeapType, Config, NoTask
  <2>2. Everywhere(b)'
    BY <2>1 DEF Everywhere, Told, HeapType
  <2>3. OnItsWay(b)'
    BY <2>1 DEF OnItsWay
  <2>. QED  BY <2>2, <2>3 DEF Truth
<1>15. ASSUME NEW w \in Writers, SaveFile(w) PROVE Truth(b)'
  BY <1>15 DEF SaveFile, Goto, disk, ghost, Truth, Everywhere, OnItsWay, Told,
       HeapType, CopyType, GhostType, NoTask
<1>16. ASSUME NEW w \in Writers, SaveFileFails(w) PROVE Truth(b)'
  BY <1>16 DEF SaveFileFails, End, Goto, disk, ghost, Truth, Everywhere, OnItsWay,
       Told, HeapType, CopyType, GhostType, NoTask
<1>17. ASSUME NEW w \in Writers, Apply(w) PROVE Truth(b)'
  <2>1. /\ published' = cfg[w] /\ order' = Eligible(cfg[w], heap) /\ pc[w] = "apply"
        /\ pc' = [pc EXCEPT ![w] = "table"]
        /\ UNCHANGED <<heap, table, cfg, mine, task, promise, tainted>>
    BY <1>17 DEF Apply, Goto, disk, ghost
  <2>2. cfg[w].arr \in Arrays /\ cfg[w].len \in 0..MaxLen
    BY <2>1, HeaderIs
  <2>3. Told(b) => Shows(heap[cfg[w].arr], cfg[w].len, b, promise[b])
    BY <2>1 DEF Everywhere
  <2>4. Told(b) /\ promise[b] # "in" => \A c \in order' : c.key # b
    BY <2>1, <2>2, <2>3, EligibleShows DEF Told
  <2>5. Everywhere(b)'
    BY <2>1, <2>3, <2>4 DEF Everywhere, Told, HeapType
  <2>6. OnItsWay(b)'
    BY <2>1 DEF OnItsWay, HeapType
  <2>. QED  BY <2>5, <2>6 DEF Truth
<1>18. ASSUME NEW w \in Writers, SaveTable(w) PROVE Truth(b)'
  <2> DEFINE s == Listing(cfg[w], heap)
  <2>1. /\ pc[w] = "table" /\ pc' = [pc EXCEPT ![w] = "reorder"] /\ table'.rows = s
        /\ UNCHANGED <<heap, published, order, cfg, mine, task, promise, tainted>>
    BY <1>18 DEF SaveTable, Goto
  <2>2. cfg[w].arr \in Arrays /\ cfg[w].len \in 0..MaxLen
    BY <2>1, HeaderIs
  <2>3. \A v : Shows(heap[cfg[w].arr], cfg[w].len, b, v) => Shows(s, Len(s), b, v)
    BY <2>2, ListingShows
  <2> HIDE DEF s
  <2>4. Everywhere(b)'
    BY <2>1, <2>3 DEF Everywhere, Told, HeapType
  <2>5. ASSUME pc'[Admin] = "reorder", task.account = b PROVE Shows(s, Len(s), b, task.want)
    <3>1. cfg[w].arr = published.arr /\ cfg[w].len = published.len
      BY <2>1 DEF Slices, Saving
    <3>2. w = Admin \/ (cfg[Admin].arr = published.arr /\ cfg[Admin].len = published.len)
      BY <2>1, <2>5 DEF Slices, Saving, HeapType
    <3>. QED  BY <2>1, <2>3, <2>5, <3>1, <3>2 DEF OnItsWay
  <2>6. OnItsWay(b)'
    BY <2>1, <2>5 DEF OnItsWay, HeapType
  <2>. QED  BY <2>4, <2>6 DEF Truth
<1>19. ASSUME NEW w \in Writers, SaveTableFails(w) PROVE Truth(b)'
  BY <1>19 DEF SaveTableFails, End, Goto, disk, ghost, Truth, Everywhere, OnItsWay,
       Told, HeapType, CopyType, GhostType, NoTask
<1>20. ASSUME NEW w \in Writers, Reorder(w) PROVE Truth(b)'
  <2>1. /\ pc[w] = "reorder" /\ pc' = [pc EXCEPT ![w] = "idle"] /\ cfg' = [cfg EXCEPT ![w] = Blank]
        /\ mine' = [mine EXCEPT ![w] = NoCell] /\ order' = Eligible(published, heap)
        /\ UNCHANGED <<heap, published, table, tainted>>
    BY <1>20 DEF Reorder, End, Goto, disk
  <2>2. published.arr \in Arrays /\ published.len \in 0..MaxLen
    BY HeaderIs
  <2>3. \A v \in {"off", "out"} : Shows(heap[published.arr], published.len, b, v) => \A c \in order' : c.key # b
    BY <2>1, <2>2, EligibleShows
  <2>4. /\ \A v \in Writers : pc'[v] # "idle" => pc[v] # "idle" /\ cfg'[v] = cfg[v]
        /\ \A d \in Dispatchers : pc'[d] = "running" => pc[d] = "running" /\ mine'[d] = mine[d]
    BY <2>1 DEF HeapType, CopyType
  <2>5. CASE w = Admin /\ task.account = b
    <3>1. promise'[b] = task.want /\ task' = NoTask
      BY <1>20, <2>5 DEF Reorder, End, GhostType
    <3>2. cfg[Admin].arr = published.arr /\ cfg[Admin].len = published.len
      BY <2>1, <2>5 DEF Slices, Saving
    <3>3. Shows(heap[published.arr], published.len, b, task.want) /\ Shows(table.rows, Len(table.rows), b, task.want)
      BY <2>1, <2>5, <3>2 DEF OnItsWay
    <3>4. \A v \in Writers : pc'[v] # "idle" => cfg[v].arr = published.arr /\ cfg[v].len = published.len
      <4>1. ASSUME NEW v \in Writers, pc'[v] # "idle" PROVE cfg[v].arr = published.arr /\ cfg[v].len = published.len
        <5>1. pc[v] # "idle" /\ v # w
          BY <2>1, <4>1 DEF HeapType
        <5>2. Overlapping
          BY <2>1, <5>1 DEF Alone
        <5>. QED  BY <5>1, <5>2 DEF Slices
      <4>. QED  BY <4>1
    <3>5. Everywhere(b)'
      BY <2>1, <2>3, <2>4, <2>5, <3>1, <3>3, <3>4 DEF Everywhere, OnItsWay, Told, GhostType
    <3>6. OnItsWay(b)'
      BY <3>1 DEF OnItsWay, NoTask
    <3>. QED  BY <3>5, <3>6 DEF Truth
  <2>6. CASE ~(w = Admin /\ task.account = b)
    <3>1. promise'[b] = promise[b]
      BY <1>20, <2>6 DEF Reorder, GhostType
    <3>2. Everywhere(b)'
      BY <2>1, <2>3, <2>4, <3>1 DEF Everywhere, Told
    <3>3. OnItsWay(b)'
      BY <1>20, <2>1, <2>4, <2>6, <3>1 DEF Reorder, End, OnItsWay, NoTask, HeapType
    <3>. QED  BY <3>2, <3>3 DEF Truth
  <2>. QED  BY <2>5, <2>6
<1>21. CASE UNCHANGED vars
  BY <1>21 DEF vars, disk, ghost, Truth, Everywhere, OnItsWay, Told, HeapType,
       CopyType, GhostType, NoTask
<1>. QED  BY <1>1, <1>2, <1>3, <1>4, <1>5, <1>6, <1>7, <1>8, <1>9, <1>10, <1>11,
          <1>12, <1>13, <1>14, <1>15, <1>16, <1>17, <1>18, <1>19, <1>20, <1>21
     DEF Next, DispatcherStep, AdminStep, SaveStep

-----------------------------------------------------------------------------
(* Keeping what was told.                                                  *)

LEMMA TruthfulInit == Init => TaskPlace /\ Truthful
<1>. SUFFICES ASSUME Init PROVE TaskPlace /\ Truthful
  OBVIOUS
<1>. MaxLen \in Nat /\ Shape /\ TableFollows
  BY ShapeInit, TableInit, StoreAssumption
<1>1. PICK s \in Bootstrap[mode] :
        /\ table = [rows |-> Rows(s), active |-> NoAccount]
        /\ order = {Enabled(s[i]) : i \in 1..Len(s)}
        /\ promise = [a \in Accounts |-> IF \E i \in 1..Len(s) : s[i] = a THEN "in" ELSE "out"]
  BY Zenon DEF Init
<1>2. task = NoTask /\ tainted = {} /\ ~unsaved /\ \A w \in Writers : pc[w] = "idle"
  BY DEF Init
<1>3. Len(s) \in Nat
  BY <1>1, StoreAssumption DEF Init
<1> DEFINE t == table.rows
<1>4. /\ t = Listing(published, heap) /\ Len(t) = Len(s)
      /\ \A i \in 1..Len(s) : t[i].key = s[i] /\ t[i].disabled = FALSE
  BY <1>1, <1>2, <1>3 DEF TableFollows, Rows, Enabled
<1>5. /\ Len(t) = published.len /\ published.len \in Nat
      /\ \A i \in 1..published.len : t[i] = heap[published.arr][i]
  BY <1>4, HeaderIs, ListingIs DEF Listing, Shape
<1> HIDE DEF t
<1>6. ASSUME NEW b \in Accounts PROVE Truth(b)
  <2>1. promise[b] \in {"in", "out"} /\ Shows(t, Len(t), b, promise[b])
    BY <1>1, <1>4 DEF Shows
  <2>2. Shows(heap[published.arr], published.len, b, promise[b])
    BY <1>5, <2>1, ShowsSame
  <2>3. promise[b] # "in" => \A c \in order : c.key # b
    BY <1>1 DEF Enabled
  <2>4. Everywhere(b)
    BY <1>2, <2>1, <2>2, <2>3 DEF Everywhere, Writers, t
  <2>5. OnItsWay(b)
    BY <1>2, StoreAssumption DEF OnItsWay, NoTask
  <2>. QED  BY <2>4, <2>5 DEF Truth
<1>. QED  BY <1>2, <1>6 DEF TaskPlace, Truthful

LEMMA TruthfulStep ==
  ASSUME Shape, TaskPlace, Truthful, [Next]_vars
  PROVE  Truthful'
<1>1. (~Overlapping => tainted = {})'
  BY TaintStep DEF Truthful
<1>2. ASSUME NEW b \in Accounts \ tainted' PROVE Truth(b)'
  BY <1>2, TruthStep
<1>. QED  BY <1>1, <1>2 DEF Truthful

LEMMA TruthInvariant == Spec => [](Shape /\ TaskPlace /\ Truthful)
BY ShapeInit, TruthfulInit, ShapeStep, TaskStep, TruthfulStep, PTL DEF Spec

\* What the published cells show of an account is where it stands.
LEMMA StandingIs ==
  ASSUME Shape, NEW a, NEW v \in {"in", "off", "out"},
         Shows(heap[published.arr], published.len, a, v)
  PROVE  Standing(a) = v
<1>1. published.len \in Nat /\ Almost(heap[published.arr], published.len)
  BY HeaderIs, StoreAssumption DEF Shape, PublishedSlice
<1>2. CASE v = "out"
  BY <1>2 DEF Shows, Standing, Keys
<1>3. CASE v \in {"in", "off"}
  <2>1. a \in Keys(published)
    BY <1>3 DEF Shows, Keys
  <2> DEFINE k == IndexOf(published, a)
  <2>2. k \in 1..published.len /\ heap[published.arr][k].key = a
    BY <1>1, <2>1, IndexIs
  <2>3. Standing(a) = IF heap[published.arr][k].disabled THEN "off" ELSE "in"
    BY <2>1 DEF Standing
  <2> HIDE DEF k
  <2>4. heap[published.arr][k].disabled = (v = "off")
    BY <1>3, <2>2, Zenon DEF Shows
  <2>5. CASE v = "off"
    BY <2>3, <2>4, <2>5
  <2>6. CASE v = "in"
    BY <2>3, <2>4, <2>6
  <2>. QED  BY <1>3, <2>5, <2>6
<1>. QED  BY <1>2, <1>3

\* As long as operations follow each other, what the administrator was told of
\* an account stays true, whatever it serves, whichever saves fail, across
\* restarts, and although every change is made in the array of what is
\* published before it is saved.
THEOREM PromisesAreKept == Spec => []PromisesKept
<1>1. ASSUME Shape, Truthful PROVE PromisesKept
  <2>1. SUFFICES ASSUME ~Overlapping, NEW a \in Accounts, Told(a) PROVE Standing(a) = promise[a]
    BY DEF PromisesKept
  <2>2. Everywhere(a)
    BY <1>1, <2>1 DEF Truthful, Truth
  <2>3. promise[a] \in {"in", "off", "out"} /\ Shows(heap[published.arr], published.len, a, promise[a])
    BY <2>1, <2>2 DEF Everywhere, Told
  <2>. QED  BY <1>1, <2>3, StandingIs
<1>. QED  BY <1>1, TruthInvariant, PTL

\* A disabled account stays out of the dispatch order as long as operations
\* follow each other.
THEOREM DisabledStayOutInTurn == Spec => []DisabledStaysOutInTurn
<1>1. ASSUME Shape, Truthful PROVE DisabledStaysOutInTurn
  <2>1. SUFFICES ASSUME ~Overlapping, NEW a \in Accounts, promise[a] = "off"
                 PROVE  Standing(a) # "in" /\ \A cell \in order : cell.key # a
    BY DEF DisabledStaysOutInTurn, DisabledStaysOut
  <2>2. Everywhere(a)
    BY <1>1, <2>1 DEF Truthful, Truth
  <2>3. Shows(heap[published.arr], published.len, a, "off") /\ \A cell \in order : cell.key # a
    BY <2>1, <2>2 DEF Everywhere, Told
  <2>4. Standing(a) = "off"
    BY <1>1, <2>3, StandingIs
  <2>. QED  BY <2>3, <2>4
<1>. QED  BY <1>1, TruthInvariant, PTL

\* An edit of an account survives every operation that overlaps it, but those
\* that were already using the account.
THEOREM EditsAlwaysSurvive == Spec => []EditsSurvive
<1>1. ASSUME Shape, Truthful PROVE EditsSurvive
  <2>1. SUFFICES ASSUME NEW a \in Accounts \ tainted, Told(a)
                 PROVE  /\ Standing(a) = promise[a]
                        /\ promise[a] = "off" => \A cell \in order : cell.key # a
    BY DEF EditsSurvive
  <2>2. Everywhere(a)
    BY <1>1, <2>1 DEF Truthful, Truth
  <2>3. /\ promise[a] \in {"in", "off", "out"} /\ Shows(heap[published.arr], published.len, a, promise[a])
        /\ promise[a] = "off" => \A cell \in order : cell.key # a
    BY <2>1, <2>2 DEF Everywhere, Told
  <2>. QED  BY <1>1, <2>3, StandingIs
<1>. QED  BY <1>1, TruthInvariant, PTL

=============================================================================
