--------------------------- MODULE StartupProofs ---------------------------
(***************************************************************************)
(* For every layout of the address space, every command line and every     *)
(* file: a machine that runs has the memory map of MemoryMap.              *)
(*                                                                         *)
(* The invariant follows load_file's buffer read by read; that a file is   *)
(* whole when its length is not negative is what load_data relies on, and  *)
(* the order in which the chips are connected decides what is seen where   *)
(* two of them answer (-m 0).                                              *)
(***************************************************************************)
EXTENDS Startup, TLAPS

USE StartupAssumption, ErrorAssumption

LEMMA InitInv == Init => IInv
<1> SUFFICES ASSUME Init PROVE IInv
  OBVIOUS
<1>1. TypeOK
  BY DEF Init, TypeOK, Pcs, Files
<1>2. Buffers
  BY DEF Init, Buffers, Done, Files
<1> QED
  BY <1>1, <1>2 DEF IInv, Init

(* A step that leaves the files alone. *)
LEMMA KeepsFiles ==
  ASSUME TypeOK, Buffers, UNCHANGED <<options, data, length>>,
         pc' \in Pcs \ {"read", "options"}, file' \in Files, pc # "exited",
         num_read' \in Int, data_pos' \in Nat,
         Done' \cap given \subseteq Done,
         pc' = "open" => pc \in {"options", "open", "read"} /\ Done \subseteq Done'
  PROVE  TypeOK' /\ Buffers'
<1>1. TypeOK'
  BY DEF TypeOK, options
<1>2. given' = given /\ size' = size /\ data' = data /\ length' = length
  BY DEF options
<1>3. \A f \in Files : Complete(f) => Complete(f)'
  BY <1>2 DEF Complete
<1>4. \A f \in Done' \cap given' : Complete(f)' \/ (f = "binary" /\ length'[f] \in Errors)
  BY <1>2, <1>3 DEF Buffers, TypeOK
<1>5. pc' \in {"options", "open", "read"} => \A f \in Files \ Done' : length'[f] = 0
  BY <1>2 DEF Buffers
<1>6. \A f \in Files \ given' : length'[f] = 0
  BY <1>2 DEF Buffers
<1> QED
  BY <1>1, <1>4, <1>5, <1>6 DEF Buffers

(* The buffer fills from the front. *)
LEMMA ReadInv ==
  ASSUME IInv, Read
  PROVE  IInv'
<1>1. PICK k \in 0..size[file] - data_pos :
        /\ data' = [data EXCEPT ![file] =
                     [p \in 0..size[file] - 1 |->
                        IF p \in data_pos..data_pos + k - 1 THEN <<file, p>> ELSE data[file][p]]]
        /\ num_read' = k /\ data_pos' = data_pos + k
  BY DEF Read
<1>2. /\ pc = "read" /\ pc' = "read" /\ file' = file /\ given' = given /\ size' = size
      /\ length' = length /\ UNCHANGED <<options, phi2>>
  BY DEF Read, Reading, options
<1>3. /\ data_pos \in Nat /\ size[file] \in Nat /\ k \in Nat /\ data_pos + k <= size[file]
      /\ file \in Files
  <2>1. file \in Files /\ data_pos \in Nat /\ size[file] \in Nat
    BY DEF IInv, TypeOK
  <2> QED
    BY <1>1, <2>1
<1>4. TypeOK'
  BY <1>1, <1>2, <1>3 DEF IInv, TypeOK, options
<1>5. Buffers'
  <2>1. Done' = Done
    BY <1>2 DEF Done
  <2>2. \A f \in Done : f # file
    BY <1>2 DEF Done
  <2>3. \A f \in Files : f # file /\ Complete(f) => Complete(f)'
    BY <1>1, <1>2 DEF Complete
  <2>4. file \in given /\ DOMAIN data'[file] = 0..size[file] - 1
    BY <1>1, <1>2, <1>3 DEF IInv, Buffers
  <2>5. \A p \in 0..data_pos' - 1 : data'[file][p] = <<file, p>>
    <3>1. \A p \in 0..data_pos - 1 : data[file][p] = <<file, p>>
      BY <1>2 DEF IInv, Buffers
    <3>2. \A p \in 0..size[file] - 1 : data'[file][p] =
            IF p \in data_pos..data_pos + k - 1 THEN <<file, p>> ELSE data[file][p]
      BY <1>1, <1>3 DEF IInv, TypeOK
    <3>0. data_pos' = data_pos + k
      BY <1>1
    <3> SUFFICES ASSUME NEW p \in 0..(data_pos + k) - 1 PROVE data'[file][p] = <<file, p>>
      BY <3>0, Zenon
    <3>3. p \in 0..size[file] - 1
      BY <1>3
    <3>4. CASE p \in data_pos..data_pos + k - 1
      BY <3>2, <3>3, <3>4
    <3>5. CASE p \in 0..data_pos - 1
      BY <1>3, <3>1, <3>2, <3>3, <3>5
    <3> QED
      BY <1>3, <3>4, <3>5
  <2>6. data_pos' <= size[file] /\ num_read' \in -1..data_pos'
    BY <1>1, <1>3
  <2> QED
    BY <1>2, <2>1, <2>2, <2>3, <2>4, <2>5, <2>6 DEF IInv, Buffers, Done, Files
<1> QED
  BY <1>2, <1>4, <1>5 DEF IInv

(* After the last of them it is whole. *)
LEMMA LoadedInv ==
  ASSUME IInv, Loaded
  PROVE  IInv'
<1>1. /\ pc = "read" /\ num_read = size[file] /\ file \in given /\ file \in Files
      /\ length' = [length EXCEPT ![file] = size[file]] /\ data' = data /\ UNCHANGED <<options, phi2>>
      /\ num_read' = num_read /\ data_pos' = data_pos
  BY DEF Loaded, IInv, Buffers, TypeOK
<1>2. given' = given /\ size' = size /\ size[file] \in Nat
  BY <1>1 DEF options, IInv, TypeOK
<1>3. /\ pc' \in {"open", "init"} /\ file' \in Files /\ Done' = Done \cup {file}
      /\ Done \cup {file} \subseteq Files /\ file \notin Done
      /\ pc' = "init" => Done' = Files
  BY <1>1 DEF Loaded, NextFile, Done, Files
<1>4. TypeOK'
  BY <1>1, <1>2, <1>3 DEF IInv, TypeOK, options, Pcs
<1>5. \A f \in Files : f = file => Complete(f)'
  <2>1. length'[file] = size[file]
    BY <1>1 DEF IInv, TypeOK
  <2>2. data_pos = size[file]
    BY <1>1, <1>2 DEF IInv, TypeOK, Buffers
  <2>3. \A p \in 0..size[file] - 1 : data[file][p] = <<file, p>>
    BY <1>1, <2>2 DEF IInv, Buffers
  <2> QED
    BY <1>1, <1>2, <2>1, <2>3 DEF Complete
<1>6. \A f \in Done : Complete(f) => Complete(f)'
  BY <1>1, <1>2, <1>3 DEF Complete, IInv, TypeOK
<1>7. Buffers'
  <2>1. \A f \in Done' \cap given' : Complete(f)' \/ (f = "binary" /\ length'[f] \in Errors)
    BY <1>1, <1>2, <1>3, <1>5, <1>6 DEF IInv, Buffers, TypeOK
  <2>2. \A f \in Files \ Done' : length'[f] = 0
    BY <1>1, <1>3 DEF IInv, Buffers, TypeOK
  <2>3. \A f \in Files \ given' : length'[f] = 0
    BY <1>1, <1>2 DEF IInv, Buffers, TypeOK
  <2> QED
    BY <1>3, <2>1, <2>2, <2>3 DEF Buffers
<1> QED
  BY <1>1, <1>2, <1>3, <1>4, <1>7 DEF IInv

(* A failure is an exit, but for the binary. *)
LEMMA FailInv ==
  ASSUME IInv, Fail
  PROVE  IInv'
<1>1. /\ pc \in {"open", "read"} /\ file \in given /\ file \in Files
      /\ data' = data /\ UNCHANGED <<options, phi2>> /\ num_read' = num_read /\ data_pos' = data_pos
  BY DEF Fail, Reading, IInv, Buffers, TypeOK
<1>2. PICK e \in Errors : length' = [length EXCEPT ![file] = e]
  BY DEF Fail, Errors
<1>3. e \in Int /\ e < 0 /\ length'[file] = e /\ given' = given /\ size' = size
  BY <1>1, <1>2 DEF Errors, IInv, TypeOK, options
<1>4. CASE pc' = "exited" /\ file' = file
  <2>1. TypeOK'
    BY <1>1, <1>2, <1>3, <1>4 DEF IInv, TypeOK, options, Pcs
  <2>2. Buffers'
    BY <1>1, <1>2, <1>3, <1>4 DEF IInv, Buffers, TypeOK
  <2> QED
    BY <1>4, <2>1, <2>2 DEF IInv
<1>5. CASE file = "binary" /\ NextFile
  <2>1. pc' = "init" /\ file' = file
    BY <1>5 DEF NextFile
  <2>2. TypeOK'
    BY <1>1, <1>2, <1>3, <2>1 DEF IInv, TypeOK, options, Pcs
  <2>3. Done = {"rom", "extra"} /\ Done' = Files
    BY <1>1, <1>5, <2>1 DEF Done
  <2>4. \A f \in Done : Complete(f) => Complete(f)'
    BY <1>1, <1>2, <1>3, <1>5, <2>3 DEF Complete, IInv, TypeOK
  <2>5. Buffers'
    BY <1>1, <1>2, <1>3, <1>5, <2>1, <2>3, <2>4 DEF IInv, Buffers, TypeOK, Files
  <2> QED
    BY <1>1, <1>3, <2>1, <2>2, <2>5 DEF IInv
<1>6. file # "binary" => length'["extra"] < 0 \/ length'["rom"] < 0
  BY <1>1, <1>3 DEF Files
<1> QED
  BY <1>4, <1>5, <1>6 DEF Fail

----------------------------------------------------------------------------
(* The last chip that answers is the one that is seen (clock_mem). *)
LEMMA LastOf ==
  ASSUME NEW S \in SUBSET Int, NEW j \in S, \A k \in S : k <= j
  PROVE  Last(S) = j
<1>1. \A x \in S : (\A k \in S : k <= x) => x = j
  OBVIOUS
<1> QED
  BY <1>1 DEF Last

LEMMA SeenLastNext ==
  ASSUME NEW a, Len(phi2') \in Nat, NEW j \in Answering(a)', \A k \in Answering(a)' : k <= j
  PROVE  Seen(a)' = phi2'[j].mem[a]
<1>1. Answering(a)' \in SUBSET Int
  BY DEF Answering
<1> QED
  BY <1>1, LastOf DEF Seen

(* load_data puts a whole file in its place, or leaves the zeroes. *)
LEMMA LoadData ==
  ASSUME IInv, NEW f \in Files, Complete(f), NEW start \in Nat, NEW end \in Address,
         start <= end, NEW addr \in start..end
  PROVE  LET c == load_data(Mem(start, end), f, addr) IN
         /\ ~Wild(Mem(start, end), f, addr)
         /\ c.start = start /\ c.end = end
         /\ \A a \in start..end : c.mem[a] = Part(f, addr, end, a)
<1> DEFINE c == Mem(start, end)
           d == load_data(c, f, addr)
<1>1. size[f] \in Nat /\ size[f] + MEMSIZE < SIZE /\ length[f] = size[f]
  BY DEF IInv, TypeOK, Complete
<1>2. addr \in Nat /\ end \in Nat /\ end < MEMSIZE /\ addr <= end
  BY DEF Address
<1>3. End(f, addr) = addr + size[f]
  BY <1>1, <1>2 DEF End, size_t
<1>4. c.start = start /\ c.end = end /\ c.mem = [a \in start..end |-> Zero]
  BY DEF Mem
<1>5. Refused(c, f, addr) <=> addr + size[f] > end + 1
  BY <1>1, <1>2, <1>3, <1>4 DEF Refused
<1>6. ~Wild(c, f, addr)
  BY <1>1 DEF Wild
<1>7. CASE Refused(c, f, addr)
  <2>1. d = c
    BY <1>7 DEF load_data
  <2>2. \A a \in start..end : Part(f, addr, end, a) = Zero
    BY <1>1, <1>2, <1>5, <1>7 DEF Part
  <2> QED
    BY <1>4, <1>6, <2>1, <2>2
<1>8. CASE ~Refused(c, f, addr)
  <2>1. d = [c EXCEPT !.mem = [a \in start..end |->
                IF a >= addr /\ a < addr + length[f] THEN data[f][a - addr] ELSE c.mem[a]]]
    BY <1>4, <1>8 DEF load_data
  <2>2. d.start = start /\ d.end = end
    BY <1>4, <2>1 DEF Mem
  <2>3. \A a \in start..end : d.mem[a] =
          IF a >= addr /\ a < addr + size[f] THEN data[f][a - addr] ELSE Zero
    BY <1>1, <1>4, <2>1 DEF Mem
  <2>4. \A a \in start..end : d.mem[a] = Part(f, addr, end, a)
    <3> SUFFICES ASSUME NEW a \in start..end PROVE d.mem[a] = Part(f, addr, end, a)
      OBVIOUS
    <3>1. a \in Int /\ addr + size[f] <= end + 1
      BY <1>1, <1>2, <1>5, <1>8
    <3>2. CASE a >= addr /\ a < addr + size[f]
      <4>1. a - addr \in 0..size[f] - 1
        BY <1>1, <1>2, <3>1, <3>2
      <4>2. data[f][a - addr] = <<f, a - addr>>
        BY <1>1, <4>1 DEF Complete
      <4> QED
        BY <2>3, <3>1, <3>2, <4>2 DEF Part
    <3>3. CASE ~(a >= addr /\ a < addr + size[f])
      BY <1>1, <1>2, <2>3, <3>1, <3>3 DEF Part
    <3> QED
      BY <3>2, <3>3
  <2> QED
    BY <1>6, <2>2, <2>4
<1> QED
  BY <1>7, <1>8

(* Both ways of setting the machine up start from files that are whole. *)
LEMMA FilesAtInit ==
  ASSUME IInv, pc = "init"
  PROVE  /\ given \cap {"rom", "binary"} # {} /\ given \subseteq Files
         /\ \A f \in given : Complete(f) \/ (f = "binary" /\ length[f] \in Errors)
         /\ m \in Nat
<1>1. Done = Files /\ given \subseteq Files /\ m \in Nat
  BY DEF Done, IInv, TypeOK
<1> QED
  BY <1>1 DEF IInv, Buffers

(* The Apple 1: four chips, the user's RAM first. *)
LEMMA MachineMapped ==
  ASSUME IInv, InitMachine
  PROVE  pc' = "boot" /\ Mapped'
<1> DEFINE user == Mem(0, uint16_t(m - 1))
           room == Mem(START_EXTRA_RAM, END_EXTRA_RAM)
           extra == IF "extra" \in given THEN load_data(room, "extra", START_EXTRA_RAM) ELSE room
           rom == load_data(Mem(START_ROM, END_ROM), "rom", START_ROM)
           pia == [start |-> KBD, end |-> DSPCR, mem |-> [a \in KBD..DSPCR |-> <<"pia", a>>]]
<1>1. /\ pc = "init" /\ "binary" \notin given /\ m <= MAX_USER_RAM /\ UNCHANGED options
  BY DEF InitMachine
<1>2. Complete("rom") /\ ("extra" \in given => Complete("extra")) /\ m \in Nat
  BY <1>1, FilesAtInit DEF Files
<1>3. /\ START_ROM \in Nat /\ END_ROM \in Address /\ START_ROM <= END_ROM
      /\ START_ROM \in START_ROM..END_ROM
      /\ START_EXTRA_RAM \in Nat /\ END_EXTRA_RAM \in Address
      /\ START_EXTRA_RAM <= END_EXTRA_RAM /\ START_EXTRA_RAM \in START_EXTRA_RAM..END_EXTRA_RAM
  BY DEF Address
<1>4. /\ ~Wild(Mem(START_ROM, END_ROM), "rom", START_ROM)
      /\ rom.start = START_ROM /\ rom.end = END_ROM
      /\ \A a \in Rom : rom.mem[a] = Part("rom", START_ROM, END_ROM, a)
  BY <1>2, <1>3, LoadData DEF Files, Rom
<1>5. /\ "extra" \in given => ~Wild(room, "extra", START_EXTRA_RAM)
      /\ extra.start = START_EXTRA_RAM /\ extra.end = END_EXTRA_RAM
      /\ \A a \in Extra : extra.mem[a] =
           IF "extra" \in given THEN Part("extra", START_EXTRA_RAM, END_EXTRA_RAM, a) ELSE Zero
  <2>1. CASE "extra" \in given
    BY <1>2, <1>3, <2>1, LoadData DEF Files, Extra
  <2>2. CASE "extra" \notin given
    BY <2>2 DEF Mem, Extra
  <2> QED
    BY <2>1, <2>2
<1>6. phi2' = <<user, extra, rom, pia>> /\ pc' = "boot"
  BY <1>1, <1>4, <1>5 DEF InitMachine, SetUp, init_apple1
<1>7. /\ user.start = 0 /\ \A a \in 0..user.end : user.mem[a] = Zero
      /\ user.end = IF m = 0 THEN MEMSIZE - 1 ELSE m - 1
  BY <1>1, <1>2 DEF Mem, uint16_t
<1>8. pia.start = KBD /\ pia.end = DSPCR /\ \A a \in Pia : pia.mem[a] = <<"pia", a>>
  BY DEF Pia
<1> HIDE DEF user, room, extra, rom, pia
<1>9. /\ Len(phi2') = 4 /\ phi2'[1] = user /\ phi2'[2] = extra /\ phi2'[3] = rom
      /\ phi2'[4] = pia
  BY <1>6
<1>10. ASSUME NEW a \in Address
       PROVE  Seen(a)' = Apple1(a)'
  <2>1. Apple1(a)' = Apple1(a)
    BY <1>1 DEF Apple1, Part, options
  <2>2. a \in Int /\ 0 <= a /\ a < MEMSIZE
    BY DEF Address
  <2>3. \A j \in Int : j \in Answering(a)' <=>
          \/ j = 1 /\ a <= user.end
          \/ j = 2 /\ a \in Extra
          \/ j = 3 /\ a \in Rom
          \/ j = 4 /\ a \in Pia
    BY <1>4, <1>5, <1>7, <1>8, <1>9, <2>2 DEF Answering, Extra, Rom, Pia
  <2>4. /\ a \in Extra => a \notin Rom /\ a \notin Pia
        /\ a \in Rom => a \notin Pia
    BY <2>2 DEF Extra, Rom, Pia
  <2>5. Answering(a)' \subseteq 1..4
    BY <1>9 DEF Answering
  <2>6. CASE a \in Pia
    <3>1. 4 \in Answering(a)' /\ \A k \in Answering(a)' : k <= 4
      BY <2>3, <2>5, <2>6
    <3>2. Seen(a)' = phi2'[4].mem[a]
      BY <3>1, <1>9, SeenLastNext
    <3> QED
      BY <1>8, <1>9, <2>1, <2>4, <2>6, <3>2 DEF Apple1
  <2>7. CASE a \in Rom
    <3>1. 3 \in Answering(a)' /\ \A k \in Answering(a)' : k <= 3
      BY <2>3, <2>4, <2>5, <2>7
    <3>2. Seen(a)' = phi2'[3].mem[a]
      BY <3>1, <1>9, SeenLastNext
    <3> QED
      BY <1>4, <1>9, <2>1, <2>4, <2>7, <3>2 DEF Apple1
  <2>8. CASE a \in Extra
    <3>1. 2 \in Answering(a)' /\ \A k \in Answering(a)' : k <= 2
      BY <2>3, <2>4, <2>5, <2>8
    <3>2. Seen(a)' = phi2'[2].mem[a]
      BY <3>1, <1>9, SeenLastNext
    <3> QED
      BY <1>5, <1>9, <2>1, <2>4, <2>8, <3>2 DEF Apple1
  <2>9. CASE a \notin Pia \cup Rom \cup Extra
    <3>1. Apple1(a) = IF m = 0 \/ a < m THEN Zero ELSE Nothing
      BY <2>9 DEF Apple1
    <3>2. CASE m = 0 \/ a < m
      <4>1. 1 \in Answering(a)' /\ \A k \in Answering(a)' : k <= 1
        BY <1>2, <1>7, <2>2, <2>3, <2>5, <2>9, <3>2
      <4>2. Seen(a)' = phi2'[1].mem[a]
        BY <4>1, <1>9, SeenLastNext
      <4>3. phi2'[1].mem[a] = Zero
        BY <1>2, <1>7, <1>9, <2>2, <3>2
      <4> QED
        BY <2>1, <3>1, <3>2, <4>2, <4>3
    <3>3. CASE ~(m = 0 \/ a < m)
      <4>1. Answering(a)' = {}
        BY <1>2, <1>7, <2>2, <2>3, <2>5, <2>9, <3>3
      <4> QED
        BY <2>1, <3>1, <3>3, <4>1 DEF Seen
    <3> QED
      BY <3>2, <3>3
  <2> QED
    BY <2>6, <2>7, <2>8, <2>9
<1> QED
  BY <1>1, <1>6, <1>10 DEF Mapped, options

(* One memory for the whole address space: a length that came round is     *)
(* refused, or copied without end. *)
LEMMA BinaryMapped ==
  ASSUME IInv, InitBinary, pc' # "crashed"
  PROVE  pc' = "boot" /\ Mapped'
<1> DEFINE all == Mem(0, MEMSIZE - 1)
           user == load_data(all, "binary", l)
<1>1. /\ pc = "init" /\ "binary" \in given /\ UNCHANGED <<options, length>>
      /\ ~Wild(all, "binary", l) /\ pc' = "boot" /\ phi2' = init_apple1_binary
  BY DEF InitBinary, SetUp
<1>2. /\ l \in Nat /\ l < MEMSIZE /\ MEMSIZE - 1 \in Address /\ 0 <= MEMSIZE - 1
      /\ l \in 0..MEMSIZE - 1 /\ Address = 0..MEMSIZE - 1
  BY DEF IInv, TypeOK, Address
<1>3. \A a \in Address : user.mem[a] =
        IF length["binary"] < 0 THEN Zero ELSE Part("binary", l, MEMSIZE - 1, a)
  <2>1. CASE Complete("binary")
    <3>1. ~(length["binary"] < 0)
      BY <2>1 DEF Complete, IInv, TypeOK, Files
    <3>2. \A a \in 0..MEMSIZE - 1 : user.mem[a] = Part("binary", l, MEMSIZE - 1, a)
      BY <1>2, <2>1, LoadData DEF Files
    <3> QED
      BY <1>2, <3>1, <3>2
  <2>2. CASE length["binary"] \in Errors
    <3>1. /\ length["binary"] \in Int /\ length["binary"] < 0
          /\ MEMSIZE < SIZE + length["binary"]
      BY <2>2 DEF Errors
    <3>2. all.start = 0 /\ all.end = MEMSIZE - 1 /\ \A a \in Address : all.mem[a] = Zero
      BY <1>2 DEF Mem
    <3>3. Refused(all, "binary", l)
      BY <1>1, <3>1 DEF Wild
    <3>4. user = all
      BY <3>3 DEF load_data
    <3> QED
      BY <3>1, <3>2, <3>4
  <2> QED
    BY <1>1, <2>1, <2>2, FilesAtInit
<1> DEFINE loaded == [user EXCEPT !.mem = [a \in Address |->
                        IF a \in {RESET_VECTOR, RESET_VECTOR + 1} THEN Start(a - RESET_VECTOR)
                        ELSE user.mem[a]]]
<1>4. user.start = 0 /\ user.end = MEMSIZE - 1
  BY DEF load_data, Mem
<1>5. /\ loaded.start = 0 /\ loaded.end = MEMSIZE - 1
      /\ \A a \in Address : loaded.mem[a] =
           IF a \in {RESET_VECTOR, RESET_VECTOR + 1} THEN Start(a - RESET_VECTOR)
           ELSE user.mem[a]
  BY DEF load_data, Mem
<1>6. Len(phi2') = 1 /\ phi2'[1] = loaded
  BY <1>1 DEF init_apple1_binary
<1> HIDE DEF loaded, user, all
<1>7. ASSUME NEW a \in Address
      PROVE  Seen(a)' = Binary(a)'
  <2>1. Binary(a)' = Binary(a)
    BY <1>1 DEF Binary, Part, options
  <2>2. Answering(a)' = {1}
    BY <1>2, <1>5, <1>6 DEF Answering
  <2>3. Seen(a)' = loaded.mem[a]
    BY <1>6, <2>2, SeenLastNext
  <2> QED
    BY <1>3, <1>5, <2>1, <2>3 DEF Binary
<1> QED
  BY <1>1, <1>7 DEF Mapped, options

(* What is seen depends on the chips and the files only. *)
LEMMA MappedStays ==
  ASSUME UNCHANGED <<options, length, phi2>>, Mapped
  PROVE  Mapped'
<1>1. \A a : Answering(a)' = Answering(a)
  BY DEF Answering
<1>2. \A a : Seen(a)' = Seen(a)
  <2> SUFFICES ASSUME NEW a PROVE Seen(a)' = Seen(a)
    OBVIOUS
  <2>1. Answering(a)' = Answering(a) /\ phi2' = phi2
    BY <1>1
  <2> QED
    BY <2>1 DEF Seen
<1>3. \A a : Binary(a)' = Binary(a) /\ Apple1(a)' = Apple1(a)
  BY DEF Binary, Apple1, Part, options
<1> QED
  BY <1>2, <1>3 DEF Mapped, options

(* What is in the buffers depends on the files only. *)
LEMMA BuffersStay ==
  ASSUME IInv, UNCHANGED <<options, data, length, data_pos, pc, file>>,
         pc = "read" => num_read' \in -1..data_pos
  PROVE  Buffers'
<1>1. \A f : Complete(f) => Complete(f)'
  BY DEF Complete, options
<1>2. /\ Done' = Done /\ given' = given /\ size' = size
      /\ UNCHANGED <<data, length, data_pos, pc, file>>
  BY DEF Done, options
<1>3. Buffers
  BY DEF IInv
<1>4. \A f \in Done' \cap given' : pc' # "exited" =>
        Complete(f)' \/ (f = "binary" /\ length'[f] \in Errors)
  BY <1>1, <1>2, <1>3 DEF Buffers
<1> QED
  BY <1>2, <1>3, <1>4 DEF Buffers

(* Every step keeps the invariant. *)
LEMMA NextInv == IInv /\ [Next]_vars => IInv'
<1> SUFFICES ASSUME IInv, [Next]_vars PROVE IInv'
  OBVIOUS
<1> USE DEF IInv
<1>1. CASE Options
  <2>1. /\ pc' \in {"exited", "open"} /\ file' = file /\ UNCHANGED <<options, data, length>>
        /\ num_read' = num_read /\ data_pos' = data_pos /\ pc = "options" /\ phi2' = phi2
        /\ pc' = "open" => given \cap {"rom", "binary"} # {}
    BY <1>1 DEF Options
  <2>2. TypeOK'
    BY <2>1 DEF TypeOK, options, Pcs
  <2>3. Buffers'
    BY <2>1 DEF Buffers, TypeOK, options, Done, Complete
  <2> QED
    BY <2>1, <2>2, <2>3 DEF options
<1>2. CASE NotGiven
  <2>1. /\ pc = "open" /\ file \notin given /\ file \in Files
        /\ UNCHANGED <<options, data, length, phi2>>
        /\ num_read' = num_read /\ data_pos' = data_pos
    BY <1>2 DEF NotGiven, TypeOK
  <2>2. /\ pc' \in {"open", "init"} /\ file' \in Files /\ Done' = Done \cup {file}
        /\ pc' = "init" => Done' = Files
    BY <1>2, <2>1 DEF NotGiven, NextFile, Done, Files
  <2>3. TypeOK' /\ Buffers'
    BY <2>1, <2>2, KeepsFiles DEF TypeOK, Pcs
  <2> QED
    BY <2>1, <2>2, <2>3 DEF options
<1>3. CASE Opened
  <2>1. /\ pc = "open" /\ pc' = "read" /\ file \in given /\ file \in Files /\ file' = file
        /\ UNCHANGED <<options, length, phi2>> /\ num_read' = 0 /\ data_pos' = 0
        /\ data' = [data EXCEPT ![file] = [p \in 0..size[file] - 1 |-> Unset]]
    BY <1>3 DEF Opened, TypeOK
  <2>2. TypeOK'
    BY <2>1 DEF TypeOK, options, Pcs
  <2>3. Done' = Done /\ file \notin Done
    BY <2>1 DEF Done
  <2>4. given' = given /\ size' = size /\ length' = length
    BY <2>1 DEF options
  <2>5. \A f \in Files : f # file /\ Complete(f) => Complete(f)'
    BY <2>1, <2>4 DEF Complete
  <2>6. DOMAIN data'[file] = 0..size[file] - 1 /\ size[file] \in Nat
    BY <2>1 DEF TypeOK
  <2>7. \A f \in Done' \cap given' : Complete(f)'
    BY <2>1, <2>3, <2>4, <2>5 DEF Buffers, TypeOK, Done, Files
  <2>8. 0 \in 0..size[file] /\ 0..0 - 1 = {}
    BY <2>6
  <2>9. Buffers'
    BY <2>1, <2>3, <2>4, <2>6, <2>7, <2>8 DEF Buffers
  <2> QED
    BY <2>1, <2>2, <2>4, <2>9
<1>4. CASE Read
  BY <1>4, ReadInv
<1>5. CASE Loaded
  BY <1>5, LoadedInv
<1>6. CASE Fail
  BY <1>6, FailInv
<1>7. CASE InitFails
  <2>1. /\ pc = "init" /\ pc' = "boot" /\ UNCHANGED <<options, data, length, phi2>>
        /\ file' = file /\ num_read' = num_read /\ data_pos' = data_pos
    BY <1>7 DEF InitFails
  <2>2. TypeOK' /\ Buffers'
    BY <2>1, KeepsFiles DEF TypeOK, Pcs, Done
  <2>3. phi2 = <<>>
    BY <2>1
  <2> QED
    BY <2>1, <2>2, <2>3 DEF options
<1>8. CASE InitMachine \/ InitBinary
  <2>1. /\ pc = "init" /\ pc' \in {"boot", "crashed"} /\ UNCHANGED <<options, data, length>>
        /\ file' = file /\ num_read' = num_read /\ data_pos' = data_pos
    BY <1>8 DEF InitMachine, InitBinary, SetUp
  <2>2. TypeOK' /\ Buffers'
    BY <2>1, KeepsFiles DEF TypeOK, Pcs, Done
  <2>3. pc' = "boot" => Mapped'
    BY <1>8, <2>1, MachineMapped, BinaryMapped
  <2> QED
    BY <2>1, <2>2, <2>3 DEF options
<1>9. CASE Boot
  <2>1. /\ pc = "boot" /\ pc' \in {"running", "crashed"} /\ (pc' = "running" => phi2 # <<>>)
        /\ UNCHANGED <<options, data, length, phi2>>
        /\ file' = file /\ num_read' = num_read /\ data_pos' = data_pos
    BY <1>9 DEF Boot
  <2>2. TypeOK' /\ Buffers'
    BY <2>1, KeepsFiles DEF TypeOK, Pcs, Done
  <2>3. Mapped => Mapped'
    BY <2>1, MappedStays
  <2> QED
    BY <2>1, <2>2, <2>3 DEF options
<1>10. CASE Interrupted
  <2>1. /\ pc = "read" /\ pc' = "read" /\ file' = file
        /\ UNCHANGED <<options, data, length, data_pos, phi2>> /\ num_read' = -1
    BY <1>10 DEF Interrupted, Reading
  <2>2. TypeOK'
    BY <2>1 DEF TypeOK, options
  <2>3. Buffers'
    BY <2>1, BuffersStay DEF Buffers, TypeOK
  <2> QED
    BY <2>1, <2>2, <2>3 DEF options
<1>11. CASE UNCHANGED vars
  <2>1. TypeOK' /\ Buffers'
    <3>1. TypeOK'
      BY <1>11 DEF vars, TypeOK
    <3>2. /\ UNCHANGED <<options, data, length, data_pos, pc, file>>
          /\ num_read' = num_read
      BY <1>11 DEF vars, options
    <3>3. pc = "read" => num_read' \in -1..data_pos
      BY <3>2 DEF Buffers
    <3> QED
      BY <3>1, <3>2, <3>3, BuffersStay
  <2>2. Mapped => Mapped'
    BY <1>11, MappedStays DEF vars, options
  <2> QED
    BY <1>11, <2>1, <2>2 DEF vars
<1> QED
  BY <1>1, <1>2, <1>3, <1>4, <1>5, <1>6, <1>7, <1>8, <1>9, <1>10, <1>11 DEF Next, Step

(***************************************************************************)
(* Files are whole in their buffers and chips are set up completely, for   *)
(* every file, every way of reading it and every failure (load_file, main, *)
(* init_apple1).                                                           *)
(***************************************************************************)
THEOREM StartupInvariant == Spec => []IInv
BY InitInv, NextInv, PTL DEF Spec

(***************************************************************************)
(* A machine that runs has the memory map, whatever the layout and the     *)
(* command line (init_apple1, init_apple1_binary, load_data).              *)
(***************************************************************************)
THEOREM MemoryIsMapped == Spec => []MemoryMap
<1>1. IInv => MemoryMap
  BY DEF IInv, MemoryMap
<1> QED
  BY <1>1, StartupInvariant, PTL
=============================================================================
