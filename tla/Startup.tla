------------------------------ MODULE Startup ------------------------------
(***************************************************************************)
(* From the command line to a machine that runs: main and load_file        *)
(* (main.c), init_apple1 and init_apple1_binary (apple1.c) with init_mem   *)
(* and load_data (mem.c), until boot_apple1 sets the processor up.         *)
(*                                                                         *)
(* main reads up to three files, each in as many reads as it takes, and    *)
(* hands buffers and lengths over; the chips are set up and connected to   *)
(* phi2 in a fixed order.  Failures are negative lengths and results of    *)
(* which several are dropped on the way.                                   *)
(*                                                                         *)
(* A byte is where it comes from: <<file, place>>.                         *)
(***************************************************************************)
EXTENDS Integers, Sequences

CONSTANTS
  MEMSIZE,                              \* of the address space
  MAX_USER_RAM,
  START_EXTRA_RAM, END_EXTRA_RAM,
  START_ROM, END_ROM,
  KBD, DSPCR,                           \* first and last register of the PIA
  RESET_VECTOR,
  SIZE,                                 \* size_t counts modulo SIZE
  ERROR_MEMORY_ALLOC, ERROR_READ_FILE, ERROR_OPEN_FILE,
  FileSizes,                            \* how long files are
  UserRam, LoadAddrs                    \* what -m and -l may name

Files   == {"rom", "extra", "binary"}
Address == 0..MEMSIZE - 1
Errors  == {ERROR_MEMORY_ALLOC, ERROR_READ_FILE, ERROR_OPEN_FILE}

ASSUME StartupAssumption ==
  /\ MEMSIZE \in Nat /\ MAX_USER_RAM \in Nat /\ SIZE \in Nat
  /\ START_EXTRA_RAM \in Nat /\ END_EXTRA_RAM \in Nat
  /\ START_ROM \in Nat /\ END_ROM \in Nat
  /\ KBD \in Nat /\ DSPCR \in Nat /\ RESET_VECTOR \in Nat
  /\ 0 < MAX_USER_RAM /\ MAX_USER_RAM <= KBD /\ KBD <= DSPCR
  /\ DSPCR < START_EXTRA_RAM /\ START_EXTRA_RAM <= END_EXTRA_RAM
  /\ END_EXTRA_RAM < START_ROM /\ START_ROM <= END_ROM /\ END_ROM < MEMSIZE
  /\ RESET_VECTOR + 1 < MEMSIZE
  /\ FileSizes \subseteq Nat
  /\ \A s \in FileSizes : s + MEMSIZE < SIZE
  /\ UserRam \subseteq 0..SIZE - 1
  /\ LoadAddrs \subseteq Address

ASSUME ErrorAssumption ==
  /\ ERROR_MEMORY_ALLOC \in Int /\ ERROR_READ_FILE \in Int /\ ERROR_OPEN_FILE \in Int
  /\ \A e \in Errors : e < 0 /\ MEMSIZE < SIZE + e

VARIABLES
  given, m, l,               \* the command line
  size,                      \* the files on the disk
  memory,                    \* whether calloc gives init_mem what it asks for
  pc, file,                  \* where main is, and with which file
  num_read, data_pos,        \* load_file's
  data, length,              \* its results
  phi2                       \* the chips on phi2, in the order they are clocked

options == <<given, m, l, size, memory>>
vars == <<given, m, l, size, memory, pc, file, num_read, data_pos, data, length, phi2>>

Unset   == <<"unset", 0>>    \* what malloc left there
Zero    == <<"zero", 0>>     \* calloc
Nothing == <<"none", 0>>     \* no chip answers
Start(k) == <<"start", k>>   \* a byte of -a

Init ==
  /\ given \in SUBSET Files
  /\ m \in UserRam /\ l \in LoadAddrs
  /\ size \in [Files -> FileSizes]
  /\ memory \in BOOLEAN
  /\ pc = "options" /\ file = "rom"
  /\ num_read = 0 /\ data_pos = 0
  /\ data = [f \in Files |-> <<>>] /\ length = [f \in Files |-> 0]
  /\ phi2 = <<>>

----------------------------------------------------------------------------
(* "need to specify -r or -b" *)
Options ==
  /\ pc = "options"
  /\ pc' = IF given \cap {"rom", "binary"} = {} THEN "exited" ELSE "open"
  /\ UNCHANGED <<options, file, num_read, data_pos, data, length, phi2>>

(* main goes on to the next file, *)
NextFile ==
  IF file = "binary" THEN pc' = "init" /\ file' = file
  ELSE pc' = "open" /\ file' = IF file = "rom" THEN "extra" ELSE "binary"

NotGiven ==
  /\ pc = "open" /\ file \notin given
  /\ NextFile
  /\ UNCHANGED <<options, num_read, data_pos, data, length, phi2>>

Opened ==
  /\ pc = "open" /\ file \in given
  /\ data' = [data EXCEPT ![file] = [p \in 0..size[file] - 1 |-> Unset]]
  /\ num_read' = 0 /\ data_pos' = 0
  /\ pc' = "read"
  /\ UNCHANGED <<options, file, length, phi2>>

Reading == pc = "read" /\ num_read # size[file]

(* A defect: what has been read before is overwritten. *)
ReadFromTheStart ==
  /\ Reading
  /\ \E k \in 0..size[file] - data_pos :
       /\ k = 0 => data_pos = size[file]
       /\ data' = [data EXCEPT ![file] =
                     [p \in 0..size[file] - 1 |->
                        IF p < k THEN <<file, data_pos + p>> ELSE data[file][p]]]
       /\ num_read' = k
       /\ data_pos' = data_pos + k
  /\ UNCHANGED <<options, pc, file, length, phi2>>

(* read(2) asks for the whole file, each time, and gives some of what is   *)
(* left, or nothing at the end of the file. *)
Read ==
  /\ Reading
  /\ \E k \in 0..size[file] - data_pos :
       /\ k = 0 => data_pos = size[file]
       /\ data' = [data EXCEPT ![file] =
                     [p \in 0..size[file] - 1 |->
                        IF p \in data_pos..data_pos + k - 1 THEN <<file, p>> ELSE data[file][p]]]
       /\ num_read' = k
       /\ data_pos' = data_pos + k
  /\ UNCHANGED <<options, pc, file, length, phi2>>

(* EINTR *)
Interrupted ==
  /\ Reading
  /\ num_read' = -1
  /\ UNCHANGED <<options, pc, file, data_pos, data, length, phi2>>

Loaded ==
  /\ pc = "read" /\ num_read = size[file]
  /\ length' = [length EXCEPT ![file] = size[file]]
  /\ NextFile
  /\ UNCHANGED <<options, num_read, data_pos, data, phi2>>

(* A defect: no length is tested. *)
FailOn ==
  /\ \/ pc = "open" /\ file \in given /\
          \E e \in {ERROR_OPEN_FILE, ERROR_MEMORY_ALLOC} : length' = [length EXCEPT ![file] = e]
     \/ Reading /\ length' = [length EXCEPT ![file] = ERROR_READ_FILE]
  /\ NextFile
  /\ UNCHANGED <<options, num_read, data_pos, data, phi2>>

(* open, malloc or read fails.  Of the binary's length, extra_length is    *)
(* tested. *)
Fail ==
  /\ \/ pc = "open" /\ file \in given /\
          \E e \in {ERROR_OPEN_FILE, ERROR_MEMORY_ALLOC} : length' = [length EXCEPT ![file] = e]
     \/ Reading /\ length' = [length EXCEPT ![file] = ERROR_READ_FILE]
  /\ IF length'["extra"] < 0 \/ length'["rom"] < 0
     THEN pc' = "exited" /\ file' = file
     ELSE NextFile
  /\ UNCHANGED <<options, num_read, data_pos, data, phi2>>

----------------------------------------------------------------------------
(* init_mem *)
Mem(start, end) == [start |-> start, end |-> end, mem |-> [a \in start..end |-> Zero]]

(* Conversions, of values at most one turn away. *)
size_t(x)   == IF x < 0 THEN x + SIZE ELSE IF x >= SIZE THEN x - SIZE ELSE x
uint16_t(x) == IF x < 0 THEN x + MEMSIZE ELSE x

(* load_data computes in size_t: a negative length comes round. *)
End(f, addr) == size_t(addr + size_t(length[f]))
Refused(c, f, addr) == addr < c.start \/ End(f, addr) > c.end + 1
Wild(c, f, addr) == ~Refused(c, f, addr) /\ length[f] < 0

(* Nobody looks at what load_data returns. *)
load_data(c, f, addr) ==
  IF Refused(c, f, addr) THEN c
  ELSE [c EXCEPT !.mem = [a \in c.start..c.end |->
                            IF a >= addr /\ a < addr + length[f]
                            THEN data[f][a - addr] ELSE c.mem[a]]]

(* A defect: the user's RAM is clocked last. *)
init_apple1_ram_last ==
  LET user == Mem(0, uint16_t(m - 1))
      extra == Mem(START_EXTRA_RAM, END_EXTRA_RAM)
      loaded == IF "extra" \in given THEN load_data(extra, "extra", START_EXTRA_RAM) ELSE extra
      rom == load_data(Mem(START_ROM, END_ROM), "rom", START_ROM)
      pia == [start |-> KBD, end |-> DSPCR, mem |-> [a \in KBD..DSPCR |-> <<"pia", a>>]]
  IN <<loaded, rom, pia, user>>

(* -m 0 wraps to the last address. *)
init_apple1 ==
  LET user == Mem(0, uint16_t(m - 1))
      extra == Mem(START_EXTRA_RAM, END_EXTRA_RAM)
      loaded == IF "extra" \in given THEN load_data(extra, "extra", START_EXTRA_RAM) ELSE extra
      rom == load_data(Mem(START_ROM, END_ROM), "rom", START_ROM)
      pia == [start |-> KBD, end |-> DSPCR, mem |-> [a \in KBD..DSPCR |-> <<"pia", a>>]]
  IN <<user, loaded, rom, pia>>

(* The start address goes over what has been loaded. *)
init_apple1_binary ==
  LET user == load_data(Mem(0, MEMSIZE - 1), "binary", l)
  IN <<[user EXCEPT !.mem = [a \in Address |->
          IF a \in {RESET_VECTOR, RESET_VECTOR + 1} THEN Start(a - RESET_VECTOR)
          ELSE user.mem[a]]]>>

(* What main does when either fails: it boots all the same. *)
InitFails ==
  /\ pc = "init"
  /\ ~memory \/ ("binary" \notin given /\ m > MAX_USER_RAM)
  /\ pc' = "boot"
  /\ UNCHANGED <<options, file, num_read, data_pos, data, length, phi2>>

(* memcpy with a length that has come round does not return. *)
SetUp(wild, chips) ==
  IF wild THEN pc' = "crashed" /\ UNCHANGED phi2
  ELSE pc' = "boot" /\ phi2' = chips

InitMachine ==
  /\ pc = "init" /\ memory
  /\ "binary" \notin given /\ m <= MAX_USER_RAM
  /\ SetUp(\/ Wild(Mem(START_ROM, END_ROM), "rom", START_ROM)
           \/ "extra" \in given /\
                Wild(Mem(START_EXTRA_RAM, END_EXTRA_RAM), "extra", START_EXTRA_RAM),
           init_apple1)
  /\ UNCHANGED <<options, file, num_read, data_pos, data, length>>

InitBinary ==
  /\ pc = "init" /\ memory
  /\ "binary" \in given
  /\ SetUp(Wild(Mem(0, MEMSIZE - 1), "binary", l), init_apple1_binary)
  /\ UNCHANGED <<options, file, num_read, data_pos, data, length>>

(* init_cpu pulls a reset line that only a complete set-up has connected. *)
Boot ==
  /\ pc = "boot"
  /\ pc' = IF phi2 = <<>> THEN "crashed" ELSE "running"
  /\ UNCHANGED <<options, file, num_read, data_pos, data, length, phi2>>

Step ==
  \/ Options \/ NotGiven \/ Opened \/ Read \/ Loaded \/ Fail
  \/ InitFails \/ InitMachine \/ InitBinary \/ Boot

Next == Step \/ Interrupted

Spec == Init /\ [][Next]_vars

(* Every call of the system returns. *)
FairSpec == Spec /\ WF_vars(Step)

----------------------------------------------------------------------------
Pcs == {"options", "open", "read", "init", "boot", "running", "crashed", "exited"}

(* The files that main has dealt with. *)
Done ==
  CASE pc \in {"options", "open", "read"} ->
         (CASE file = "rom" -> {} [] file = "extra" -> {"rom"} [] OTHER -> {"rom", "extra"})
    [] OTHER -> Files

Complete(f) ==
  /\ length[f] = size[f]
  /\ \A p \in 0..size[f] - 1 : data[f][p] = <<f, p>>

TypeOK ==
  /\ given \in SUBSET Files /\ m \in UserRam /\ l \in LoadAddrs
  /\ size \in [Files -> FileSizes] /\ memory \in BOOLEAN
  /\ pc \in Pcs /\ file \in Files
  /\ num_read \in Int /\ data_pos \in Nat
  /\ length \in [Files -> Int] /\ DOMAIN data = Files

(* A file is in its buffer as a whole, or its length says that it is not;  *)
(* load_file never writes outside the buffer, however short the reads are. *)
Buffers ==
  /\ \A f \in Done \cap given : pc # "exited" =>
       Complete(f) \/ (f = "binary" /\ length[f] \in Errors)
  /\ pc \in {"options", "open", "read"} => \A f \in Files \ Done : length[f] = 0
  /\ \A f \in Files \ given : length[f] = 0
  /\ pc = "read" =>
       /\ file \in given
       /\ DOMAIN data[file] = 0..size[file] - 1
       /\ \A p \in 0..data_pos - 1 : data[file][p] = <<file, p>>
       /\ data_pos <= size[file] /\ num_read \in -1..data_pos

(* The byte that the processor reads at a: the last chip that answers. *)
Answering(a) == {j \in 1..Len(phi2) : phi2[j].start <= a /\ a <= phi2[j].end}
Last(S) == CHOOSE j \in S : \A k \in S : k <= j
Seen(a) == IF Answering(a) = {} THEN Nothing ELSE phi2[Last(Answering(a))].mem[a]

(* Of a file that starts at start and has room up to end, all or nothing. *)
Part(f, start, end, a) ==
  IF start + size[f] <= end + 1 /\ start <= a /\ a < start + size[f]
  THEN <<f, a - start>> ELSE Zero

Extra == START_EXTRA_RAM..END_EXTRA_RAM
Rom   == START_ROM..END_ROM
Pia   == KBD..DSPCR

Apple1(a) ==
  CASE a \in Pia -> <<"pia", a>>
    [] a \in Rom -> Part("rom", START_ROM, END_ROM, a)
    [] a \in Extra ->
         IF "extra" \in given THEN Part("extra", START_EXTRA_RAM, END_EXTRA_RAM, a) ELSE Zero
    [] OTHER -> IF m = 0 \/ a < m THEN Zero ELSE Nothing

Binary(a) ==
  IF a \in {RESET_VECTOR, RESET_VECTOR + 1} THEN Start(a - RESET_VECTOR)
  ELSE IF length["binary"] < 0 THEN Zero
  ELSE Part("binary", l, MEMSIZE - 1, a)

Mapped ==
  \A a \in Address : Seen(a) = IF "binary" \in given THEN Binary(a) ELSE Apple1(a)

(***************************************************************************)
(* A machine that runs has each file where it belongs, byte by byte, or a  *)
(* memory full of zeroes where the file was too long (load_data's results  *)
(* are dropped, apple1.c:112, 125, 179), the PIA and the ROM in front of   *)
(* whatever -m asked for, 0 included, and the start address in the vector  *)
(* (init_apple1, init_apple1_binary).                                      *)
(***************************************************************************)
MemoryMap ==
  pc = "running" => Mapped

(***************************************************************************)
(* What the memory map rests on: files that are whole when the chips are   *)
(* set up, and chips that are set up completely or not at all              *)
(* (load_file, main, init_apple1).                                         *)
(***************************************************************************)
IInv ==
  /\ TypeOK /\ Buffers
  /\ pc \notin {"options", "exited"} => given \cap {"rom", "binary"} # {}
  /\ pc \in {"options", "open", "read", "init"} => phi2 = <<>>
  /\ pc \in {"boot", "running"} => Mapped \/ (pc = "boot" /\ phi2 = <<>>)

(* load_file has got the whole file in more than one read and asks on. *)
ReadShort == pc = "read" /\ data_pos = size[file] /\ num_read = 0 /\ size[file] # 0

(* A binary that could not be loaded (main.c:184), and results that main   *)
(* does not look at (main.c:192). *)
Unchecked ==
  \/ length["binary"] < 0
  \/ ~memory
  \/ m > MAX_USER_RAM

(***************************************************************************)
(* The program starts or refuses to (main); it crashes only for what it    *)
(* does not check, and hangs only after a read that came up short          *)
(* (main.c:82).                                                            *)
(***************************************************************************)
Starts ==
  <>(ReadShort \/ pc \in {"running", "exited"} \/ (pc = "crashed" /\ Unchecked))
=============================================================================
