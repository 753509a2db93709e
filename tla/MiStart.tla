------------------------------- MODULE MiStart -------------------------------
(***************************************************************************)
(* Start-up (init.c) and allocation (mi_alloc in mem.c).                   *)
(*                                                                         *)
(* Node 0 is started by hand, reads the host file, finds its own id by the *)
(* name of its user, and starts the program at every other host of the     *)
(* file by ssh, as the user the file names; each of these reads the file   *)
(* and looks for itself in the same way.  The nodes then make the same     *)
(* calls of mi_alloc, each for itself and without a message: they have to  *)
(* agree on the addresses and on the home of every page all the same.      *)
(*                                                                         *)
(* The file is the same everywhere (it is part of the working directory).  *)
(* A line of it is the sequence of its segments; of a segment only its     *)
(* value counts, and whether it is too long for the buffer.                *)
(***************************************************************************)
EXTENDS Integers, Sequences, FiniteSets

CONSTANTS
  Files,        \* the host files: sequences of lines
  LongWords,    \* the segments of WORDSIZE characters or more
  MAX_HOST_NUM, \* length of the array hosts
  Calls,        \* the sequences of sizes that a program may call mi_alloc with
  PAGESIZE,
  MAX_MEM_SIZE,
  IntMax,       \* the largest int
  PtrMax        \* the largest pointer

Node == 0 .. (MAX_HOST_NUM - 1)
Error == -1
NoSegment == "-1" \* readSegFromStr's -1
Empty == ""       \* a string of no characters
MaxPage == MAX_MEM_SIZE \div PAGESIZE

ASSUME PageAssumption == PAGESIZE \in Nat \ {0} /\ MAX_MEM_SIZE \in Nat
ASSUME WidthAssumption == /\ IntMax \in Nat /\ PtrMax \in Nat
                          /\ MAX_MEM_SIZE + PAGESIZE <= IntMax /\ MAX_MEM_SIZE + IntMax < PtrMax
ASSUME CallsAssumption == \A c \in Calls : c \in Seq((-IntMax - 1) .. IntMax)
ASSUME HostsAssumption == MAX_HOST_NUM \in Nat \ {0}
ASSUME WordsAssumption == Empty \notin LongWords

VARIABLES
  file,          \* the host file
  calls,         \* the calls of mi_alloc that the program makes
  stage,         \* stage[n]: "off", "reading", "starting" (mi_init) or "up"
  user,          \* user[n]: the user that node n runs as
  hosts,         \* hosts[n]: the table of node n, a sequence of hostnum entries
  myhostid,      \* myhostid[n]
  started,       \* started[n]: how many hosts node n has gone through in startNodePrograms
  starts,        \* history: starts[n]: how often the program was started at host n
  globalAddress, \* globalAddress[n]: where the next region begins
  pages,         \* pages[n]: the pageArray of node n: first state and address of each page
  regions        \* history: regions[n]: what mi_alloc returned, and for which size

vars == <<file, calls, stage, user, hosts, myhostid, started, starts, globalAddress, pages,
          regions>>

-----------------------------------------------------------------------------
(* readSegFromStr: the loop reads segment after segment until index is      *)
(* below 0 or the line ends, and a segment that does not fit is an error.   *)
(* At the end of the line the segment read last is returned unless index    *)
(* is still above 0. An empty line has one segment without characters.      *)

Segments(line) == IF line = << >> THEN <<Empty>> ELSE line

(* How many segments the loop reads. *)
SegmentsRead(line, index) ==
  IF index < Len(Segments(line)) THEN index + 1 ELSE Len(Segments(line))

(* Mutant: nothing is tested at the end of the line. *)
NeverMissing(line, index) == FALSE

(* The line has ended and index is still above 0. *)
Missing(line, index) == index - Len(Segments(line)) > 0

readSegFromStr(line, index) ==
  LET n == SegmentsRead(line, index)
  IN IF \/ \E i \in 1 .. n : Segments(line)[i] \in LongWords
        \/ Missing(line, index)
     THEN NoSegment ELSE Segments(line)[n]

(* The buffer keeps what it held if there was an error, and the result of   *)
(* readAddrFromStr and readNameFromStr is not looked at: the line counts.   *)
Buffer(line, index) == IF readSegFromStr(line, index) = NoSegment THEN Empty
                       ELSE readSegFromStr(line, index)

HostOf(line) == [address |-> Buffer(line, 0), username |-> Buffer(line, 1)]

(* The first host of that name; ids begin at 0. *)
findHostIdByName(table, name) ==
  LET found == {i \in DOMAIN table : table[i].username = name}
  IN IF found = {} THEN Error ELSE (CHOOSE i \in found : \A j \in found : i <= j) - 1

(* What is asked of a host file: no more lines than hosts has room for, and *)
(* a user of its own at every host, since a node knows itself by its user.  *)
ASSUME FilesAssumption ==
  \A f \in Files :
    /\ f \in Seq(Seq(STRING)) /\ Len(f) \in 1 .. MAX_HOST_NUM
    /\ HostOf(f[1]).username # Empty
    /\ \A i, j \in DOMAIN f : HostOf(f[i]).username = HostOf(f[j]).username => i = j

-----------------------------------------------------------------------------
Init == /\ file \in Files
        /\ calls \in Calls
        /\ stage = [n \in Node |-> IF n = 0 THEN "reading" ELSE "off"]
        /\ user = [n \in Node |-> IF n = 0 THEN HostOf(file[1]).username ELSE Empty]
        /\ hosts = [n \in Node |-> << >>]
        /\ myhostid = [n \in Node |-> 0]
        /\ started = [n \in Node |-> 0]
        /\ starts = [n \in Node |-> IF n = 0 THEN 1 ELSE 0]
        /\ globalAddress = [n \in Node |-> 0]
        /\ pages = [n \in Node |-> << >>]
        /\ regions = [n \in Node |-> << >>]

(* readHosts: one line. *)
ReadLine(n) ==
  /\ stage[n] = "reading"
  /\ Len(hosts[n]) < Len(file)
  /\ hosts' = [hosts EXCEPT ![n] = Append(@, HostOf(file[Len(@) + 1]))]
  /\ UNCHANGED <<file, calls, stage, user, myhostid, started, starts, globalAddress, pages, regions>>

(* initLocalEnv: the id is looked up; host 0 goes on to start the others. *)
FindMyself(n) ==
  /\ stage[n] = "reading"
  /\ Len(hosts[n]) = Len(file)
  /\ LET id == findHostIdByName(hosts[n], user[n])
     IN /\ myhostid' = [myhostid EXCEPT ![n] = id]
        /\ stage' = [stage EXCEPT ![n] = IF id = 0 THEN "starting" ELSE "up"]
  /\ UNCHANGED <<file, calls, user, hosts, started, starts, globalAddress, pages, regions>>

(* Mutant: node 0 starts the program at its own host, too. *)
FirstToStartZero(n) == started[n]

(* The host that the loop in startNodePrograms has come to. *)
FirstToStart(n) == started[n] + 1

(* startNodePrograms: ssh to the next host of the table, as its user. There *)
(* is nobody to log in as where the line gave no name.                      *)
StartNode(n) ==
  /\ stage[n] = "starting"
  /\ FirstToStart(n) < Len(hosts[n])
  /\ LET i == FirstToStart(n)
     IN IF hosts[n][i + 1].username = Empty
        THEN UNCHANGED <<starts, user, stage, hosts>>
        ELSE /\ starts' = [starts EXCEPT ![i] = @ + 1]
             /\ user' = [user EXCEPT ![i] = hosts[n][i + 1].username]
             /\ stage' = [stage EXCEPT ![i] = "reading"]
             /\ hosts' = [hosts EXCEPT ![i] = << >>]
  /\ started' = [started EXCEPT ![n] = @ + 1]
  /\ UNCHANGED <<file, calls, myhostid, globalAddress, pages, regions>>

AllStarted(n) ==
  /\ stage[n] = "starting"
  /\ FirstToStart(n) >= Len(hosts[n])
  /\ stage' = [stage EXCEPT ![n] = "up"]
  /\ UNCHANGED <<file, calls, user, hosts, myhostid, started, starts, globalAddress, pages, regions>>

-----------------------------------------------------------------------------
(* mi_alloc *)

(* What an int holds after an operation with that result. *)
Int32(x) == ((x + IntMax + 1) % (2 * IntMax + 2)) - (IntMax + 1)

(* Mutant: a size is rounded down. *)
RoundedDown(size) == (size \div PAGESIZE) * PAGESIZE

(* The size in whole pages, as an int. *)
Rounded(size) ==
  IF size % PAGESIZE = 0 THEN size ELSE Int32((size \div PAGESIZE + 1) * PAGESIZE)

(* rsize + globalAddress > MAX_MEM_SIZE, compared as pointers. *)
TooBig(rsize, address) == ((rsize + address) % (PtrMax + 1)) > MAX_MEM_SIZE

(* Mutant: pages are dealt out over the whole table. *)
HomeInTable(n, p) == p % MAX_HOST_NUM

(* The home of page p. *)
Home(n, p) == p % Len(hosts[n])

(* Page by page: the home has it readable, the others do not have it. *)
NewPages(n, rsize) ==
  LET first == Len(pages[n])
  IN [i \in 1 .. rsize \div PAGESIZE |->
        [state |-> IF Home(n, first + i - 1) = myhostid[n] THEN "RDONLY" ELSE "MISS",
         address |-> globalAddress[n] + (i - 1) * PAGESIZE]]

Region(start, rsize, size) == [start |-> start, length |-> rsize, size |-> size]
Null == Region(Error, 0, 0)

(* The next call of the program. *)
Alloc(n) ==
  /\ stage[n] = "up"
  /\ Len(regions[n]) < Len(calls)
  /\ LET size == calls[Len(regions[n]) + 1]
         rsize == Rounded(size)
     IN IF size <= 0 \/ TooBig(rsize, globalAddress[n])
        THEN /\ regions' = [regions EXCEPT ![n] = Append(@, Null)]
             /\ UNCHANGED <<globalAddress, pages>>
        ELSE /\ pages' = [pages EXCEPT ![n] = @ \o NewPages(n, rsize)]
             /\ globalAddress' = [globalAddress EXCEPT ![n] = @ + rsize]
             /\ regions' = [regions EXCEPT ![n] = Append(@, Region(globalAddress[n], rsize, size))]
  /\ UNCHANGED <<file, calls, stage, user, hosts, myhostid, started, starts>>

-----------------------------------------------------------------------------
Next == \E n \in Node : \/ ReadLine(n) \/ FindMyself(n) \/ StartNode(n) \/ AllStarted(n)
                        \/ Alloc(n)

Spec == Init /\ [][Next]_vars

-----------------------------------------------------------------------------
(* Properties *)

(* Type invariant: the tables stay within their arrays, and every page      *)
(* within the shared memory.                                                *)
StartTypeOK == /\ stage \in [Node -> {"off", "reading", "starting", "up"}]
               /\ myhostid \in [Node -> Node \cup {Error}]
               /\ \A n \in Node : /\ Len(hosts[n]) <= MAX_HOST_NUM
                                  /\ Len(pages[n]) <= MaxPage
                                  /\ globalAddress[n] \in 0 .. MAX_MEM_SIZE

(* The segment that the comment of readSegFromStr promises. *)
SegmentAt(line, index) ==
  IF index < Len(line) /\ \A i \in 1 .. index + 1 : line[i] \notin LongWords
  THEN line[index + 1] ELSE NoSegment

(* readSegFromStr returns the segment asked for, or an error if the line    *)
(* has none or it does not fit, but for the one index past the last         *)
(* segment: there "index > 0" lets the last segment through.                *)
SegmentsFound ==
  \A i \in DOMAIN file : \A index \in 0 .. Len(file[i]) + 2 :
    index # Len(Segments(file[i])) =>
      readSegFromStr(file[i], index) =
        IF file[i] = << >> /\ index = 0 THEN Empty ELSE SegmentAt(file[i], index)

(* The program that was started at the i-th host of the file takes itself   *)
(* for host i, is started there once, and only node 0 starts others: with   *)
(* two ids alike, or a second host 0, every later message goes astray.      *)
NodesKnowThemselves ==
  \A n \in Node : /\ stage[n] \in {"starting", "up"} => myhostid[n] = n
                  /\ starts[n] <= 1

(* Nodes that have made the same calls have the same pages at the same      *)
(* addresses, and every page has its first copy at exactly one of the       *)
(* hosts, although mi_alloc sends no message.                               *)
PagesAgree ==
  /\ \A n, m \in Node : \A i \in DOMAIN regions[n] \cap DOMAIN regions[m] :
       regions[n][i] = regions[m][i]
  /\ \A n, m \in Node : \A p \in DOMAIN pages[n] \cap DOMAIN pages[m] :
       /\ pages[n][p].address = pages[m][p].address
       /\ pages[n][p].state = "RDONLY" /\ pages[m][p].state = "RDONLY" => n = m
  /\ \A p \in 1 .. MaxPage :
       (\A n \in 0 .. Len(file) - 1 : p \in DOMAIN pages[n])
         => \E n \in 0 .. Len(file) - 1 : pages[n][p].state = "RDONLY"

(* A region that mi_alloc returns has room for what was asked, begins on a  *)
(* page boundary, lies in the shared memory and overlaps no other, for      *)
(* sizes up to the largest int, where rounding up overflows.                *)
RegionsSound ==
  \A n \in Node : \A i \in DOMAIN regions[n] :
    LET r == regions[n][i]
    IN r # Null =>
         /\ r.length >= r.size /\ r.start % PAGESIZE = 0
         /\ r.start + r.length <= MAX_MEM_SIZE
         /\ \A j \in DOMAIN regions[n] : j < i =>
              regions[n][j].start + regions[n][j].length <= r.start
=============================================================================
