---------------------------- MODULE MiPackProofs ----------------------------
(***************************************************************************)
(* Theorems about start-up and allocation, for every host file, every      *)
(* sequence of calls of mi_alloc, every page size and every width of the   *)
(* integers; and about the transfer of write notices, for every number of  *)
(* intervals and of notices in them, every size of packets and messages    *)
(* and every number of hosts.                                              *)
(*                                                                         *)
(* A transfer is a run of packets cut into messages.  The invariant ties   *)
(* the pieces together: what a host has taken, the messages on their way   *)
(* to it and the message being filled each go on where the one before      *)
(* stops, and the one that is last stops at the next notice to pack.  The  *)
(* pieces are compared by their ends, so that no sequence of messages has  *)
(* to be flattened.  From it follow Stamped and Arrive.  A second          *)
(* invariant, RoomInv, counts the packets of a message: PackTypeCorrect.   *)
(***************************************************************************)
EXTENDS MiPack, SequenceTheorems, TLAPS

-----------------------------------------------------------------------------
(* Start-up and allocation, StartInv: arithmetic first *)

(* A multiple of the page size. *)
LEMMA Multiples ==
  ASSUME NEW k \in Int, NEW b \in Nat \ {0}
  PROVE (k * b) % b = 0 /\ (k * b) \div b = k /\ k * b \in Int
        /\ \A m \in Int : k * b =< m => k =< m \div b
OBVIOUS

(* Quotient and rest. *)
LEMMA Quotient ==
  ASSUME NEW a \in Int, NEW b \in Nat \ {0}
  PROVE a = (a \div b) * b + (a % b) /\ a % b \in 0 .. b - 1 /\ a \div b \in Int
OBVIOUS

(* Rounded(size) when it does not overflow: the next multiple of the page.  *)
LEMMA RoundedUp ==
  ASSUME NEW size \in 1 .. IntMax
  PROVE /\ Rounded(size) \in Int
        /\ \/ /\ \E k \in Nat \ {0} : Rounded(size) = k * PAGESIZE
              /\ Rounded(size) >= size /\ Rounded(size) =< IntMax
           \/ Rounded(size) < -MAX_MEM_SIZE /\ Rounded(size) >= -IntMax - 1
<1> DEFINE q == size \div PAGESIZE
           r == size % PAGESIZE
           up == (q + 1) * PAGESIZE
<1>1. /\ PAGESIZE \in Nat /\ PAGESIZE > 0 /\ IntMax \in Nat /\ MAX_MEM_SIZE \in Nat
      /\ MAX_MEM_SIZE + PAGESIZE =< IntMax
  BY PageAssumption, WidthAssumption
<1>2. size = q * PAGESIZE + r /\ r \in 0 .. PAGESIZE - 1 /\ q \in Int /\ size \in Int /\ size > 0 /\ size =< IntMax
  BY <1>1, Quotient
<1>3. up = q * PAGESIZE + PAGESIZE /\ up \in Int /\ q * PAGESIZE \in Int
  BY <1>1, <1>2
<1>4. Rounded(size) = IF r = 0 THEN size ELSE Int32(up)
  BY DEF Rounded
<1>5. q >= 0
  BY <1>1, <1>2
<1> HIDE DEF q, r, up
<1>6. CASE r = 0
  <2>1. q # 0
    BY <1>1, <1>2, <1>6
  <2>2. q \in Nat \ {0} /\ Rounded(size) = q * PAGESIZE /\ Rounded(size) = size
    BY <1>2, <1>3, <1>4, <1>5, <1>6, <2>1
  <2> QED BY <1>1, <1>2, <2>2
<1>7. CASE r # 0
  <2>1. up > size /\ up =< IntMax + PAGESIZE
    BY <1>1, <1>2, <1>3, <1>7
  <2>2. Rounded(size) = ((up + IntMax + 1) % (2 * IntMax + 2)) - (IntMax + 1)
    BY <1>4, <1>7 DEF Int32
  <2>3. CASE up =< IntMax
    <3>1. Rounded(size) = up
      BY <1>1, <1>2, <1>3, <2>1, <2>2, <2>3
    <3>2. q + 1 \in Nat \ {0} /\ Rounded(size) = (q + 1) * PAGESIZE
      BY <1>2, <1>5, <3>1 DEF up
    <3> QED BY <1>1, <1>3, <2>1, <2>3, <3>1, <3>2
  <2>4. CASE up > IntMax
    <3>1. Rounded(size) = up - (2 * IntMax + 2)
      BY <1>1, <1>2, <1>3, <2>1, <2>2, <2>4
    <3> QED BY <1>1, <1>2, <1>3, <2>1, <2>4, <3>1
  <2> QED BY <1>1, <1>3, <2>3, <2>4
<1> QED BY <1>6, <1>7

(* A call that is not refused gets whole pages that fit, and the size asked *)
(* for: a rounding that overflowed is always refused.                       *)
LEMMA Granted ==
  ASSUME NEW size \in (-IntMax - 1) .. IntMax, size > 0, NEW a \in 0 .. MAX_MEM_SIZE,
         ~TooBig(Rounded(size), a)
  PROVE /\ \E k \in Nat \ {0} : Rounded(size) = k * PAGESIZE
        /\ Rounded(size) >= size /\ Rounded(size) + a =< MAX_MEM_SIZE /\ Rounded(size) \in Nat
<1>1. /\ IntMax \in Nat /\ MAX_MEM_SIZE \in Nat /\ PtrMax \in Nat
      /\ MAX_MEM_SIZE + IntMax < PtrMax /\ MAX_MEM_SIZE =< IntMax /\ PAGESIZE \in Nat \ {0}
  BY PageAssumption, WidthAssumption
<1>2. size \in 1 .. IntMax /\ a \in Int /\ a >= 0 /\ a =< MAX_MEM_SIZE
  BY <1>1
<1>3. ((Rounded(size) + a) % (PtrMax + 1)) =< MAX_MEM_SIZE /\ Rounded(size) \in Int
  BY <1>1, <1>2, RoundedUp DEF TooBig
<1>4. CASE Rounded(size) < -MAX_MEM_SIZE /\ Rounded(size) >= -IntMax - 1
  <2>1. (Rounded(size) + a) % (PtrMax + 1) = Rounded(size) + a + PtrMax + 1
    BY <1>1, <1>2, <1>3, <1>4
  <2> QED BY <1>1, <1>2, <1>3, <1>4, <2>1
<1>5. CASE /\ \E k \in Nat \ {0} : Rounded(size) = k * PAGESIZE
           /\ Rounded(size) >= size /\ Rounded(size) =< IntMax
  <2>1. (Rounded(size) + a) % (PtrMax + 1) = Rounded(size) + a
    BY <1>1, <1>2, <1>3, <1>5
  <2> QED BY <1>1, <1>2, <1>3, <1>5, <2>1
<1> QED BY <1>2, <1>4, <1>5, RoundedUp

-----------------------------------------------------------------------------
(* The invariant *)

Entry == {HostOf(file[i]) : i \in 1 .. Len(file)}
Name(i) == HostOf(file[i]).username
Names == {Name(i) : i \in 1 .. Len(file)} \cup {Empty}
Page == [state : {"RDONLY", "MISS"}, address : Int]
RegionType == [start : Int, length : Int, size : Int]

Shape ==
  /\ file \in Files /\ calls \in Calls
  /\ stage \in [Node -> {"off", "reading", "starting", "up"}]
  /\ user \in [Node -> Names]
  /\ hosts \in [Node -> Seq(Entry)]
  /\ myhostid \in [Node -> Node \cup {Error}]
  /\ started \in [Node -> Nat] /\ starts \in [Node -> Nat]
  /\ globalAddress \in [Node -> 0 .. MAX_MEM_SIZE]
  /\ pages \in [Node -> Seq(Page)]
  /\ regions \in [Node -> Seq(RegionType)]

(* What node n knows of the file and of itself.  A node that node 0 has not *)
(* come to yet has not been started.                                        *)
Knows(n) ==
  /\ Len(hosts[n]) =< Len(file) /\ \A i \in 1 .. Len(hosts[n]) : hosts[n][i] = HostOf(file[i])
  /\ stage[n] # "off" => n < Len(file) /\ user[n] = Name(n + 1)
  /\ stage[n] \in {"starting", "up"} => Len(hosts[n]) = Len(file) /\ myhostid[n] = n
  /\ stage[n] = "starting" => n = 0
  /\ starts[n] =< 1
  /\ n > started[0] => starts[n] = 0 /\ stage[n] = "off"

(* The page at place p of every node's pageArray, from the number of hosts  *)
(* alone.                                                                   *)
PageAt(n, p) == [state |-> IF (p - 1) % Len(file) = n THEN "RDONLY" ELSE "MISS",
                 address |-> (p - 1) * PAGESIZE]

(* The pages of node n fill the memory that it has given away. *)
Paged(n) ==
  /\ stage[n] # "up" => pages[n] = << >> /\ regions[n] = << >>
  /\ globalAddress[n] = Len(pages[n]) * PAGESIZE
  /\ \A p \in 1 .. Len(pages[n]) : pages[n][p] = PageAt(n, p)

(* After the first i regions of r the next one begins at a. *)
NextAt(r, i, a) ==
  \/ a = 0 /\ \A j \in 1 .. i : r[j] = Null
  \/ \E j \in 1 .. i : /\ r[j] # Null /\ a = r[j].start + r[j].length
                       /\ \A k \in j + 1 .. i : r[k] = Null

(* What mi_alloc returns for a size when the next region begins at a. *)
Returned(size, a) == IF size <= 0 \/ TooBig(Rounded(size), a) THEN Null ELSE Region(a, Rounded(size), size)

(* The regions of node n: sound, in ascending order, and each of them what  *)
(* mi_alloc had to return after the ones before it.                         *)
RegionGood(cs, s, i, b) ==
  LET r == s[i]
  IN /\ \E a \in 0 .. MAX_MEM_SIZE : NextAt(s, i - 1, a) /\ r = Returned(cs[i], a)
     /\ r.start + r.length =< b
     /\ r # Null => /\ r.length >= r.size /\ r.start % PAGESIZE = 0
                    /\ \A j \in 1 .. i - 1 : s[j].start + s[j].length =< r.start
Regioned(n) ==
  /\ Len(regions[n]) =< Len(calls)
  /\ NextAt(regions[n], Len(regions[n]), globalAddress[n])
  /\ \A i \in 1 .. Len(regions[n]) : RegionGood(calls, regions[n], i, globalAddress[n])

(* Two nodes got the same from the calls that both have made. *)
Alike(n, m) == \A i \in 1 .. Len(regions[n]) : i =< Len(regions[m]) => regions[n][i] = regions[m][i]

StartInv == /\ Shape
            /\ \A n \in Node : Knows(n) /\ Paged(n) /\ Regioned(n)
            /\ \A n, m \in Node : Alike(n, m)

-----------------------------------------------------------------------------
(* Lemmas *)

(* What the assumptions say of the file and of the calls. *)
LEMMA FileFacts ==
  ASSUME Shape
  PROVE /\ Len(file) \in Nat /\ Len(file) >= 1 /\ Len(file) =< MAX_HOST_NUM
        /\ Name(1) # Empty
        /\ \A i, j \in 1 .. Len(file) : Name(i) = Name(j) => i = j
        /\ 0 \in Node /\ Node \subseteq Nat /\ \A n \in Node : n < MAX_HOST_NUM
        /\ \A i \in Nat : i < Len(file) => i \in Node
        /\ Len(calls) \in Nat /\ \A i \in 1 .. Len(calls) : calls[i] \in (-IntMax - 1) .. IntMax
<1>1. file \in Seq(Seq(STRING)) /\ Len(file) \in 1 .. MAX_HOST_NUM
  BY FilesAssumption DEF Shape
<1>2. HostOf(file[1]).username # Empty
      /\ \A i, j \in DOMAIN file : HostOf(file[i]).username = HostOf(file[j]).username => i = j
  BY FilesAssumption DEF Shape
<1>3. DOMAIN file = 1 .. Len(file)
  BY <1>1
<1>4. calls \in Seq((-IntMax - 1) .. IntMax)
  BY CallsAssumption DEF Shape
<1>5. Len(calls) \in Nat /\ \A i \in 1 .. Len(calls) : calls[i] \in (-IntMax - 1) .. IntMax
  <2> DEFINE S == (-IntMax - 1) .. IntMax
  <2> HIDE DEF S
  <2>1. calls \in Seq(S)
    BY <1>4 DEF S
  <2>2. Len(calls) \in Nat /\ \A i \in 1 .. Len(calls) : calls[i] \in S
    BY <2>1
  <2> QED BY <2>2 DEF S
<1>6. 0 \in Node /\ Node \subseteq Nat /\ \A n \in Node : n < MAX_HOST_NUM
  BY HostsAssumption DEF Node
<1>7. \A i \in Nat : i < Len(file) => i \in Node
  BY <1>1, HostsAssumption DEF Node
<1>8. Name(1) # Empty /\ \A i, j \in 1 .. Len(file) : Name(i) = Name(j) => i = j
  BY <1>2, <1>3 DEF Name
<1>9. Len(file) \in Nat /\ Len(file) >= 1 /\ Len(file) =< MAX_HOST_NUM
  BY <1>1, HostsAssumption
<1> QED BY <1>5, <1>6, <1>7, <1>8, <1>9

(* Append, element by element. *)
LEMMA Appended ==
  ASSUME NEW S, NEW s \in Seq(S), NEW e \in S
  PROVE /\ Append(s, e) \in Seq(S) /\ Len(Append(s, e)) = Len(s) + 1 /\ Len(s) \in Nat
        /\ \A i \in 1 .. Len(s) : Append(s, e)[i] = s[i]
        /\ Append(s, e)[Len(s) + 1] = e
OBVIOUS

(* A node that looks itself up finds the line that it was started for: the  *)
(* users are different.                                                     *)
LEMMA Found ==
  ASSUME Shape, NEW n \in Node, n < Len(file), Len(hosts[n]) = Len(file),
         \A i \in 1 .. Len(hosts[n]) : hosts[n][i] = HostOf(file[i])
  PROVE findHostIdByName(hosts[n], Name(n + 1)) = n
<1> DEFINE found == {i \in DOMAIN hosts[n] : hosts[n][i].username = Name(n + 1)}
<1>1. DOMAIN hosts[n] = 1 .. Len(file) /\ n + 1 \in 1 .. Len(file) /\ n \in Int
  BY SMTT(30), FileFacts DEF Shape
<1>2. \A i \in 1 .. Len(file) : hosts[n][i].username = Name(i)
  BY DEF Name
<1>3. found = {n + 1}
  BY <1>1, <1>2, FileFacts
<1> DEFINE first == CHOOSE i \in found : \A j \in found : i <= j
<1>4. first = n + 1
  BY <1>1, <1>3
<1>5. findHostIdByName(hosts[n], Name(n + 1)) = IF found = {} THEN Error ELSE first - 1
  BY DEF findHostIdByName
<1> HIDE DEF found, first
<1> QED BY <1>1, <1>3, <1>4, <1>5

(* Only one address is the next one. *)
LEMMA NextUnique ==
  ASSUME NEW r, NEW i \in Nat, NEW a, NEW b, NextAt(r, i, a), NextAt(r, i, b)
  PROVE a = b
<1>1. CASE \E j \in 1 .. i : r[j] # Null
  <2>1. PICK j \in 1 .. i : r[j] # Null /\ a = r[j].start + r[j].length /\ \A k \in j + 1 .. i : r[k] = Null
    BY <1>1 DEF NextAt
  <2>2. PICK l \in 1 .. i : r[l] # Null /\ b = r[l].start + r[l].length /\ \A k \in l + 1 .. i : r[k] = Null
    BY <1>1 DEF NextAt
  <2>3. j = l
    BY <2>1, <2>2
  <2> QED BY <2>1, <2>2, <2>3
<1>2. CASE \A j \in 1 .. i : r[j] = Null
  BY <1>2 DEF NextAt
<1> QED BY <1>1, <1>2

(* The next address depends on the first i regions only. *)
LEMMA NextSame ==
  ASSUME NEW r, NEW s, NEW i \in Nat, NEW a, NextAt(r, i, a), \A j \in 1 .. i : r[j] = s[j]
  PROVE NextAt(s, i, a)
<1>1. CASE a = 0 /\ \A j \in 1 .. i : r[j] = Null
  BY <1>1 DEF NextAt
<1>2. CASE \E j \in 1 .. i : /\ r[j] # Null /\ a = r[j].start + r[j].length
                             /\ \A k \in j + 1 .. i : r[k] = Null
  <2>1. PICK j \in 1 .. i : /\ r[j] # Null /\ a = r[j].start + r[j].length
                            /\ \A k \in j + 1 .. i : r[k] = Null
    BY <1>2
  <2>2. s[j] = r[j] /\ \A k \in j + 1 .. i : s[k] = Null
    BY <2>1
  <2> QED BY <2>1, <2>2 DEF NextAt
<1> QED BY <1>1, <1>2 DEF NextAt

-----------------------------------------------------------------------------
(* Start-up keeps the invariant *)

(* Steps of start-up leave the memory alone. *)
LEMMA MemoryFrame ==
  ASSUME StartInv, Shape', UNCHANGED <<file, calls, globalAddress, pages, regions>>,
         \A n \in Node : Knows(n)', \A n \in Node : stage[n] = "up" => stage'[n] = "up"
  PROVE StartInv'
<1>1. ASSUME NEW n \in Node PROVE Paged(n)' /\ Regioned(n)'
  <2>1. Paged(n)'
    BY DEF StartInv, Paged, PageAt
  <2>2. Regioned(n)'
    BY DEF StartInv, Regioned, RegionGood
  <2> QED BY <2>1, <2>2
<1>2. \A n, m \in Node : Alike(n, m)'
  BY DEF StartInv, Alike
<1> QED BY <1>1, <1>2 DEF StartInv

(* readHosts reads a line. *)
LEMMA ReadLineStep == ASSUME StartInv, NEW n \in Node, ReadLine(n) PROVE StartInv'
<1> DEFINE e == HostOf(file[Len(hosts[n]) + 1])
<1>1. Shape /\ Knows(n) /\ hosts[n] \in Seq(Entry) /\ Len(hosts[n]) \in Nat
  BY DEF StartInv, Shape
<1>2. e \in Entry /\ hosts' = [hosts EXCEPT ![n] = Append(hosts[n], e)] /\ Len(hosts[n]) < Len(file)
  <2>1. Len(hosts[n]) < Len(file)
    BY DEF ReadLine
  <2>2. Len(hosts[n]) + 1 \in 1 .. Len(file)
    BY <1>1, <2>1, FileFacts
  <2> QED BY <2>1, <2>2 DEF ReadLine, Entry
<1> HIDE DEF e
<1>3. /\ Append(hosts[n], e) \in Seq(Entry) /\ Len(Append(hosts[n], e)) = Len(hosts[n]) + 1
      /\ \A i \in 1 .. Len(hosts[n]) : Append(hosts[n], e)[i] = hosts[n][i]
      /\ Append(hosts[n], e)[Len(hosts[n]) + 1] = e
  BY <1>1, <1>2, Appended
<1>4. Entry' = Entry /\ Names' = Names
  BY DEF Entry, Names, Name, ReadLine
<1>5. Shape'
  BY <1>1, <1>2, <1>3, <1>4 DEF Shape, ReadLine
<1>6. ASSUME NEW m \in Node PROVE Knows(m)'
  <2>1. Knows(m)
    BY DEF StartInv
  <2>2. CASE m = n
    <3>1. hosts'[n] = Append(hosts[n], e)
      BY <1>1, <1>2 DEF Shape
    <3>2. /\ Len(hosts'[n]) =< Len(file)
          /\ \A i \in 1 .. Len(hosts'[n]) : hosts'[n][i] = HostOf(file[i])
      BY <1>1, <1>2, <1>3, <3>1, FileFacts DEF e, Knows
    <3> QED BY <2>1, <2>2, <3>2 DEF Knows, ReadLine, Name
  <2>3. CASE m # n
    BY <1>1, <1>2, <2>1, <2>3 DEF Knows, ReadLine, Shape, Name
  <2> QED BY <2>2, <2>3
<1> QED BY <1>5, <1>6, MemoryFrame DEF ReadLine

(* initLocalEnv looks up the id. *)
LEMMA FindMyselfStep == ASSUME StartInv, NEW n \in Node, FindMyself(n) PROVE StartInv'
<1>1. Shape /\ Knows(n) /\ stage[n] = "reading" /\ Len(hosts[n]) = Len(file)
  BY DEF StartInv, FindMyself
<1>2. findHostIdByName(hosts[n], user[n]) = n
  BY <1>1, Found DEF Knows
<1>3. /\ myhostid' = [myhostid EXCEPT ![n] = n]
      /\ stage' = [stage EXCEPT ![n] = IF n = 0 THEN "starting" ELSE "up"]
  BY <1>2 DEF FindMyself
<1>4. Entry' = Entry /\ Names' = Names
  BY DEF Entry, Names, Name, FindMyself
<1>5. Shape'
  BY <1>1, <1>3, <1>4 DEF Shape, FindMyself
<1>6. ASSUME NEW m \in Node PROVE Knows(m)'
  <2>1. Knows(m)
    BY DEF StartInv
  <2>2. CASE m = n
    <3>1. stage'[n] = (IF n = 0 THEN "starting" ELSE "up") /\ myhostid'[n] = n
      BY <1>1, <1>3 DEF Shape
    <3> QED BY <1>1, <2>1, <2>2, <3>1 DEF Knows, FindMyself, Name
  <2>3. CASE m # n
    <3>1. stage'[m] = stage[m] /\ myhostid'[m] = myhostid[m]
      BY <1>1, <1>3, <2>3 DEF Shape
    <3> QED BY <2>1, <3>1 DEF Knows, FindMyself, Name
  <2> QED BY <2>2, <2>3
<1>7. \A m \in Node : stage[m] = "up" => stage'[m] = "up"
  BY <1>1, <1>3 DEF Shape
<1> QED BY <1>5, <1>6, <1>7, MemoryFrame DEF FindMyself

(* startNodePrograms goes on to the next host. *)
LEMMA StartNodeStep == ASSUME StartInv, NEW n \in Node, StartNode(n) PROVE StartInv'
<1> DEFINE i == started[0] + 1
<1>1. Shape /\ n = 0 /\ Len(hosts[0]) = Len(file) /\ stage[0] = "starting" /\ Knows(0)
  BY DEF StartInv, StartNode, Knows
<1>2. i < Len(file) /\ i \in Node /\ i \in Nat /\ i > 0 /\ started' = [started EXCEPT ![0] = i]
  <2>1. started[0] \in Nat
    BY <1>1, FileFacts DEF Shape
  <2> QED BY <1>1, <2>1, FileFacts DEF StartNode, FirstToStart
<1>3. hosts[0][i + 1].username = Name(i + 1)
  BY <1>1, <1>2, FileFacts DEF Knows, Name
<1>4. \/ UNCHANGED <<starts, user, stage, hosts>>
      \/ /\ starts' = [starts EXCEPT ![i] = @ + 1]
         /\ user' = [user EXCEPT ![i] = Name(i + 1)]
         /\ stage' = [stage EXCEPT ![i] = "reading"]
         /\ hosts' = [hosts EXCEPT ![i] = << >>]
  BY <1>1, <1>3 DEF StartNode, FirstToStart
<1>5. Entry' = Entry /\ Names' = Names /\ Name(i + 1) \in Names /\ << >> \in Seq(Entry)
  BY <1>2, FileFacts, <1>1 DEF Entry, Names, Name, StartNode
<1>6. Knows(i) /\ starts[i] = 0 /\ stage[i] = "off"
  <2>1. Knows(i) /\ i > started[0]
    BY <1>1, <1>2, FileFacts DEF StartInv, Shape
  <2> QED BY <2>1 DEF Knows
<1> HIDE DEF i
<1>7. Shape'
  <2>1. started' \in [Node -> Nat]
    BY <1>1, <1>2 DEF Shape
  <2>2. starts' \in [Node -> Nat]
    <3>1. ASSUME NEW v \in Nat PROVE [starts EXCEPT ![i] = v] \in [Node -> Nat]
      BY <1>1, <1>2 DEF Shape
    <3>2. starts[i] + 1 \in Nat
      BY <1>6
    <3> QED BY <1>1, <1>4, <3>1, <3>2 DEF Shape
  <2>3. user' \in [Node -> Names]
    BY ZenonT(60), <1>1, <1>2, <1>4, <1>5 DEF Shape
  <2>4. stage' \in [Node -> {"off", "reading", "starting", "up"}]
    BY <1>1, <1>2, <1>4, <1>5 DEF Shape
  <2>5. hosts' \in [Node -> Seq(Entry)]
    BY ZenonT(60), <1>1, <1>2, <1>4, <1>5 DEF Shape
  <2> QED BY <1>1, <1>5, <2>1, <2>2, <2>3, <2>4, <2>5 DEF Shape, StartNode
<1>8. started'[0] = i /\ i = started[0] + 1 /\ started[0] \in Nat
  BY <1>1, <1>2, FileFacts DEF Shape, i
<1>9. ASSUME NEW m \in Node PROVE Knows(m)'
  <2>1. Knows(m) /\ m \in Nat
    BY <1>1, FileFacts DEF StartInv
  <2>2. CASE m = i /\ stage' = [stage EXCEPT ![i] = "reading"]
    <3>1. /\ starts'[i] = 1 /\ user'[i] = Name(i + 1) /\ stage'[i] = "reading" /\ hosts'[i] = << >>
      BY <1>1, <1>2, <1>4, <1>6, <2>2 DEF Shape
    <3>2. Len(hosts'[i]) = 0
      BY <3>1
    <3> QED BY <1>1, <1>2, <1>8, <2>2, <3>1, <3>2, FileFacts DEF Knows, StartNode, Name
  <2>3. CASE ~(m = i /\ stage' = [stage EXCEPT ![i] = "reading"])
    <3>1. /\ starts'[m] = starts[m] /\ user'[m] = user[m] /\ stage'[m] = stage[m] /\ hosts'[m] = hosts[m]
      BY <1>1, <1>4, <2>3 DEF Shape
    <3> QED BY <1>8, <2>1, <3>1 DEF Knows, StartNode, Name
  <2> QED BY <2>2, <2>3
<1>10. \A m \in Node : stage[m] = "up" => stage'[m] = "up"
  BY <1>1, <1>4, <1>6 DEF Shape
<1> QED BY <1>7, <1>9, <1>10, MemoryFrame DEF StartNode

(* startNodePrograms returns. *)
LEMMA AllStartedStep == ASSUME StartInv, NEW n \in Node, AllStarted(n) PROVE StartInv'
<1>1. Shape /\ stage' = [stage EXCEPT ![n] = "up"] /\ stage[n] = "starting"
  BY DEF StartInv, AllStarted
<1>2. Entry' = Entry /\ Names' = Names
  BY DEF Entry, Names, Name, AllStarted
<1>3. Shape'
  BY <1>1, <1>2 DEF Shape, AllStarted
<1>4. ASSUME NEW m \in Node PROVE Knows(m)'
  <2>1. Knows(m) /\ stage'[m] = IF m = n THEN "up" ELSE stage[m]
    BY <1>1 DEF StartInv, Shape
  <2> QED BY <1>1, <2>1 DEF Knows, AllStarted, Name
<1>5. \A m \in Node : stage[m] = "up" => stage'[m] = "up"
  BY <1>1 DEF Shape
<1> QED BY <1>3, <1>4, <1>5, MemoryFrame DEF AllStarted

-----------------------------------------------------------------------------
(* mi_alloc keeps the invariant *)

(* The next region begins where the last one ended, or where it would have  *)
(* begun.                                                                   *)
LEMMA NextAppended ==
  ASSUME NEW r \in Seq(RegionType), NEW a \in Int, NextAt(r, Len(r), a), NEW e \in RegionType
  PROVE /\ NextAt(Append(r, e), Len(r), a)
        /\ e = Null => NextAt(Append(r, e), Len(r) + 1, a)
        /\ e # Null => NextAt(Append(r, e), Len(r) + 1, e.start + e.length)
<1> DEFINE s == Append(r, e)
<1>1. Len(r) \in Nat /\ s[Len(r) + 1] = e /\ \A i \in 1 .. Len(r) : r[i] = s[i]
  BY Appended
<1> HIDE DEF s
<1>2. NextAt(s, Len(r), a)
  BY <1>1, NextSame
<1>3. CASE e = Null
  <2>1. CASE a = 0 /\ \A j \in 1 .. Len(r) : s[j] = Null
    <3>1. \A j \in 1 .. Len(r) + 1 : s[j] = Null
      BY <1>1, <1>3, <2>1
    <3> QED BY <1>2, <1>3, <2>1, <3>1 DEF NextAt, s
  <2>2. CASE \E j \in 1 .. Len(r) : /\ s[j] # Null /\ a = s[j].start + s[j].length
                                    /\ \A k \in j + 1 .. Len(r) : s[k] = Null
    <3>1. PICK j \in 1 .. Len(r) : /\ s[j] # Null /\ a = s[j].start + s[j].length
                                   /\ \A k \in j + 1 .. Len(r) : s[k] = Null
      BY <2>2
    <3>2. j \in 1 .. Len(r) + 1 /\ \A k \in j + 1 .. Len(r) + 1 : s[k] = Null
      BY <1>1, <1>3, <3>1
    <3>3. NextAt(s, Len(r) + 1, a)
      BY <3>1, <3>2 DEF NextAt
    <3> QED BY <1>2, <1>3, <3>3 DEF s
  <2> QED BY <1>2, <2>1, <2>2 DEF NextAt
<1>4. CASE e # Null
  <2>1. Len(r) + 1 \in 1 .. Len(r) + 1 /\ \A k \in Len(r) + 1 + 1 .. Len(r) + 1 : s[k] = Null
    BY <1>1
  <2>2. NextAt(s, Len(r) + 1, e.start + e.length)
    BY <1>1, <1>4, <2>1 DEF NextAt
  <2> QED BY <1>2, <1>4, <2>2 DEF s
<1> QED BY <1>3, <1>4

(* The new pages come after the others, at the homes and the addresses that *)
(* their places give.                                                       *)
LEMMA PagesAppended ==
  ASSUME StartInv, NEW n \in Node, stage[n] = "up", NEW q \in Nat, NEW rsize, rsize = q * PAGESIZE
  PROVE LET s == pages[n] \o NewPages(n, rsize)
        IN /\ s \in Seq(Page) /\ Len(s) = Len(pages[n]) + q
           /\ \A p \in 1 .. Len(s) : s[p] = PageAt(n, p)
<1> DEFINE k == Len(pages[n])
           new == NewPages(n, rsize)
<1>1. Shape /\ Knows(n) /\ Paged(n) /\ pages[n] \in Seq(Page) /\ k \in Nat /\ PAGESIZE \in Nat \ {0}
  BY PageAssumption DEF StartInv, Shape
<1>2. rsize \div PAGESIZE = q
  <2>1. PAGESIZE \in Nat \ {0} /\ q \in Int
    BY <1>1
  <2>2. (q * PAGESIZE) \div PAGESIZE = q
    BY <2>1, Multiples
  <2> QED BY <2>2
<1>3. Len(hosts[n]) = Len(file) /\ myhostid[n] = n /\ globalAddress[n] = k * PAGESIZE
  BY <1>1 DEF Knows, Paged
<1>4. new = [i \in 1 .. q |-> [state |-> IF (k + i - 1) % Len(file) = n THEN "RDONLY" ELSE "MISS",
                               address |-> k * PAGESIZE + (i - 1) * PAGESIZE]]
  BY <1>2, <1>3 DEF NewPages, Home
<1> HIDE DEF k, new
<1>5. ASSUME NEW i \in 1 .. q PROVE new[i] = PageAt(n, k + i) /\ new[i] \in Page
  <2>1. k * PAGESIZE + (i - 1) * PAGESIZE = (k + i - 1) * PAGESIZE /\ (k + i) - 1 = k + i - 1
        /\ (k + i - 1) * PAGESIZE \in Int
    BY <1>1
  <2>2. new[i] = [state |-> IF (k + i - 1) % Len(file) = n THEN "RDONLY" ELSE "MISS",
                  address |-> (k + i - 1) * PAGESIZE]
    BY <1>4, <2>1
  <2> QED BY <2>1, <2>2 DEF PageAt, Page
<1>6. new \in [1 .. q -> Page]
  BY <1>4, <1>5
<1>7. new \in Seq(Page) /\ Len(new) = q
  BY <1>6
<1>8. /\ pages[n] \o new \in Seq(Page) /\ Len(pages[n] \o new) = k + q
      /\ \A p \in 1 .. k + q : (pages[n] \o new)[p] = IF p =< k THEN pages[n][p] ELSE new[p - k]
  BY <1>1, <1>7, ConcatProperties DEF k
<1>9. ASSUME NEW p \in 1 .. k + q PROVE (pages[n] \o new)[p] = PageAt(n, p)
  <2>0. p \in Int /\ k \in Int
    BY <1>1
  <2>1. CASE p =< k
    BY SMTT(30), <1>1, <1>8, <2>1 DEF Paged, k
  <2>2. CASE p > k
    <3>1. p - k \in 1 .. q /\ k + (p - k) = p
      BY <1>1, <2>2
    <3>2. new[p - k] = PageAt(n, k + (p - k))
      BY <1>5, <3>1
    <3>3. (pages[n] \o new)[p] = new[p - k]
      BY SMTT(30), <1>8, <2>2, <2>0
    <3> QED BY <3>1, <3>2, <3>3
  <2>3. p =< k \/ p > k
    BY <2>0
  <2> QED BY <2>1, <2>2, <2>3, Zenon
<1> QED BY <1>8, <1>9 DEF k, new

(* Two nodes that made the same call after the same regions got the same. *)
LEMMA AlikeStep ==
  ASSUME Shape, NEW n \in Node, NEW m \in Node, Regioned(n), Regioned(m), Alike(n, m), Alike(m, n),
         Len(regions[n]) < Len(regions[m])
  PROVE regions[m][Len(regions[n]) + 1] = Returned(calls[Len(regions[n]) + 1], globalAddress[n])
<1> DEFINE k == Len(regions[n])
<1>1. k \in Nat /\ Len(regions[m]) \in Nat /\ k + 1 \in 1 .. Len(regions[m]) /\ k + 1 - 1 = k
  BY DEF Shape
<1>2. \A i \in 1 .. k : regions[n][i] = regions[m][i]
  BY <1>1 DEF Alike
<1>3. NextAt(regions[m], k, globalAddress[n])
  BY <1>1, <1>2, NextSame DEF Regioned, RegionGood
<1>4. PICK a \in 0 .. MAX_MEM_SIZE : NextAt(regions[m], k, a) /\ regions[m][k + 1] = Returned(calls[k + 1], a)
  <2> HIDE DEF k
  <2>1. \A i \in 1 .. Len(regions[m]) :
          \E a \in 0 .. MAX_MEM_SIZE : NextAt(regions[m], i - 1, a) /\ regions[m][i] = Returned(calls[i], a)
    BY DEF Regioned, RegionGood
  <2> QED BY <1>1, <2>1
<1>5. a = globalAddress[n]
  BY <1>1, <1>3, <1>4, NextUnique
<1> QED BY <1>4, <1>5

(* mi_alloc. *)
LEMMA AllocStep == ASSUME StartInv, NEW n \in Node, Alloc(n) PROVE StartInv'
<1> DEFINE k == Len(regions[n])
           size == calls[k + 1]
           a == globalAddress[n]
           e == Returned(size, a)
           granted == ~(size <= 0 \/ TooBig(Rounded(size), a))
<1>1. /\ Shape /\ Knows(n) /\ Paged(n) /\ Regioned(n) /\ stage[n] = "up"
      /\ regions[n] \in Seq(RegionType) /\ k \in Nat /\ k < Len(calls)
      /\ pages[n] \in Seq(Page) /\ Len(pages[n]) \in Nat
      /\ a \in 0 .. MAX_MEM_SIZE /\ a \in Int /\ a >= 0
  BY SMTT(30), PageAssumption DEF StartInv, Shape, Alloc
<1>2. size \in (-IntMax - 1) .. IntMax /\ size \in Int
  BY <1>1, FileFacts, WidthAssumption
<1>3. /\ UNCHANGED <<file, calls, stage, user, hosts, myhostid, started, starts>>
      /\ regions' = [regions EXCEPT ![n] = Append(regions[n], e)]
      /\ granted => /\ pages' = [pages EXCEPT ![n] = pages[n] \o NewPages(n, Rounded(size))]
                    /\ globalAddress' = [globalAddress EXCEPT ![n] = a + Rounded(size)]
      /\ ~granted => UNCHANGED <<globalAddress, pages>>
  BY DEF Alloc, Returned
<1>4. granted => /\ e = Region(a, Rounded(size), size) /\ e # Null
                 /\ e.start = a /\ e.length = Rounded(size) /\ e.size = size
  BY <1>1 DEF Returned, Region, Null, Error
<1>5. ~granted => e = Null /\ e.start = -1 /\ e.length = 0
  BY DEF Returned, Null, Region, Error
<1>6. granted => \E q \in Nat : Rounded(size) = q * PAGESIZE
  BY <1>1, <1>2, Granted
<1>7. granted => Rounded(size) >= size /\ Rounded(size) + a =< MAX_MEM_SIZE /\ Rounded(size) \in Nat
  BY <1>1, <1>2, Granted
<1>8. e \in RegionType
  BY <1>1, <1>2, <1>4, <1>5, <1>7 DEF RegionType, Returned, Region, Null, Error
<1> HIDE DEF size, a, e, granted
<1>9. /\ Append(regions[n], e) \in Seq(RegionType) /\ Len(Append(regions[n], e)) = k + 1
      /\ Append(regions[n], e)[k + 1] = e
      /\ \A i \in 1 .. k : Append(regions[n], e)[i] = regions[n][i]
  BY <1>1, <1>8, Appended
<1> DEFINE rs == Append(regions[n], e)
           a2 == IF granted THEN a + Rounded(size) ELSE a
<1>10. /\ regions'[n] = rs /\ \A m \in Node \ {n} : regions'[m] = regions[m]
       /\ globalAddress'[n] = a2 /\ \A m \in Node \ {n} : globalAddress'[m] = globalAddress[m]
       /\ \A m \in Node \ {n} : pages'[m] = pages[m]
  BY <1>1, <1>3 DEF Shape, a
<1>11. a2 \in 0 .. MAX_MEM_SIZE /\ a2 \in Int /\ a =< a2 /\ e.start + e.length =< a2
       /\ (granted => e.start + e.length = a2)
  BY <1>1, <1>4, <1>5, <1>7, PageAssumption
<1>12. /\ pages'[n] \in Seq(Page) /\ a2 = Len(pages'[n]) * PAGESIZE
       /\ \A p \in 1 .. Len(pages'[n]) : pages'[n][p] = PageAt(n, p)
  <2>1. CASE granted
    <3>1. PICK q \in Nat : Rounded(size) = q * PAGESIZE
      BY <1>6, <2>1
    <3>2. pages'[n] = pages[n] \o NewPages(n, Rounded(size))
      BY <1>1, <1>3, <2>1 DEF Shape
    <3>3. /\ pages'[n] \in Seq(Page) /\ Len(pages'[n]) = Len(pages[n]) + q
          /\ \A p \in 1 .. Len(pages'[n]) : pages'[n][p] = PageAt(n, p)
      <4>1. LET s == pages[n] \o NewPages(n, Rounded(size))
            IN /\ s \in Seq(Page) /\ Len(s) = Len(pages[n]) + q
               /\ \A p \in 1 .. Len(s) : s[p] = PageAt(n, p)
        BY <1>1, <3>1, PagesAppended
      <4> QED BY <3>2, <4>1
    <3>4. a2 = (Len(pages[n]) + q) * PAGESIZE
      <4>1. a2 = Len(pages[n]) * PAGESIZE + q * PAGESIZE
        BY <1>1, <2>1, <3>1 DEF Paged, a
      <4>2. ASSUME NEW l \in Nat PROVE (l + q) * PAGESIZE = l * PAGESIZE + q * PAGESIZE
        BY PageAssumption
      <4> QED BY <1>1, <4>1, <4>2
    <3> QED BY <3>3, <3>4
  <2>2. CASE ~granted
    BY <1>1, <1>3, <2>2 DEF Paged, a
  <2> QED BY <2>1, <2>2
<1>13. Shape'
  <2>1. Entry' = Entry /\ Names' = Names
    BY <1>3 DEF Entry, Names, Name
  <2>2. regions' \in [Node -> Seq(RegionType)]
    BY <1>1, <1>3, <1>9 DEF Shape
  <2>3. globalAddress' \in [Node -> 0 .. MAX_MEM_SIZE]
    BY <1>1, <1>3, <1>11 DEF Shape
  <2>4. pages' \in [Node -> Seq(Page)]
    BY <1>1, <1>3, <1>10, <1>12 DEF Shape
  <2> QED BY <1>1, <1>3, <2>1, <2>2, <2>3, <2>4 DEF Shape
<1>14. ASSUME NEW m \in Node PROVE Knows(m)' /\ Paged(m)'
  <2>1. Knows(m) /\ Paged(m)
    BY DEF StartInv
  <2>2. Knows(m)'
    BY <1>3, <2>1 DEF Knows, Name
  <2>3. CASE m = n
    BY <1>1, <1>3, <1>10, <1>12, <2>2, <2>3 DEF Paged, PageAt
  <2>4. CASE m # n
    BY <1>3, <1>10, <2>1, <2>2, <2>4 DEF Paged, PageAt
  <2> QED BY <2>3, <2>4
<1>15. NextAt(rs, k, a) /\ NextAt(rs, k + 1, a2)
  <2>1. NextAt(regions[n], k, a)
    BY <1>1 DEF Regioned, a
  <2>2. CASE granted
    BY <1>1, <1>4, <1>8, <1>11, <2>1, <2>2, NextAppended
  <2>3. CASE ~granted
    BY <1>1, <1>5, <1>8, <2>1, <2>3, NextAppended
  <2> QED BY <2>2, <2>3
<1>16. Regioned(n)'
  <2>1. ASSUME NEW i \in 1 .. k PROVE RegionGood(calls, rs, i, a2)
    <3>1. RegionGood(calls, regions[n], i, a) /\ rs[i] = regions[n][i] /\ i - 1 \in Nat
      BY <1>1, <1>9 DEF Regioned, RegionGood, a
    <3>2. \A j \in 1 .. i - 1 : rs[j] = regions[n][j]
      BY <1>1, <1>9
    <3>3. PICK c \in 0 .. MAX_MEM_SIZE : NextAt(regions[n], i - 1, c) /\ regions[n][i] = Returned(calls[i], c)
      BY <3>1 DEF RegionGood
    <3>4. NextAt(rs, i - 1, c)
      BY <3>1, <3>2, <3>3, NextSame
    <3>5. regions[n][i].start + regions[n][i].length \in Int
      <4>1. regions[n][i] \in RegionType
        BY <1>1
      <4> QED BY <4>1 DEF RegionType
    <3>6. regions[n][i].start + regions[n][i].length =< a2
      BY <1>1, <1>11, <3>1, <3>5 DEF RegionGood
    <3> QED BY <3>1, <3>2, <3>3, <3>4, <3>6 DEF RegionGood
  <2>2. RegionGood(calls, rs, k + 1, a2)
    <3>1. rs[k + 1] = e /\ k + 1 - 1 = k /\ e = Returned(calls[k + 1], a)
      BY <1>1, <1>9 DEF e, size
    <3>2. granted => a % PAGESIZE = 0
      <4>1. a = Len(pages[n]) * PAGESIZE /\ Len(pages[n]) \in Int
        BY <1>1 DEF Paged, a
      <4> QED BY <4>1, Multiples, PageAssumption
    <3>3. \A j \in 1 .. k : rs[j].start + rs[j].length =< a
      BY <1>1, <1>9 DEF Regioned, RegionGood, a
    <3>4. e # Null => granted
      BY <1>5
    <3> QED BY <1>1, <1>4, <1>7, <1>11, <1>15, <3>1, <3>2, <3>3, <3>4 DEF RegionGood
  <2>3. Len(rs) = k + 1 /\ k + 1 =< Len(calls)
    BY <1>1, <1>9, FileFacts
  <2>4. \A i \in 1 .. k + 1 : RegionGood(calls, rs, i, a2)
    <3>1. \A i \in 1 .. k + 1 : i \in 1 .. k \/ i = k + 1
      BY <1>1
    <3> QED BY <2>1, <2>2, <3>1
  <2> HIDE DEF rs, a2, k
  <2>5. regions'[n] = rs /\ globalAddress'[n] = a2 /\ calls' = calls
    BY <1>3, <1>10
  <2> QED BY <1>15, <2>3, <2>4, <2>5 DEF Regioned
<1>17. ASSUME NEW m \in Node \ {n} PROVE Regioned(m)' /\ Alike(n, m)' /\ Alike(m, n)'
  <2>1. Regioned(m) /\ Alike(n, m) /\ Alike(m, n) /\ regions[m] \in Seq(RegionType) /\ Len(regions[m]) \in Nat
    BY <1>1 DEF StartInv, Shape
  <2>2. Regioned(m)'
    BY <1>3, <1>10, <2>1 DEF Regioned
  <2>3. k < Len(regions[m]) => regions[m][k + 1] = e
    BY <1>1, <2>1, AlikeStep DEF e, size, a
  <2>4. \A i \in 1 .. k + 1 : i =< Len(regions[m]) => rs[i] = regions[m][i]
    BY <1>1, <1>9, <2>1, <2>3 DEF Alike
  <2>5. \A i \in 1 .. Len(regions[m]) : i =< k + 1 => i \in 1 .. k + 1
    BY <1>1, <2>1
  <2>6. /\ regions'[n] = rs /\ regions'[m] = regions[m] /\ Len(rs) = k + 1
        /\ k + 1 \in Int /\ Len(regions[m]) \in Int
    BY <1>1, <1>9, <1>10, <2>1
  <2>7. Alike(n, m)' /\ Alike(m, n)'
    BY <2>4, <2>5, <2>6 DEF Alike
  <2> QED BY <2>2, <2>7
<1>18. ASSUME NEW m \in Node, NEW l \in Node PROVE Alike(m, l)'
  <2>1. CASE m = n /\ l = n
    BY <2>1 DEF Alike
  <2>2. CASE m # n /\ l # n
    BY <1>10, <2>2 DEF StartInv, Alike
  <2> QED BY <1>17, <2>1, <2>2
<1> QED BY <1>13, <1>14, <1>16, <1>17, <1>18 DEF StartInv

-----------------------------------------------------------------------------
(* The theorems *)

(* The first state of the program satisfies the invariant. *)
LEMMA StartInit == Init => StartInv
<1> SUFFICES ASSUME Init PROVE StartInv
  OBVIOUS
<1>1. file \in Files /\ Len(file) \in 1 .. MAX_HOST_NUM
  BY FilesAssumption DEF Init
<1>2. Name(1) \in Names /\ Empty \in Names
  BY <1>1, HostsAssumption DEF Names
<1>3. Shape
  BY <1>1, <1>2, HostsAssumption, PageAssumption DEF Init, Shape, Node, Error, Name
<1>4. ASSUME NEW n \in Node PROVE Knows(n) /\ Paged(n) /\ Regioned(n)
  <2>1. /\ hosts[n] = << >> /\ pages[n] = << >> /\ regions[n] = << >> /\ globalAddress[n] = 0 /\ started[0] = 0
        /\ stage[n] = (IF n = 0 THEN "reading" ELSE "off")
        /\ user[n] = (IF n = 0 THEN Name(1) ELSE Empty) /\ starts[n] = (IF n = 0 THEN 1 ELSE 0)
    BY <1>3, FileFacts DEF Init, Name
  <2>2. Len(hosts[n]) = 0 /\ Len(pages[n]) = 0 /\ Len(regions[n]) = 0
    BY <2>1
  <2>3. Knows(n)
    BY <1>3, <2>1, <2>2, FileFacts DEF Knows
  <2>4. Paged(n)
    BY <2>1, <2>2, PageAssumption DEF Paged
  <2>5. NextAt(regions[n], 0, 0)
    BY DEF NextAt
  <2>6. Regioned(n)
    BY <1>3, <2>1, <2>2, <2>5, FileFacts DEF Regioned
  <2> QED BY <2>3, <2>4, <2>6
<1>5. \A n, m \in Node : Alike(n, m)
  BY DEF Init, Alike
<1> QED BY <1>3, <1>4, <1>5 DEF StartInv

(* Every step of start-up and of mi_alloc keeps it. *)
LEMMA StartStep == StartInv /\ [Next]_vars => StartInv'
<1> SUFFICES ASSUME StartInv, [Next]_vars PROVE StartInv'
  OBVIOUS
<1>1. CASE Next
  BY <1>1, ReadLineStep, FindMyselfStep, StartNodeStep, AllStartedStep, AllocStep DEF Next
<1>2. CASE UNCHANGED vars
  <2>1. Shape' /\ \A n \in Node : Knows(n)'
    <3>1. Entry' = Entry /\ Names' = Names
      BY <1>2 DEF Entry, Names, Name, vars
    <3>2. Shape'
      BY <1>2, <3>1 DEF StartInv, Shape, vars
    <3>3. ASSUME NEW n \in Node PROVE Knows(n)'
      BY <1>2 DEF StartInv, Knows, vars, Name
    <3> QED BY <3>2, <3>3
  <2> QED BY <1>2, <2>1, MemoryFrame DEF vars
<1> QED BY <1>1, <1>2

(* The invariant holds throughout. *)
LEMMA StartInvariant == Spec => []StartInv
BY StartInit, StartStep, PTL DEF Spec

LEMMA StartTyped == StartInv => StartTypeOK
<1> SUFFICES ASSUME StartInv PROVE StartTypeOK
  OBVIOUS
<1>1. Shape
  BY DEF StartInv
<1>2. ASSUME NEW n \in Node
      PROVE Len(hosts[n]) <= MAX_HOST_NUM /\ Len(pages[n]) <= MaxPage /\ globalAddress[n] \in 0 .. MAX_MEM_SIZE
  <2>1. Knows(n) /\ Paged(n) /\ Len(hosts[n]) \in Nat /\ Len(pages[n]) \in Nat
        /\ globalAddress[n] \in 0 .. MAX_MEM_SIZE
    BY DEF StartInv, Shape
  <2>2. Len(hosts[n]) <= MAX_HOST_NUM
    BY <1>1, <2>1, FileFacts, HostsAssumption DEF Knows
  <2>3. Len(pages[n]) * PAGESIZE =< MAX_MEM_SIZE
    BY <2>1, PageAssumption DEF Paged
  <2>4. Len(pages[n]) <= MaxPage
    <3>1. ASSUME NEW k \in Nat, k * PAGESIZE =< MAX_MEM_SIZE PROVE k =< MAX_MEM_SIZE \div PAGESIZE
      BY <3>1, Multiples, PageAssumption
    <3> QED BY <2>1, <2>3, <3>1 DEF MaxPage
  <2> QED BY <2>1, <2>2, <2>4
<1> QED BY <1>1, <1>2 DEF StartTypeOK, Shape

(* Tables and pages stay within hosts, pageArray and the shared memory, for *)
(* every host file that fits and whatever mi_alloc is called with.          *)
THEOREM StartTypeCorrect == Spec => []StartTypeOK
  BY StartTyped, StartInvariant, PTL

(* The program that startNodePrograms starts at the i-th host of the file   *)
(* takes itself for host i, and is started there once: findHostIdByName     *)
(* finds one line, since every user has a line of its own.                  *)
THEOREM KnowThemselves == Spec => []NodesKnowThemselves
<1>1. StartInv => NodesKnowThemselves
  BY DEF StartInv, Knows, NodesKnowThemselves
<1> QED BY <1>1, StartInvariant, PTL

(* Without a message, nodes that have made the same calls of mi_alloc have  *)
(* the same regions, the same pages at the same addresses, and one first    *)
(* copy of each page among the hosts.                                       *)
THEOREM Agree == Spec => []PagesAgree
<1>1. StartInv => PagesAgree
  <2> SUFFICES ASSUME StartInv PROVE PagesAgree
    OBVIOUS
  <2>1. Shape /\ Len(file) \in Nat /\ Len(file) >= 1
    BY FileFacts DEF StartInv
  <2>2. ASSUME NEW n \in Node
        PROVE /\ DOMAIN pages[n] = 1 .. Len(pages[n]) /\ DOMAIN regions[n] = 1 .. Len(regions[n])
              /\ Len(pages[n]) \in Nat /\ Len(regions[n]) \in Nat
    BY <2>1 DEF Shape
  <2>3. ASSUME NEW n \in Node, NEW m \in Node, NEW i \in DOMAIN regions[n] \cap DOMAIN regions[m]
        PROVE regions[n][i] = regions[m][i]
    BY <2>2, <2>3 DEF StartInv, Alike
  <2>4. ASSUME NEW n \in Node, NEW p \in DOMAIN pages[n] PROVE pages[n][p] = PageAt(n, p)
    BY <2>2, <2>4 DEF StartInv, Paged
  <2>5. ASSUME NEW n \in Node, NEW m \in Node, NEW p \in DOMAIN pages[n] \cap DOMAIN pages[m]
        PROVE /\ pages[n][p].address = pages[m][p].address
              /\ pages[n][p].state = "RDONLY" /\ pages[m][p].state = "RDONLY" => n = m
    <3>1. pages[n][p] = PageAt(n, p) /\ pages[m][p] = PageAt(m, p)
      BY <2>4, <2>5
    <3> QED BY <3>1 DEF PageAt
  <2>6. ASSUME NEW p \in 1 .. MaxPage, \A n \in 0 .. Len(file) - 1 : p \in DOMAIN pages[n]
        PROVE \E n \in 0 .. Len(file) - 1 : pages[n][p].state = "RDONLY"
    <3> DEFINE n == (p - 1) % Len(file)
    <3>1. p \in Int /\ n \in 0 .. Len(file) - 1
      BY <2>1
    <3>2. n \in Node
      BY <2>1, <3>1, FileFacts
    <3>3. pages[n][p].state = "RDONLY"
      <4> HIDE DEF n
      <4>1. pages[n][p] = PageAt(n, p)
        BY <2>4, <2>6, <3>1, <3>2
      <4> QED BY <4>1 DEF PageAt, n
    <3> QED BY <3>1, <3>3
  <2> QED BY <2>3, <2>5, <2>6 DEF PagesAgree
<1> QED BY <1>1, StartInvariant, PTL

(* A region that mi_alloc returns holds what was asked for, begins on a     *)
(* page, lies in the shared memory and overlaps no other, for every size an *)
(* int can have: where rounding up overflows, the comparison with           *)
(* MAX_MEM_SIZE refuses the call.                                           *)
THEOREM Sound == Spec => []RegionsSound
<1>1. StartInv => RegionsSound
  <2> SUFFICES ASSUME StartInv, NEW n \in Node, NEW i \in DOMAIN regions[n], regions[n][i] # Null
               PROVE LET r == regions[n][i]
                     IN /\ r.length >= r.size /\ r.start % PAGESIZE = 0
                        /\ r.start + r.length <= MAX_MEM_SIZE
                        /\ \A j \in DOMAIN regions[n] : j < i =>
                             regions[n][j].start + regions[n][j].length <= r.start
    BY DEF RegionsSound
  <2>1. /\ DOMAIN regions[n] = 1 .. Len(regions[n]) /\ Len(regions[n]) \in Nat
        /\ globalAddress[n] \in 0 .. MAX_MEM_SIZE /\ regions[n][i] \in RegionType
    BY DEF StartInv, Shape
  <2>2. /\ regions[n][i].start + regions[n][i].length =< globalAddress[n]
        /\ regions[n][i].length >= regions[n][i].size /\ regions[n][i].start % PAGESIZE = 0
        /\ \A j \in 1 .. i - 1 : regions[n][j].start + regions[n][j].length =< regions[n][i].start
    BY <2>1 DEF StartInv, Regioned, RegionGood
  <2>3. regions[n][i].start + regions[n][i].length <= MAX_MEM_SIZE
    <3>1. regions[n][i].start + regions[n][i].length \in Int
      BY <2>1 DEF RegionType
    <3> QED BY <2>1, <2>2, <3>1, PageAssumption
  <2>4. \A j \in DOMAIN regions[n] : j < i => j \in 1 .. i - 1
    BY <2>1
  <2> QED BY <2>2, <2>3, <2>4
<1> QED BY <1>1, StartInvariant, PTL

(* readSegFromStr, for every line and every index: the segment asked for, or *)
(* an error, but for the one index past the last segment.                    *)
LEMMA SegmentRead ==
  ASSUME NEW line \in Seq(STRING), NEW index \in Nat, index # Len(Segments(line))
  PROVE readSegFromStr(line, index) = IF line = << >> /\ index = 0 THEN Empty ELSE SegmentAt(line, index)
<1>1. Len(line) \in Nat
  OBVIOUS
<1>2. CASE line = << >>
  <2>1. Segments(line) = <<Empty>> /\ Len(Segments(line)) = 1 /\ Len(line) = 0
    BY <1>2 DEF Segments
  <2>2. CASE index = 0
    BY <1>2, <2>1, <2>2, WordsAssumption DEF readSegFromStr, SegmentsRead, Missing
  <2>3. CASE index > 1
    BY <1>2, <2>1, <2>3 DEF readSegFromStr, SegmentsRead, Missing, SegmentAt
  <2> QED BY <2>1, <2>2, <2>3
<1>3. CASE line # << >>
  <2>1. Segments(line) = line /\ Len(line) > 0
    BY <1>1, <1>3 DEF Segments
  <2>2. CASE index < Len(line)
    BY <1>1, <1>3, <2>1, <2>2 DEF readSegFromStr, SegmentsRead, Missing, SegmentAt
  <2>3. CASE index > Len(line)
    BY <1>1, <1>3, <2>1, <2>3 DEF readSegFromStr, SegmentsRead, Missing, SegmentAt
  <2> QED BY <1>1, <2>1, <2>2, <2>3
<1> QED BY <1>2, <1>3

(* readSegFromStr finds what its comment promises in every line of every    *)
(* host file, whatever is too long for the buffer.                          *)
THEOREM Segmented == Spec => []SegmentsFound
<1>1. StartInv => SegmentsFound
  <2> SUFFICES ASSUME StartInv, NEW i \in DOMAIN file, NEW index \in 0 .. Len(file[i]) + 2,
                      index # Len(Segments(file[i]))
               PROVE readSegFromStr(file[i], index) =
                       IF file[i] = << >> /\ index = 0 THEN Empty ELSE SegmentAt(file[i], index)
    BY DEF SegmentsFound
  <2>1. file \in Seq(Seq(STRING))
    BY FilesAssumption DEF StartInv, Shape
  <2>2. file[i] \in Seq(STRING) /\ index \in Nat
    BY <2>1
  <2> QED BY <2>2, SegmentRead
<1> QED BY <1>1, StartInvariant, PTL

-----------------------------------------------------------------------------
(* Runs of packets, for the numbers of notices c *)

Packet == [interval : Nat, first : Nat, count : Nat]

(* The intervals from i to j have no notices. *)
Bare(c, i, j) == \A k \in i .. j : c[k] = 0

(* p is a part of an interval of the transfer, the first part of all, and   *)
(* the last part of all.                                                    *)
IsPart(c, p) == /\ p.interval \in 1 .. Len(c) /\ p.count > 0
                /\ p.first + p.count <= c[p.interval]
Starts(c, p) == p.first = 0 /\ Bare(c, 1, p.interval - 1)
Ends(c, p) == p.first + p.count = c[p.interval] /\ Bare(c, p.interval + 1, Len(c))

(* A run of packets, each where the one before it ends, that passes over no *)
(* notice between its first interval and its last.                          *)
Chain(c, s) ==
  /\ s \in Seq(Packet)
  /\ \A k \in 1 .. Len(s) : IsPart(c, s[k])
  /\ \A k \in 2 .. Len(s) : Follows(c, s[k - 1], s[k])
  /\ s # << >> => \A i \in s[1].interval .. s[Len(s)].interval :
                    c[i] > 0 => \E k \in 1 .. Len(s) : s[k].interval = i

(* A run of packets that leaves nothing after it. *)
Whole(c, s) == IF s = << >> THEN Bare(c, 1, Len(c)) ELSE Ends(c, s[Len(s)])

(* Notice l of interval a is the one after packet p; after the run s. *)
AfterPacket(c, a, l, p) ==
  \/ l > 0 /\ a = p.interval /\ l = p.first + p.count
  \/ /\ l = 0 /\ a > p.interval /\ p.first + p.count = c[p.interval]
     /\ Bare(c, p.interval + 1, a - 1)
CursorAfter(c, a, l, s) ==
  IF s = << >> THEN l = 0 /\ Bare(c, 1, a - 1) ELSE AfterPacket(c, a, l, s[Len(s)])

(* Run t goes on where run s, which is not empty, stops. *)
Continues(c, s, t) == s # << >> /\ t # << >> /\ Follows(c, s[Len(s)], t[1])

(* The cursor is at a notice that is there, or behind the last one. *)
Cursor(c, a, l) == /\ c \in Seq(Nat) /\ a \in 1 .. Len(c) + 1 /\ l \in Nat
                   /\ l > 0 => a <= Len(c) /\ l < c[a]

(* Two runs, one after the other. *)
LEMMA Joined ==
  ASSUME NEW c \in Seq(Nat), NEW s, NEW t, Chain(c, s), Chain(c, t), Continues(c, s, t)
  PROVE  /\ Chain(c, s \o t)
         /\ s \o t # << >> /\ (s \o t)[1] = s[1] /\ (s \o t)[Len(s \o t)] = t[Len(t)]
<1> DEFINE u == s \o t
<1>1. /\ s \in Seq(Packet) /\ t \in Seq(Packet) /\ s # << >> /\ t # << >>
      /\ Len(s) \in Nat /\ Len(t) \in Nat /\ Len(s) > 0 /\ Len(t) > 0
  BY DEF Chain, Continues
<1>2. /\ u \in Seq(Packet) /\ Len(u) = Len(s) + Len(t)
      /\ \A k \in 1 .. Len(s) : u[k] = s[k]
      /\ \A k \in Len(s) + 1 .. Len(u) : u[k] = t[k - Len(s)]
  BY <1>1
<1>3. \A k \in 1 .. Len(t) : u[Len(s) + k] = t[k]
  BY <1>1, <1>2
<1>4. u # << >> /\ u[1] = s[1] /\ u[Len(u)] = t[Len(t)]
  BY <1>1, <1>2, <1>3
<1> HIDE DEF u
<1>5. \A k \in 1 .. Len(u) : IsPart(c, u[k])
  <2> SUFFICES ASSUME NEW k \in 1 .. Len(u) PROVE IsPart(c, u[k])
    OBVIOUS
  <2>1. CASE k <= Len(s)
    BY <1>1, <1>2, <2>1 DEF Chain
  <2>2. CASE k > Len(s)
    <3>1. k - Len(s) \in 1 .. Len(t) /\ u[k] = t[k - Len(s)]
      BY <1>1, <1>2, <2>2
    <3> QED BY <3>1 DEF Chain
  <2> QED BY <1>1, <1>2, <2>1, <2>2
<1>6. \A k \in 2 .. Len(u) : Follows(c, u[k - 1], u[k])
  <2> SUFFICES ASSUME NEW k \in 2 .. Len(u) PROVE Follows(c, u[k - 1], u[k])
    OBVIOUS
  <2>0. k \in Int /\ k >= 2 /\ k <= Len(s) + Len(t)
    BY <1>1, <1>2
  <2>1. CASE k <= Len(s)
    <3>0. k \in 2 .. Len(s) /\ k \in 1 .. Len(s) /\ k - 1 \in 1 .. Len(s)
      BY <1>1, <2>0, <2>1
    <3>1. k \in 2 .. Len(s) /\ u[k] = s[k] /\ u[k - 1] = s[k - 1]
      BY <1>2, <3>0
    <3> QED BY <3>1 DEF Chain
  <2>2. CASE k = Len(s) + 1
    <3>1. u[k] = t[1] /\ u[k - 1] = s[Len(s)]
      BY <1>1, <1>2, <1>3, <2>2
    <3> QED BY <3>1 DEF Continues
  <2>3. CASE k > Len(s) + 1
    <3>0. /\ k - Len(s) \in 2 .. Len(t) /\ k \in Len(s) + 1 .. Len(u)
          /\ k - 1 \in Len(s) + 1 .. Len(u) /\ (k - 1) - Len(s) = (k - Len(s)) - 1
      BY <1>1, <1>2, <2>0, <2>3
    <3>1. k - Len(s) \in 2 .. Len(t) /\ u[k] = t[k - Len(s)] /\ u[k - 1] = t[(k - Len(s)) - 1]
      BY <1>2, <3>0
    <3> QED BY <3>1 DEF Chain
  <2> QED BY <1>1, <2>0, <2>1, <2>2, <2>3
<1>7. ASSUME NEW i \in u[1].interval .. u[Len(u)].interval, c[i] > 0
      PROVE  \E k \in 1 .. Len(u) : u[k].interval = i
  <2> DEFINE p == s[Len(s)]
             q == t[1]
  <2>0. /\ p \in Packet /\ q \in Packet /\ s[1] \in Packet /\ t[Len(t)] \in Packet
    BY <1>1
  <2>1. /\ p.interval \in Nat /\ q.interval \in Nat
        /\ s[1].interval \in Nat /\ t[Len(t)].interval \in Nat
        /\ i \in Int /\ s[1].interval <= i /\ i <= t[Len(t)].interval
    <3>1. /\ p.interval \in Nat /\ q.interval \in Nat
          /\ s[1].interval \in Nat /\ t[Len(t)].interval \in Nat
      BY <2>0 DEF Packet
    <3>2. i \in s[1].interval .. t[Len(t)].interval
      BY <1>4, <1>7
    <3> QED BY <3>1, <3>2
  <2>2. CASE i <= p.interval
    <3>1. PICK k \in 1 .. Len(s) : s[k].interval = i
      BY <1>1, <1>7, <2>1, <2>2 DEF Chain
    <3> QED BY <3>1, <1>1, <1>2
  <2>3. CASE q.interval <= i
    <3>1. PICK k \in 1 .. Len(t) : t[k].interval = i
      BY <1>1, <1>7, <2>1, <2>3 DEF Chain
    <3>2. Len(s) + k \in 1 .. Len(u) /\ u[Len(s) + k].interval = i
      BY <3>1, <1>1, <1>2, <1>3
    <3> QED BY <3>2
  <2>4. CASE p.interval < i /\ i < q.interval
    <3>1. Follows(c, p, q)
      BY DEF Continues
    <3>2. c[i] = 0
      BY SMTT(30), <2>1, <2>4, <3>1 DEF Follows
    <3> QED BY <1>7, <3>2
  <2> QED BY <2>1, <2>2, <2>3, <2>4
<1>8. Chain(c, u)
  BY <1>2, <1>5, <1>6, <1>7 DEF Chain
<1> QED BY <1>4, <1>8 DEF u

LEMMA Single ==
  ASSUME NEW c \in Seq(Nat), NEW q \in Packet, IsPart(c, q)
  PROVE  Chain(c, <<q>>) /\ <<q>> # << >> /\ <<q>>[1] = q /\ <<q>>[Len(<<q>>)] = q
<1>1. /\ <<q>> \in Seq(Packet) /\ Len(<<q>>) = 1 /\ <<q>>[1] = q /\ q.interval \in Nat
  BY DEF Packet
<1>2. \A i \in q.interval .. q.interval : i = q.interval
  BY <1>1
<1> QED BY <1>1, <1>2 DEF Chain

LEMMA NoPackets ==
  ASSUME NEW c
  PROVE  Chain(c, << >>)
  BY DEF Chain

(* The packet that is packed at the cursor. *)
LEMMA Packed ==
  ASSUME NEW c, NEW a, NEW l, Cursor(c, a, l), a <= Len(c), c[a] > 0,
         NEW n \in Nat, n > 0, n <= c[a] - l,
         NEW s, Chain(c, s), CursorAfter(c, a, l, s)
  PROVE  LET q == [interval |-> a, first |-> l, count |-> n]
         IN /\ q \in Packet /\ IsPart(c, q)
            /\ s # << >> => Continues(c, s, <<q>>)
            /\ s = << >> => Starts(c, q)
            /\ l + n < c[a] => Cursor(c, a, l + n) /\ AfterPacket(c, a, l + n, q)
            /\ ~(l + n < c[a]) => Cursor(c, a + 1, 0) /\ AfterPacket(c, a + 1, 0, q)
<1> DEFINE q == [interval |-> a, first |-> l, count |-> n]
<1>1. /\ a \in Nat /\ l \in Nat /\ c \in Seq(Nat) /\ Len(c) \in Nat /\ a \in 1 .. Len(c)
      /\ c[a] \in Nat /\ (l > 0 => l < c[a])
  BY DEF Cursor
<1>2. q \in Packet /\ q.interval = a /\ q.first = l /\ q.count = n
  BY <1>1 DEF Packet
<1>3. IsPart(c, q)
  BY <1>1, <1>2 DEF IsPart
<1> HIDE DEF q
<1>4. ASSUME s # << >> PROVE Continues(c, s, <<q>>)
  <2>1. s[Len(s)] \in Packet /\ IsPart(c, s[Len(s)])
    BY <1>4 DEF Chain
  <2>2. AfterPacket(c, a, l, s[Len(s)])
    BY <1>4 DEF CursorAfter
  <2>3. Follows(c, s[Len(s)], q)
    BY <1>1, <1>2, <2>1, <2>2 DEF Follows, AfterPacket, Bare, Packet
  <2> QED BY <1>4, <2>3 DEF Continues
<1>5. ASSUME s = << >> PROVE Starts(c, q)
  BY <1>2, <1>5 DEF CursorAfter, Starts
<1>6. ASSUME l + n < c[a] PROVE Cursor(c, a, l + n) /\ AfterPacket(c, a, l + n, q)
  BY <1>1, <1>2, <1>6 DEF Cursor, AfterPacket
<1>7. ASSUME ~(l + n < c[a]) PROVE Cursor(c, a + 1, 0) /\ AfterPacket(c, a + 1, 0, q)
  BY SMTT(30), <1>1, <1>2, <1>7 DEF Cursor, AfterPacket, Bare
<1> QED BY <1>2, <1>3, <1>4, <1>5, <1>6, <1>7 DEF q

(* An interval without notices is passed over. *)
LEMMA Skipped ==
  ASSUME NEW c, NEW a, NEW l, Cursor(c, a, l), a <= Len(c), c[a] = 0
  PROVE  /\ Cursor(c, a + 1, l)
         /\ \A s : Chain(c, s) /\ CursorAfter(c, a, l, s) => CursorAfter(c, a + 1, l, s)
<1>1. /\ a \in Nat /\ l = 0 /\ c \in Seq(Nat) /\ Len(c) \in Nat /\ a \in 1 .. Len(c)
  BY DEF Cursor
<1>2. Cursor(c, a + 1, l)
  BY <1>1 DEF Cursor
<1>3. ASSUME NEW s, Chain(c, s), CursorAfter(c, a, l, s) PROVE CursorAfter(c, a + 1, l, s)
  <2>1. CASE s = << >>
    BY <1>1, <1>3, <2>1 DEF CursorAfter, Bare
  <2>2. CASE s # << >>
    <3>1. s[Len(s)] \in Packet
      BY <1>3, <2>2 DEF Chain
    <3>2. s[Len(s)].interval \in Nat
      BY <3>1 DEF Packet
    <3>3. AfterPacket(c, a, l, s[Len(s)])
      BY <1>3, <2>2 DEF CursorAfter
    <3>4. AfterPacket(c, a + 1, l, s[Len(s)])
      BY SMTT(30), <1>1, <3>2, <3>3 DEF AfterPacket, Bare
    <3> QED BY <2>2, <3>4 DEF CursorAfter
  <2> QED BY <2>1, <2>2
<1> QED BY <1>2, <1>3

(* Behind the last interval the run before the cursor is whole. *)
LEMMA AllPacked ==
  ASSUME NEW c, NEW a, NEW l, Cursor(c, a, l), a > Len(c),
         NEW s, Chain(c, s), CursorAfter(c, a, l, s)
  PROVE  Whole(c, s)
<1>1. a = Len(c) + 1 /\ l = 0 /\ c \in Seq(Nat) /\ Len(c) \in Nat
  BY DEF Cursor
<1>2. CASE s = << >>
  BY <1>1, <1>2 DEF CursorAfter, Whole, Bare
<1>3. CASE s # << >>
  <2>1. AfterPacket(c, a, l, s[Len(s)])
    BY <1>3 DEF CursorAfter
  <2>2. Ends(c, s[Len(s)])
    BY <1>1, <2>1 DEF AfterPacket, Ends, Bare
  <2> QED BY <1>3, <2>2 DEF Whole
<1> QED BY <1>2, <1>3

-----------------------------------------------------------------------------
(* The invariant *)

(* An exit that packs two packets of one interval may continue its message  *)
(* to host 0 (NextMsg); the theorems are about exits with a packet for each *)
(* interval at most.                                                        *)
ShortExits == \A t \in Transfers : t.kind = "exit" =>
                \A i \in 1 .. Len(t.counts) : t.counts[i] <= MAX_WN_NUM

Room == MAX_MSG_SIZE - MSG_HEAD_SIZE

(* A share of at most `most' packets of one message for the intervals: after  *)
(* interval i, B[i] packets are reserved, enough for the notices of every   *)
(* interval, MAX_WN_NUM to a packet.                                        *)
Shares(c, most, B) ==
  \A i \in 1 .. Len(c) : /\ B[i - 1] <= B[i] /\ B[i] <= most
                         /\ c[i] <= (B[i] - B[i - 1]) * MAX_WN_NUM

(* grantWNI does not ask for room: a grant that does not fit one message    *)
(* runs over its array, and nothing is said of what then arrives.           *)
GrantsFit ==
  \A t \in Transfers : t.kind = "wni" =>
    \E most \in Nat : /\ IntSize + most * PacketSize <= Room
                      /\ \E B \in [0 .. Len(t.counts) -> Nat] : Shares(t.counts, most, B)

Message == [to : Node, stamp : BOOLEAN, packets : Seq(Packet)]
Transfer == [kind : {"none", "enter", "exit", "wni"}, counts : Seq(Nat), to : Seq(Node)]

(* How many hosts have had their turn, and which hosts have and have not. *)
Turns == Len(transfer.to) - Len(todo)
Done(h) == \E i \in 1 .. Turns : transfer.to[i] = h
Waits(h) == \E i \in Turns + 2 .. Len(transfer.to) : transfer.to[i] = h

(* The shape of the variables, and what a transfer of each kind is like. *)
PackShape ==
  /\ transfer \in Transfer
  /\ todo \in Seq(Node) /\ Len(todo) <= Len(transfer.to)
  /\ \A i \in 1 .. Len(todo) : todo[i] = transfer.to[Turns + i]
  /\ \A i, j \in 1 .. Len(transfer.to) : i < j => transfer.to[i] < transfer.to[j]
  /\ Cursor(transfer.counts, at, left)
  /\ msg \in Message /\ wire \in Seq(Message) /\ firstMsgSent \in BOOLEAN
  /\ stamped \in [Node -> {0, 1}] /\ got \in [Node -> Seq(Packet)]
  /\ transfer = Nothing => wire = << >>
  /\ transfer.kind = "none" => transfer.to = << >>
  /\ transfer.kind = "enter" => transfer.to = <<0>>
  /\ transfer.kind = "exit" => left = 0 /\ \A i \in 1 .. Len(transfer.counts) :
                                             transfer.counts[i] <= MAX_WN_NUM

(* A message: a run of packets, from the first notice on if it has the      *)
(* timestamp.                                                               *)
MsgSound(c, m) == /\ Chain(c, m.packets)
                  /\ m.stamp /\ m.packets # << >> => Starts(c, m.packets[1])

(* The messages on their way, host by host; each continues the one before   *)
(* it or begins the transfer to the next host.                              *)
EachSound ==
  \A i \in 1 .. Len(wire) : /\ MsgSound(transfer.counts, wire[i])
                            /\ wire[i].to \in Destinations
                            /\ wire[i].packets = << >> => wire[i].stamp
                            /\ wire[i].stamp => got[wire[i].to] = << >> /\ stamped[wire[i].to] = 0
InHostOrder ==
  \A i, j \in 1 .. Len(wire) : i < j => /\ wire[i].to <= wire[j].to
                                        /\ wire[j].stamp => wire[i].to < wire[j].to
WireLinked ==
  \A i \in 1 .. Len(wire) - 1 :
    ~wire[i + 1].stamp => /\ wire[i].to = wire[i + 1].to
                          /\ Continues(transfer.counts, wire[i].packets, wire[i + 1].packets)
FirstLinked ==
  wire # << >> /\ ~wire[1].stamp =>
    stamped[wire[1].to] = 1 /\ Continues(transfer.counts, got[wire[1].to], wire[1].packets)

(* What host h has taken. *)
GotSound(h) ==
  /\ Chain(transfer.counts, got[h])
  /\ got[h] # << >> => stamped[h] = 1 /\ h \in Destinations /\ Starts(transfer.counts, got[h][1])
  /\ h \notin Destinations => stamped[h] = 0

NoneFor(h) == \A i \in 1 .. Len(wire) : wire[i].to # h

(* Everything for h has been sent; nothing has. *)
DoneSound(h) ==
  /\ \A i \in 1 .. Len(wire) :
       wire[i].to = h /\ (i < Len(wire) => wire[i + 1].to # h)
         => Whole(transfer.counts, wire[i].packets)
  /\ NoneFor(h) => stamped[h] = 1 /\ Whole(transfer.counts, got[h])
Untouched(h) == NoneFor(h) /\ got[h] = << >> /\ stamped[h] = 0

(* Run t, with the cursor behind it, continues run s. *)
Resumes(c, a, l, s, t) ==
  /\ s # << >>
  /\ IF t = << >> THEN CursorAfter(c, a, l, s)
     ELSE Continues(c, s, t) /\ CursorAfter(c, a, l, t)

(* The host whose turn it is. *)
TurnSound ==
  /\ msg.to = Head(todo) /\ MsgSound(transfer.counts, msg) /\ (msg.stamp <=> ~firstMsgSent)
  /\ \A i \in 1 .. Len(wire) : wire[i].to <= Head(todo)
  /\ msg.stamp => Untouched(Head(todo)) /\ CursorAfter(transfer.counts, at, left, msg.packets)
  /\ ~msg.stamp /\ wire # << >> =>
       /\ wire[Len(wire)].to = Head(todo)
       /\ Resumes(transfer.counts, at, left, wire[Len(wire)].packets, msg.packets)
  /\ ~msg.stamp /\ wire = << >> =>
       /\ stamped[Head(todo)] = 1
       /\ Resumes(transfer.counts, at, left, got[Head(todo)], msg.packets)

HostSound(h) == GotSound(h) /\ (Done(h) => DoneSound(h)) /\ (Waits(h) => Untouched(h))

WireSound == EachSound /\ InHostOrder /\ WireLinked /\ FirstLinked

PackInv == /\ PackShape
           /\ WireSound
           /\ \A h \in Node : HostSound(h)
           /\ todo # << >> => TurnSound

-----------------------------------------------------------------------------
(* Whose turn it is *)

LEMMA TurnFacts ==
  ASSUME PackShape, todo # << >>
  PROVE  /\ Turns \in Nat /\ Len(todo) \in Nat /\ Len(todo) > 0
         /\ Head(todo) \in Node /\ Head(todo) \in Destinations
         /\ Turns + 1 \in 1 .. Len(transfer.to) /\ Head(todo) = transfer.to[Turns + 1]
         /\ \A g \in Node : /\ Done(g) => g < Head(todo)
                            /\ Waits(g) => g > Head(todo)
                            /\ g \in Destinations => Done(g) \/ g = Head(todo) \/ Waits(g)
<1>1. /\ transfer.to \in Seq(Node) /\ todo \in Seq(Node) /\ Len(todo) <= Len(transfer.to)
      /\ Len(transfer.to) \in Nat /\ Len(todo) \in Nat
  BY DEF PackShape, Transfer
<1>2. Len(todo) > 0 /\ Head(todo) = todo[1] /\ Head(todo) \in Node
  BY <1>1
<1>3. Turns \in Nat /\ Turns + 1 \in 1 .. Len(transfer.to)
  BY <1>1, <1>2 DEF Turns
<1>4. Head(todo) = transfer.to[Turns + 1]
  <2>1. 1 \in 1 .. Len(todo)
    BY <1>1, <1>2
  <2>2. todo[1] = transfer.to[Turns + 1]
    BY <2>1 DEF PackShape
  <2> QED BY <1>2, <2>2
<1>5. Head(todo) \in Destinations
  BY <1>1, <1>3, <1>4 DEF Destinations
<1>6. \A i \in 1 .. Len(transfer.to) : transfer.to[i] \in Node
  BY <1>1
<1>7. ASSUME NEW g \in Node, Done(g) PROVE g < Head(todo)
  <2>1. PICK i \in 1 .. Turns : transfer.to[i] = g
    BY <1>7 DEF Done
  <2>2. i \in 1 .. Len(transfer.to) /\ i < Turns + 1
    BY <1>3
  <2> QED BY <1>3, <1>4, <2>1, <2>2 DEF PackShape
<1>8. ASSUME NEW g \in Node, Waits(g) PROVE g > Head(todo)
  <2>1. PICK i \in Turns + 2 .. Len(transfer.to) : transfer.to[i] = g
    BY <1>8 DEF Waits
  <2>2. i \in 1 .. Len(transfer.to) /\ Turns + 1 < i
    BY <1>1, <1>3
  <2>3. Head(todo) < g
    BY <1>3, <1>4, <2>1, <2>2 DEF PackShape
  <2>4. Head(todo) \in Int /\ g \in Int
    BY <1>2 DEF Node
  <2> QED BY <2>3, <2>4
<1>9. ASSUME NEW g \in Node, g \in Destinations PROVE Done(g) \/ g = Head(todo) \/ Waits(g)
  <2>1. PICK i \in 1 .. Len(transfer.to) : transfer.to[i] = g
    BY <1>1, <1>9 DEF Destinations
  <2>2. i \in 1 .. Turns \/ i = Turns + 1 \/ i \in Turns + 2 .. Len(transfer.to)
    BY <1>1, <1>3, <2>1
  <2> QED BY <1>4, <2>1, <2>2 DEF Done, Waits
<1> QED BY <1>1, <1>2, <1>3, <1>4, <1>5, <1>7, <1>8, <1>9

(* The turn goes to the next host. *)
LEMMA NextTurn ==
  ASSUME PackShape, todo # << >>, todo' = Tail(todo), transfer' = transfer
  PROVE  /\ todo' \in Seq(Node) /\ Len(todo') = Len(todo) - 1 /\ Turns' = Turns + 1
         /\ \A i \in 1 .. Len(todo') : todo'[i] = transfer.to[Turns' + i]
         /\ \A g \in Node : Done(g)' => Done(g) \/ g = Head(todo)
         /\ \A g \in Node : Waits(g)' => Waits(g) /\ (todo' # << >> => g > Head(todo'))
         /\ todo' # << >> => /\ Head(todo') = todo[2] /\ Head(todo') \in Node
                             /\ Waits(Head(todo'))
<1>1. /\ transfer.to \in Seq(Node) /\ todo \in Seq(Node) /\ Len(todo) <= Len(transfer.to)
      /\ Len(transfer.to) \in Nat /\ Len(todo) \in Nat /\ Len(todo) > 0
  BY DEF PackShape, Transfer
<1>2. /\ todo' \in Seq(Node) /\ Len(todo') = Len(todo) - 1
      /\ \A i \in 1 .. Len(todo') : todo'[i] = todo[i + 1]
  BY <1>1, HeadTailProperties
<1>3. Turns' = Turns + 1 /\ Turns \in Nat
  BY <1>1, <1>2 DEF Turns
<1>4. \A i \in 1 .. Len(todo') : todo'[i] = transfer.to[Turns' + i]
  <2> SUFFICES ASSUME NEW i \in 1 .. Len(todo') PROVE todo'[i] = transfer.to[Turns' + i]
    OBVIOUS
  <2>1. i + 1 \in 1 .. Len(todo) /\ Turns + (i + 1) = Turns' + i
    BY <1>1, <1>2, <1>3
  <2>2. todo[i + 1] = transfer.to[Turns + (i + 1)]
    BY <2>1 DEF PackShape
  <2> QED BY <1>2, <2>1, <2>2
<1>5. Head(todo) = transfer.to[Turns + 1]
  BY TurnFacts
<1>6. \A g \in Node : Done(g)' => Done(g) \/ g = Head(todo)
  <2> SUFFICES ASSUME NEW g \in Node, Done(g)' PROVE Done(g) \/ g = Head(todo)
    OBVIOUS
  <2>1. PICK i \in 1 .. Turns + 1 : transfer.to[i] = g
    BY <1>3 DEF Done
  <2>2. i \in 1 .. Turns \/ i = Turns + 1
    BY <1>3
  <2> QED BY <1>5, <2>1, <2>2 DEF Done
<1>7. todo' # << >> => /\ Head(todo') = todo[2] /\ Head(todo') \in Node /\ Waits(Head(todo'))
                       /\ Head(todo') = transfer.to[Turns + 2] /\ Len(todo') > 0
  <2> SUFFICES ASSUME todo' # << >>
               PROVE  /\ Head(todo') = todo[2] /\ Head(todo') \in Node /\ Waits(Head(todo'))
                      /\ Head(todo') = transfer.to[Turns + 2] /\ Len(todo') > 0
    OBVIOUS
  <2>1. Len(todo') > 0 /\ Head(todo') = todo'[1] /\ Head(todo') \in Node
    BY <1>2
  <2>2. Head(todo') = todo[2] /\ Head(todo') = transfer.to[Turns' + 1] /\ Turns' + 1 = Turns + 2
    <3>1. 1 \in 1 .. Len(todo') /\ 1 + 1 = 2 /\ Turns' + 1 = Turns + 2
      BY <1>1, <1>2, <1>3, <2>1
    <3>2. todo'[1] = todo[2] /\ todo'[1] = transfer.to[Turns' + 1]
      BY <1>2, <1>4, <3>1
    <3> QED BY <2>1, <3>1, <3>2
  <2>3. Turns + 2 \in Turns + 2 .. Len(transfer.to)
    BY <1>1, <1>2, <1>3, <2>1 DEF Turns
  <2> QED BY <2>1, <2>2, <2>3 DEF Waits
<1>8. \A g \in Node : Waits(g)' => Waits(g) /\ (todo' # << >> => g > Head(todo'))
  <2> SUFFICES ASSUME NEW g \in Node, Waits(g)'
               PROVE  Waits(g) /\ (todo' # << >> => g > Head(todo'))
    OBVIOUS
  <2>1. PICK i \in Turns + 3 .. Len(transfer.to) : transfer.to[i] = g
    BY <1>3 DEF Waits
  <2>2. /\ i \in Turns + 2 .. Len(transfer.to) /\ i \in 1 .. Len(transfer.to)
        /\ Turns + 2 \in 1 .. Len(transfer.to) /\ Turns + 2 < i
    BY <1>1, <1>3
  <2>3. transfer.to[Turns + 2] < g /\ transfer.to[Turns + 2] \in Node
    <3>1. \A j, k \in 1 .. Len(transfer.to) : j < k => transfer.to[j] < transfer.to[k]
      BY DEF PackShape
    <3>2. transfer.to[Turns + 2] < transfer.to[i]
      BY <2>2, <3>1
    <3> QED BY <1>1, <2>1, <2>2, <3>2
  <2>4. g \in Int /\ transfer.to[Turns + 2] \in Int
    BY <2>3 DEF Node
  <2> QED BY <1>7, <2>1, <2>2, <2>3, <2>4 DEF Waits
<1> QED BY <1>2, <1>3, <1>4, <1>6, <1>7, <1>8

-----------------------------------------------------------------------------
(* A message is taken *)

(* What its receiver has then. *)
LEMMA Received ==
  ASSUME PackInv, wire # << >>, Take
  PROVE  /\ wire[1] \in Message /\ wire[1].to \in Node /\ wire[1].to \in Destinations
         /\ stamped' = [stamped EXCEPT ![wire[1].to] = 1]
         /\ got' = [got EXCEPT ![wire[1].to] = got[wire[1].to] \o wire[1].packets]
         /\ Chain(transfer.counts, got'[wire[1].to])
         /\ got'[wire[1].to] # << >> => Starts(transfer.counts, got'[wire[1].to][1])
         /\ IF wire[1].packets = << >> THEN got'[wire[1].to] = << >>
            ELSE /\ got'[wire[1].to] # << >>
                 /\ got'[wire[1].to][Len(got'[wire[1].to])] = wire[1].packets[Len(wire[1].packets)]
<1> DEFINE m == wire[1]
           h == m.to
           c == transfer.counts
<1>1. wire \in Seq(Message) /\ Len(wire) \in Nat /\ Len(wire) > 0 /\ 1 \in 1 .. Len(wire)
  BY DEF PackInv, PackShape
<1>2. m \in Message /\ m = Head(wire)
  BY <1>1
<1>3. h \in Node /\ m.packets \in Seq(Packet) /\ m.stamp \in BOOLEAN
  BY <1>2 DEF Message
<1>4. /\ MsgSound(c, m) /\ h \in Destinations /\ (m.packets = << >> => m.stamp)
      /\ m.stamp => got[h] = << >> /\ stamped[h] = 0
  BY <1>1 DEF PackInv, WireSound, EachSound
<1>5. ~m.stamp => stamped[h] = 1 /\ Continues(c, got[h], m.packets)
  BY DEF PackInv, WireSound, FirstLinked
<1>6. /\ stamped \in [Node -> {0, 1}] /\ got \in [Node -> Seq(Packet)] /\ c \in Seq(Nat)
  BY DEF PackInv, PackShape, Transfer
<1>7. stamped' = [stamped EXCEPT ![h] = 1]
  <2>1. stamped' = [stamped EXCEPT ![h] = IF m.stamp /\ (transfer.kind = "enter" => stamped[h] = 0)
                                          THEN stamped[h] + 1 ELSE stamped[h]]
    BY <1>2 DEF Take
  <2>2. (IF m.stamp /\ (transfer.kind = "enter" => stamped[h] = 0)
         THEN stamped[h] + 1 ELSE stamped[h]) = 1
    BY <1>3, <1>4, <1>5
  <2> QED BY <2>1, <2>2
<1>8. got' = [got EXCEPT ![h] = got[h] \o m.packets]
  BY <1>2 DEF Take
<1>9. got'[h] = got[h] \o m.packets
  BY <1>3, <1>6, <1>8
<1>10. Chain(c, m.packets) /\ (m.stamp /\ m.packets # << >> => Starts(c, m.packets[1]))
  BY <1>4 DEF MsgSound
<1>11. Chain(c, got[h]) /\ (got[h] # << >> => Starts(c, got[h][1]))
  BY <1>3 DEF PackInv, HostSound, GotSound
<1>12. /\ Chain(c, got'[h]) /\ (got'[h] # << >> => Starts(c, got'[h][1]))
       /\ IF m.packets = << >> THEN got'[h] = << >>
          ELSE got'[h] # << >> /\ got'[h][Len(got'[h])] = m.packets[Len(m.packets)]
  <2>1. CASE m.stamp
    <3>1. got'[h] = m.packets
      BY <1>3, <1>4, <1>9, <2>1, ConcatEmptySeq
    <3> QED BY <1>10, <2>1, <3>1
  <2>2. CASE ~m.stamp
    <3>1. Continues(c, got[h], m.packets)
      BY <1>5, <2>2
    <3>2. m.packets # << >> /\ got[h] # << >>
      BY <3>1 DEF Continues
    <3>3. /\ Chain(c, got[h] \o m.packets) /\ got[h] \o m.packets # << >>
          /\ (got[h] \o m.packets)[1] = got[h][1]
          /\ (got[h] \o m.packets)[Len(got[h] \o m.packets)] = m.packets[Len(m.packets)]
      <4> DEFINE x == got[h]
                 y == m.packets
      <4>1. c \in Seq(Nat) /\ Chain(c, x) /\ Chain(c, y) /\ Continues(c, x, y)
        BY <1>6, <1>10, <1>11, <3>1
      <4> HIDE DEF x, y, c
      <4>2. /\ Chain(c, x \o y) /\ x \o y # << >> /\ (x \o y)[1] = x[1]
            /\ (x \o y)[Len(x \o y)] = y[Len(y)]
        BY <4>1, Joined
      <4> QED BY <4>2 DEF x, y
    <3> QED BY <1>9, <1>11, <3>2, <3>3
  <2> QED BY <2>1, <2>2
<1> QED BY <1>2, <1>3, <1>4, <1>7, <1>8, <1>12

LEMMA TakePack ==
  ASSUME PackInv, Take
  PROVE  PackInv'
<1> DEFINE m == wire[1]
           h == m.to
           c == transfer.counts
<1>0. /\ wire # << >> /\ wire' = Tail(wire)
      /\ UNCHANGED <<transfer, todo, at, left, msg, firstMsgSent>>
  BY DEF Take
<1>1. /\ m \in Message /\ h \in Node /\ h \in Destinations
      /\ stamped' = [stamped EXCEPT ![h] = 1]
      /\ got' = [got EXCEPT ![h] = got[h] \o m.packets]
      /\ Chain(c, got'[h])
      /\ got'[h] # << >> => Starts(c, got'[h][1])
      /\ IF m.packets = << >> THEN got'[h] = << >>
         ELSE got'[h] # << >> /\ got'[h][Len(got'[h])] = m.packets[Len(m.packets)]
  BY <1>0, Received
<1>2. /\ stamped \in [Node -> {0, 1}] /\ got \in [Node -> Seq(Packet)] /\ c \in Seq(Nat)
      /\ wire \in Seq(Message) /\ Len(wire) \in Nat /\ Len(wire) > 0
  BY <1>0 DEF PackInv, PackShape, Transfer
<1>3. /\ wire' \in Seq(Message) /\ Len(wire') = Len(wire) - 1 /\ Len(wire') \in Nat
      /\ \A i \in 1 .. Len(wire') : wire'[i] = wire[i + 1] /\ i + 1 \in 1 .. Len(wire)
  BY <1>0, <1>2, HeadTailProperties
<1>4. /\ stamped' \in [Node -> {0, 1}] /\ stamped'[h] = 1
      /\ \A g \in Node \ {h} : stamped'[g] = stamped[g] /\ got'[g] = got[g]
  BY <1>1, <1>2
<1>5. got' \in [Node -> Seq(Packet)]
  <2>1. got[h] \o m.packets \in Seq(Packet)
    BY <1>1, <1>2 DEF Message
  <2> QED BY <1>1, <1>2, <2>1
<1>6. \A s : Continues(c, m.packets, s) => Continues(c, got'[h], s)
  BY <1>1 DEF Continues
<1>7. Whole(c, m.packets) => Whole(c, got'[h])
  BY <1>1 DEF Whole
<1>8. \A a, l : m.packets # << >> /\ CursorAfter(c, a, l, m.packets) => CursorAfter(c, a, l, got'[h])
  BY <1>1 DEF CursorAfter
<1>9. Destinations' = Destinations /\ Turns' = Turns
  BY <1>0 DEF Destinations, Turns
<1>10. EachSound /\ InHostOrder /\ WireLinked
  BY DEF PackInv, WireSound
<1> HIDE DEF m, h, c
<1>11. PackShape'
  <2>1. transfer # Nothing
    BY <1>0 DEF PackInv, PackShape
  <2>2. PackShape /\ UNCHANGED <<transfer, todo, at, left, msg, firstMsgSent>> /\ Turns' = Turns
    BY <1>0, <1>9 DEF PackInv
  <2>3. wire' \in Seq(Message) /\ stamped' \in [Node -> {0, 1}] /\ got' \in [Node -> Seq(Packet)]
    BY <1>3, <1>4, <1>5
  <2>4. /\ transfer \in Transfer /\ todo \in Seq(Node) /\ Len(todo) <= Len(transfer.to)
        /\ \A i \in 1 .. Len(todo) : todo[i] = transfer.to[Turns + i]
        /\ \A i, j \in 1 .. Len(transfer.to) : i < j => transfer.to[i] < transfer.to[j]
        /\ Cursor(transfer.counts, at, left) /\ msg \in Message /\ firstMsgSent \in BOOLEAN
    BY <2>2, Zenon DEF PackShape
  <2>5. /\ transfer.kind = "none" => transfer.to = << >>
        /\ transfer.kind = "enter" => transfer.to = <<0>>
        /\ transfer.kind = "exit" => left = 0 /\ \A i \in 1 .. Len(transfer.counts) :
                                                  transfer.counts[i] <= MAX_WN_NUM
    BY <2>2, Zenon DEF PackShape
  <2>6. UNCHANGED <<transfer, todo, at, left, msg, firstMsgSent>> /\ Turns' = Turns
    BY <2>2
  <2> QED BY <2>1, <2>3, <2>4, <2>5, <2>6, ZenonT(60) DEF PackShape
<1>12. \A i \in 1 .. Len(wire') : /\ wire'[i].to \in Node
                                  /\ wire'[i].stamp => wire'[i].to # h
  <2> SUFFICES ASSUME NEW i \in 1 .. Len(wire')
               PROVE  wire'[i].to \in Node /\ (wire'[i].stamp => wire'[i].to # h)
    OBVIOUS
  <2>1. wire'[i] \in Message
    BY <1>3
  <2>2. wire'[i] = wire[i + 1] /\ i + 1 \in 1 .. Len(wire) /\ 1 \in 1 .. Len(wire) /\ 1 < i + 1
    BY <1>2, <1>3
  <2>3. wire[i + 1].stamp => wire[1].to < wire[i + 1].to
    BY <1>10, <2>2 DEF InHostOrder
  <2>4. h \in Int
    BY <1>1 DEF Node
  <2> QED BY <2>1, <2>2, <2>3, <2>4 DEF Message, h, m
<1>13. EachSound'
  <2> SUFFICES ASSUME NEW i \in 1 .. Len(wire')
               PROVE  /\ MsgSound(c, wire'[i]) /\ wire'[i].to \in Destinations
                      /\ wire'[i].packets = << >> => wire'[i].stamp
                      /\ wire'[i].stamp => got'[wire'[i].to] = << >> /\ stamped'[wire'[i].to] = 0
    BY <1>0, <1>9 DEF EachSound, c
  <2>1. wire'[i] = wire[i + 1] /\ i + 1 \in 1 .. Len(wire)
    BY <1>3
  <2>2. /\ MsgSound(c, wire[i + 1]) /\ wire[i + 1].to \in Destinations
        /\ wire[i + 1].packets = << >> => wire[i + 1].stamp
        /\ wire[i + 1].stamp => got[wire[i + 1].to] = << >> /\ stamped[wire[i + 1].to] = 0
    BY <1>10, <2>1 DEF EachSound, c
  <2> QED BY <1>4, <1>12, <2>1, <2>2
<1>14. InHostOrder'
  <2> SUFFICES ASSUME NEW i \in 1 .. Len(wire'), NEW j \in 1 .. Len(wire'), i < j
               PROVE  wire'[i].to <= wire'[j].to /\ (wire'[j].stamp => wire'[i].to < wire'[j].to)
    BY DEF InHostOrder
  <2>1. /\ wire'[i] = wire[i + 1] /\ wire'[j] = wire[j + 1] /\ i + 1 < j + 1
        /\ i + 1 \in 1 .. Len(wire) /\ j + 1 \in 1 .. Len(wire)
    BY <1>3
  <2> QED BY <1>10, <2>1 DEF InHostOrder
<1>15. WireLinked'
  <2> SUFFICES ASSUME NEW i \in 1 .. Len(wire') - 1, ~wire'[i + 1].stamp
               PROVE  /\ wire'[i].to = wire'[i + 1].to
                      /\ Continues(c, wire'[i].packets, wire'[i + 1].packets)
    BY <1>0 DEF WireLinked, c
  <2>1. i \in 1 .. Len(wire') /\ i + 1 \in 1 .. Len(wire') /\ i + 1 \in 1 .. Len(wire) - 1
    BY <1>2, <1>3
  <2>2. wire'[i] = wire[i + 1] /\ wire'[i + 1] = wire[(i + 1) + 1]
    BY <1>3, <2>1
  <2> QED BY <1>10, <2>1, <2>2 DEF WireLinked, c
<1>16. FirstLinked'
  <2> SUFFICES ASSUME wire' # << >>, ~wire'[1].stamp
               PROVE  stamped'[wire'[1].to] = 1 /\ Continues(c, got'[wire'[1].to], wire'[1].packets)
    BY <1>0 DEF FirstLinked, c
  <2>1. 1 \in 1 .. Len(wire') /\ 1 \in 1 .. Len(wire) - 1 /\ 1 + 1 = 2
    BY <1>2, <1>3
  <2>2. wire'[1] = wire[1 + 1]
    BY <1>3, <2>1
  <2>3. wire[1].to = wire[1 + 1].to /\ Continues(c, wire[1].packets, wire[1 + 1].packets)
    BY <1>10, <2>1, <2>2 DEF WireLinked, c
  <2> QED BY <1>4, <1>6, <2>2, <2>3 DEF h, m
<1>17. \A g \in Node : GotSound(g)'
  <2> SUFFICES ASSUME NEW g \in Node
               PROVE  /\ Chain(c, got'[g])
                      /\ got'[g] # << >> => stamped'[g] = 1 /\ g \in Destinations /\ Starts(c, got'[g][1])
                      /\ g \notin Destinations => stamped'[g] = 0
    BY <1>0, <1>9 DEF GotSound, c
  <2>1. CASE g = h
    BY <1>1, <1>4, <2>1
  <2>2. CASE g # h
    <3>1. GotSound(g) /\ got'[g] = got[g] /\ stamped'[g] = stamped[g]
      BY <1>4, <2>2 DEF PackInv, HostSound
    <3> QED BY <3>1 DEF GotSound, c
  <2> QED BY <2>1, <2>2
<1>18. \A g \in Node : Untouched(g) => Untouched(g)'
  <2> SUFFICES ASSUME NEW g \in Node, Untouched(g) PROVE Untouched(g)'
    OBVIOUS
  <2>1. 1 \in 1 .. Len(wire)
    BY <1>2
  <2>2. g # h
    BY <2>1 DEF Untouched, NoneFor, h, m
  <2>3. NoneFor(g)'
    BY <1>3 DEF Untouched, NoneFor
  <2> QED BY <1>4, <2>2, <2>3 DEF Untouched
<1>19. \A g \in Node : DoneSound(g) => DoneSound(g)'
  <2> SUFFICES ASSUME NEW g \in Node, DoneSound(g) PROVE DoneSound(g)'
    OBVIOUS
  <2>1. ASSUME NEW i \in 1 .. Len(wire'), wire'[i].to = g, i < Len(wire') => wire'[i + 1].to # g
        PROVE  Whole(c, wire'[i].packets)
    <3>1. wire'[i] = wire[i + 1] /\ i + 1 \in 1 .. Len(wire) /\ i \in Int
      BY <1>3
    <3>2. ASSUME i + 1 < Len(wire) PROVE wire[(i + 1) + 1].to # g
      <4>1. i < Len(wire') /\ i + 1 \in 1 .. Len(wire')
        BY <1>2, <1>3, <3>1, <3>2
      <4>2. wire'[i + 1] = wire[(i + 1) + 1]
        BY <1>3, <4>1
      <4> QED BY <2>1, <4>1, <4>2
    <3> QED BY <2>1, <3>1, <3>2 DEF DoneSound, c
  <2>2. ASSUME NoneFor(g)' PROVE stamped'[g] = 1 /\ Whole(c, got'[g])
    <3>1. CASE g = h
      <4>1. 1 \in 1 .. Len(wire) /\ wire[1].to = g
        BY <1>2, <3>1 DEF h, m
      <4>2. ASSUME 1 < Len(wire) PROVE wire[1 + 1].to # g
        <5>1. 1 \in 1 .. Len(wire')
          BY <1>2, <1>3, <4>2
        <5> QED BY <1>3, <2>2, <5>1 DEF NoneFor
      <4>3. Whole(c, wire[1].packets)
        BY <4>1, <4>2 DEF DoneSound, c
      <4> QED BY <1>4, <1>7, <3>1, <4>3 DEF m
    <3>2. CASE g # h
      <4>1. NoneFor(g)
        <5> SUFFICES ASSUME NEW i \in 1 .. Len(wire) PROVE wire[i].to # g
          BY DEF NoneFor
        <5>1. CASE i = 1
          BY <3>2, <5>1 DEF h, m
        <5>2. CASE i # 1
          <6>1. i - 1 \in 1 .. Len(wire') /\ (i - 1) + 1 = i
            BY <1>2, <1>3, <5>2
          <6>2. wire'[i - 1] = wire[i]
            BY <1>3, <6>1
          <6> QED BY <2>2, <6>1, <6>2 DEF NoneFor
        <5> QED BY <5>1, <5>2
      <4> QED BY <1>4, <3>2, <4>1 DEF DoneSound, c
    <3> QED BY <3>1, <3>2
  <2> QED BY <1>0, <2>1, <2>2 DEF DoneSound, c
<1>20. \A g \in Node : HostSound(g)'
  <2> SUFFICES ASSUME NEW g \in Node PROVE HostSound(g)'
    OBVIOUS
  <2>1. Done(g)' <=> Done(g)
    BY <1>0, <1>9 DEF Done
  <2>2. Waits(g)' <=> Waits(g)
    BY <1>0, <1>9 DEF Waits
  <2>3. HostSound(g)
    BY DEF PackInv
  <2> QED BY <1>17, <1>18, <1>19, <2>1, <2>2, <2>3 DEF HostSound
<1>21. ASSUME todo' # << >> PROVE TurnSound'
  <2>1. todo # << >> /\ TurnSound /\ Head(todo) \in Node
    BY <1>0, <1>21, TurnFacts DEF PackInv
  <2> PICK t \in Node : t = Head(todo)
    BY <2>1
  <2>2. Head(todo') = t /\ msg' = msg /\ at' = at /\ left' = left /\ firstMsgSent' = firstMsgSent
        /\ transfer' = transfer
    BY <1>0
  <2>3. \A i \in 1 .. Len(wire') : wire'[i].to <= t
    BY <1>3, <2>1 DEF TurnSound
  <2>4. ASSUME msg.stamp
        PROVE  /\ \A i \in 1 .. Len(wire') : wire'[i].to # t
               /\ got'[t] = << >> /\ stamped'[t] = 0
               /\ CursorAfter(c, at, left, msg.packets)
    <3>1. Untouched(t) /\ CursorAfter(c, at, left, msg.packets)
      BY <2>1, <2>4 DEF TurnSound, c
    <3> QED BY <1>18, <3>1 DEF Untouched, NoneFor
  <2>5. ASSUME ~msg.stamp
        PROVE  wire[Len(wire)].to = t /\ Resumes(c, at, left, wire[Len(wire)].packets, msg.packets)
    BY <1>0, <2>1, <2>5 DEF TurnSound, c
  <2>6. ASSUME ~msg.stamp, wire' # << >>
        PROVE  wire'[Len(wire')].to = t /\ Resumes(c, at, left, wire'[Len(wire')].packets, msg.packets)
    <3>1. Len(wire') \in 1 .. Len(wire') /\ Len(wire') + 1 = Len(wire)
      BY <1>2, <1>3, <2>6
    <3>2. wire'[Len(wire')] = wire[Len(wire)]
      BY <1>3, <3>1
    <3> QED BY <2>5, <2>6, <3>2
  <2>7. ASSUME ~msg.stamp, wire' = << >>
        PROVE  stamped'[t] = 1 /\ Resumes(c, at, left, got'[t], msg.packets)
    <3>1. Len(wire) = 1
      BY <1>2, <1>3, <2>7
    <3>2. h = t /\ Resumes(c, at, left, m.packets, msg.packets)
      BY <2>5, <2>7, <3>1 DEF h, m
    <3>3. Resumes(c, at, left, got'[h], msg.packets)
      BY <1>1, <1>6, <1>8, <3>2 DEF Resumes
    <3> QED BY <1>4, <3>2, <3>3
  <2> QED BY <2>1, <2>2, <2>3, <2>4, <2>6, <2>7 DEF TurnSound, Untouched, NoneFor, c
<1> QED BY <1>11, <1>13, <1>14, <1>15, <1>16, <1>20, <1>21 DEF PackInv, WireSound

-----------------------------------------------------------------------------
(* Packing *)

(* A run that one more packet is put into. *)
LEMMA Extended ==
  ASSUME NEW c, NEW a, NEW l, Cursor(c, a, l), a <= Len(c), c[a] > 0,
         NEW n \in Nat, n > 0, n <= c[a] - l,
         NEW s, Chain(c, s), NEW q, q = [interval |-> a, first |-> l, count |-> n]
  PROVE  /\ Append(s, q) # << >> /\ Append(s, q)[Len(Append(s, q))] = q
         /\ CursorAfter(c, a, l, s) /\ (s # << >> => Starts(c, s[1]))
              => Chain(c, Append(s, q)) /\ Starts(c, Append(s, q)[1])
         /\ \A prev : Chain(c, prev) /\ Resumes(c, a, l, prev, s)
              => Chain(c, Append(s, q)) /\ Continues(c, prev, Append(s, q))
<1>1. c \in Seq(Nat) /\ s \in Seq(Packet)
  BY DEF Cursor, Chain
<1>2. q \in Packet
  BY <1>1 DEF Packet, Cursor
<1>3. /\ Append(s, q) = s \o <<q>> /\ Append(s, q) # << >>
      /\ Append(s, q)[Len(Append(s, q))] = q
      /\ s = << >> => Append(s, q) = <<q>>
      /\ s # << >> => Append(s, q)[1] = s[1]
  <2>1. /\ Append(s, q) \in Seq(Packet) /\ Len(Append(s, q)) = Len(s) + 1 /\ Len(s) \in Nat
        /\ Append(s, q)[Len(s) + 1] = q
        /\ \A i \in 1 .. Len(s) : Append(s, q)[i] = s[i]
    BY <1>1, <1>2, AppendProperties
  <2>2. Append(s, q) = s \o <<q>>
    BY <1>1, <1>2, AppendIsConcat
  <2>3. s = << >> => Append(s, q) = <<q>>
    OBVIOUS
  <2>4. s # << >> => Append(s, q)[1] = s[1]
    BY <1>1, <2>1
  <2>5. Append(s, q) # << >> /\ Append(s, q)[Len(Append(s, q))] = q
    BY <2>1
  <2> QED BY <2>2, <2>3, <2>4, <2>5
<1>4. ASSUME CursorAfter(c, a, l, s)
      PROVE  /\ Chain(c, Append(s, q)) /\ IsPart(c, q)
             /\ s = << >> => Starts(c, q)
  <2>1. /\ IsPart(c, q) /\ (s # << >> => Continues(c, s, <<q>>)) /\ (s = << >> => Starts(c, q))
    BY <1>4, Packed
  <2>2. Chain(c, <<q>>)
    BY <1>1, <1>2, <2>1, Single
  <2>3. CASE s = << >>
    BY <1>3, <2>1, <2>2, <2>3
  <2>4. CASE s # << >>
    BY <1>1, <1>3, <2>1, <2>2, <2>4, Joined
  <2> QED BY <2>1, <2>3, <2>4
<1>5. ASSUME CursorAfter(c, a, l, s), s # << >> => Starts(c, s[1])
      PROVE  Chain(c, Append(s, q)) /\ Starts(c, Append(s, q)[1])
  <2>1. CASE s = << >>
    BY <1>3, <1>4, <1>5, <2>1
  <2>2. CASE s # << >>
    BY <1>3, <1>4, <1>5, <2>2
  <2> QED BY <2>1, <2>2
<1>6. ASSUME NEW prev, Chain(c, prev), Resumes(c, a, l, prev, s)
      PROVE  Chain(c, Append(s, q)) /\ Continues(c, prev, Append(s, q))
  <2>1. CASE s = << >>
    <3>1. prev # << >> /\ CursorAfter(c, a, l, prev)
      BY <1>6, <2>1 DEF Resumes
    <3>2. IsPart(c, q) /\ Continues(c, prev, <<q>>)
      BY <1>6, <3>1, Packed
    <3>3. Chain(c, <<q>>)
      BY <1>1, <1>2, <3>2, Single
    <3> QED BY <1>3, <2>1, <3>2, <3>3
  <2>2. CASE s # << >>
    <3>1. Continues(c, prev, s) /\ CursorAfter(c, a, l, s)
      BY <1>6, <2>2 DEF Resumes
    <3>2. Continues(c, prev, Append(s, q))
      BY <1>3, <2>2, <3>1 DEF Continues
    <3> QED BY <1>4, <3>1, <3>2
  <2> QED BY <2>1, <2>2
<1> QED BY <1>3, <1>5, <1>6

(* What the message being filled continues. *)
LEMMA Before ==
  ASSUME PackInv, NEW h \in Node, todo # << >>, h = Head(todo), ~msg.stamp
  PROVE  \E prev : /\ Chain(transfer.counts, prev)
                   /\ Resumes(transfer.counts, at, left, prev, msg.packets)
                   /\ wire # << >> => prev = wire[Len(wire)].packets
                   /\ wire = << >> => prev = got[h]
<1>1. CASE wire # << >>
  <2>1. wire \in Seq(Message) /\ Len(wire) \in 1 .. Len(wire)
    BY <1>1 DEF PackInv, PackShape
  <2>2. Chain(transfer.counts, wire[Len(wire)].packets)
    BY <2>1 DEF PackInv, WireSound, EachSound, MsgSound
  <2> QED BY <1>1, <2>2 DEF PackInv, TurnSound
<1>2. CASE wire = << >>
  <2>1. Chain(transfer.counts, got[h])
    BY DEF PackInv, HostSound, GotSound
  <2> QED BY <1>2, <2>1 DEF PackInv, TurnSound
<1> QED BY <1>1, <1>2

(* A message is put on its way. *)
LEMMA Dispatched ==
  ASSUME PackInv, NEW h \in Node, todo # << >>, h = Head(todo),
         NEW m \in Message, m.to = h, MsgSound(transfer.counts, m),
         m.packets = << >> => m.stamp, m.stamp <=> msg.stamp,
         ~msg.stamp /\ wire # << >> =>
           Continues(transfer.counts, wire[Len(wire)].packets, m.packets),
         ~msg.stamp /\ wire = << >> => Continues(transfer.counts, got[h], m.packets),
         wire' = Append(wire, m), UNCHANGED <<transfer, stamped, got>>
  PROVE  /\ wire' \in Seq(Message) /\ wire' # << >> /\ wire'[Len(wire')] = m
         /\ WireSound'
         /\ \A g \in Node : g < h /\ DoneSound(g) => DoneSound(g)'
         /\ \A g \in Node : g > h /\ Untouched(g) => Untouched(g)'
         /\ \A i \in 1 .. Len(wire') : wire'[i].to <= h
<1> DEFINE c == transfer.counts
           L == Len(wire)
<1>1. wire \in Seq(Message) /\ L \in Nat /\ h \in Int
  BY DEF PackInv, PackShape, Node
<1>2. /\ wire' \in Seq(Message) /\ Len(wire') = L + 1 /\ wire'[L + 1] = m
      /\ \A i \in 1 .. L : wire'[i] = wire[i]
  BY <1>1, AppendProperties
<1>3. \A i \in 1 .. L : wire[i] \in Message /\ wire[i].to \in Node /\ wire[i].to \in Int
  <2>1. \A i \in 1 .. L : wire[i] \in Message
    BY <1>1
  <2>2. \A i \in 1 .. L : wire[i].to \in Node
    BY <2>1 DEF Message
  <2> QED BY <2>1, <2>2 DEF Node
<1>4. /\ TurnSound /\ EachSound /\ InHostOrder /\ WireLinked /\ FirstLinked
      /\ h \in Destinations /\ Destinations' = Destinations
  BY TurnFacts DEF PackInv, WireSound, Destinations
<1>5. \A i \in 1 .. L : wire[i].to <= h /\ (msg.stamp => wire[i].to < h)
  BY <1>1, <1>3, <1>4 DEF TurnSound, Untouched, NoneFor
<1>6. msg.stamp => got[h] = << >> /\ stamped[h] = 0
  BY <1>4 DEF TurnSound, Untouched
<1>7. /\ ~msg.stamp /\ wire # << >> => wire[L].to = h
      /\ ~msg.stamp /\ wire = << >> => stamped[h] = 1
  BY <1>4 DEF TurnSound
<1> HIDE DEF L
<1>8. EachSound'
  <2> SUFFICES ASSUME NEW i \in 1 .. L + 1
               PROVE  /\ MsgSound(c, wire'[i]) /\ wire'[i].to \in Destinations
                      /\ wire'[i].packets = << >> => wire'[i].stamp
                      /\ wire'[i].stamp => got[wire'[i].to] = << >> /\ stamped[wire'[i].to] = 0
    BY <1>2, <1>4 DEF EachSound
  <2>1. CASE i = L + 1
    BY <1>2, <1>4, <1>6, <2>1
  <2>2. CASE i # L + 1
    <3>1. i \in 1 .. L /\ wire'[i] = wire[i]
      BY <1>1, <1>2, <2>2
    <3> QED BY <1>4, <3>1 DEF EachSound, L
  <2> QED BY <2>1, <2>2
<1>9. InHostOrder'
  <2> SUFFICES ASSUME NEW i \in 1 .. L + 1, NEW j \in 1 .. L + 1, i < j
               PROVE  wire'[i].to <= wire'[j].to /\ (wire'[j].stamp => wire'[i].to < wire'[j].to)
    BY <1>2 DEF InHostOrder
  <2>1. i \in 1 .. L /\ wire'[i] = wire[i]
    BY <1>1, <1>2
  <2>2. CASE j = L + 1
    BY <1>2, <1>5, <2>1, <2>2
  <2>3. CASE j # L + 1
    <3>1. j \in 1 .. L /\ wire'[j] = wire[j]
      BY <1>1, <1>2, <2>3
    <3> QED BY <1>4, <2>1, <3>1 DEF InHostOrder, L
  <2> QED BY <2>2, <2>3
<1>10. WireLinked'
  <2> SUFFICES ASSUME NEW i \in 1 .. L, ~wire'[i + 1].stamp
               PROVE  /\ wire'[i].to = wire'[i + 1].to
                      /\ Continues(c, wire'[i].packets, wire'[i + 1].packets)
    BY <1>1, <1>2 DEF WireLinked
  <2>1. wire'[i] = wire[i] /\ i \in Int
    BY <1>1, <1>2
  <2>2. CASE i = L
    <3>1. wire # << >>
      BY <1>1, <2>2 DEF L
    <3> QED BY <1>2, <1>7, <2>1, <2>2, <3>1 DEF L
  <2>3. CASE i # L
    <3>1. i \in 1 .. L - 1 /\ i + 1 \in 1 .. L /\ wire'[i + 1] = wire[i + 1]
      BY <1>1, <1>2, <2>3
    <3> QED BY <1>4, <2>1, <3>1 DEF WireLinked, L
  <2> QED BY <2>2, <2>3
<1>11. FirstLinked'
  <2> SUFFICES ASSUME ~wire'[1].stamp
               PROVE  stamped[wire'[1].to] = 1 /\ Continues(c, got[wire'[1].to], wire'[1].packets)
    BY DEF FirstLinked
  <2>1. CASE wire = << >>
    <3>1. wire'[1] = m
      BY <1>2, <2>1 DEF L
    <3> QED BY <1>7, <2>1, <3>1
  <2>2. CASE wire # << >>
    <3>1. wire'[1] = wire[1]
      BY <1>1, <1>2, <2>2 DEF L
    <3> QED BY <1>4, <2>2, <3>1 DEF FirstLinked
  <2> QED BY <2>1, <2>2
<1>12. ASSUME NEW g \in Node, g < h, DoneSound(g) PROVE DoneSound(g)'
  <2>1. ASSUME NEW i \in 1 .. L + 1, wire'[i].to = g, i < L + 1 => wire'[i + 1].to # g
        PROVE  Whole(c, wire'[i].packets)
    <3>0. g \in Int /\ g # h
      BY <1>1, <1>12 DEF Node
    <3>1. i \in 1 .. L /\ wire'[i] = wire[i]
      BY <1>1, <1>2, <2>1, <3>0
    <3>2. ASSUME i < L PROVE wire[i + 1].to # g
      <4>1. i + 1 \in 1 .. L /\ i < L + 1
        BY <1>1, <3>1, <3>2
      <4> QED BY <1>2, <2>1, <4>1
    <3> QED BY <1>12, <2>1, <3>1, <3>2 DEF DoneSound, L
  <2>2. ASSUME NoneFor(g)' PROVE stamped[g] = 1 /\ Whole(c, got[g])
    <3>1. NoneFor(g)
      BY <1>1, <1>2, <2>2 DEF NoneFor, L
    <3> QED BY <1>12, <3>1 DEF DoneSound
  <2> QED BY <1>2, <2>1, <2>2 DEF DoneSound
<1>13. ASSUME NEW g \in Node, g > h, Untouched(g) PROVE Untouched(g)'
  <2>1. g # h
    BY <1>1, <1>13 DEF Node
  <2>2. NoneFor(g)'
    <3> SUFFICES ASSUME NEW i \in 1 .. L + 1 PROVE wire'[i].to # g
      BY <1>2 DEF NoneFor
    <3>1. CASE i = L + 1
      BY <1>2, <2>1, <3>1
    <3>2. CASE i # L + 1
      <4>1. i \in 1 .. L /\ wire'[i] = wire[i]
        BY <1>1, <1>2, <3>2
      <4> QED BY <1>13, <4>1 DEF Untouched, NoneFor, L
    <3> QED BY <3>1, <3>2
  <2> QED BY <1>13, <2>2 DEF Untouched
<1>14. \A i \in 1 .. Len(wire') : wire'[i].to <= h
  <2> SUFFICES ASSUME NEW i \in 1 .. L + 1 PROVE wire'[i].to <= h
    BY <1>2
  <2>1. i = L + 1 \/ i \in 1 .. L
    BY <1>1
  <2> QED BY <1>1, <1>2, <1>5, <2>1
<1> QED BY <1>1, <1>2, <1>8, <1>9, <1>10, <1>11, <1>12, <1>13, <1>14 DEF WireSound

(* A step that puts nothing on its way and takes nothing. *)
LEMMA StillPack ==
  ASSUME PackInv, UNCHANGED <<transfer, todo, wire, stamped, got>>
  PROVE  WireSound' /\ \A g \in Node : HostSound(g)'
<1>1. Destinations' = Destinations /\ Turns' = Turns
  BY DEF Destinations, Turns
<1>2. WireSound'
  BY <1>1 DEF PackInv, WireSound, EachSound, InHostOrder, WireLinked, FirstLinked
<1>3. ASSUME NEW g \in Node PROVE HostSound(g)'
  <2>1. HostSound(g)
    BY DEF PackInv
  <2>2. (Done(g)' <=> Done(g)) /\ (Waits(g)' <=> Waits(g)) /\ (NoneFor(g)' <=> NoneFor(g))
    BY <1>1 DEF Done, Waits, NoneFor
  <2>3. GotSound(g)' /\ (DoneSound(g)' <=> DoneSound(g)) /\ (Untouched(g)' <=> Untouched(g))
    BY <1>1, <2>1, <2>2 DEF HostSound, GotSound, DoneSound, Untouched
  <2> QED BY <2>1, <2>2, <2>3 DEF HostSound
<1> QED BY <1>2, <1>3

LEMMA SkipPack ==
  ASSUME PackInv, SkipInterval
  PROVE  PackInv'
<1> DEFINE c == transfer.counts
<1>1. /\ todo # << >> /\ at <= Len(c) /\ c[at] = 0 /\ at' = at + 1
      /\ UNCHANGED <<transfer, todo, left, msg, firstMsgSent, wire, stamped, got>>
  BY DEF SkipInterval, Packing, Count
<1>2. Cursor(c, at, left)
  BY DEF PackInv, PackShape
<1>3. /\ Cursor(c, at + 1, left)
      /\ \A s : Chain(c, s) /\ CursorAfter(c, at, left, s) => CursorAfter(c, at + 1, left, s)
  BY <1>1, <1>2, Skipped
<1>4. PackShape'
  BY <1>1, <1>3 DEF PackInv, PackShape, Turns
<1>5. WireSound' /\ \A g \in Node : HostSound(g)'
  BY <1>1, StillPack
<1>6. TurnSound'
  <2>1. PICK h \in Node : h = Head(todo)
    BY <1>1, TurnFacts DEF PackInv
  <2>2. TurnSound /\ Chain(c, msg.packets)
    BY <1>1 DEF PackInv, TurnSound, MsgSound
  <2>3. ASSUME NEW s, Chain(c, s), Resumes(c, at, left, s, msg.packets)
        PROVE  Resumes(c, at + 1, left, s, msg.packets)
    BY <1>3, <2>2, <2>3 DEF Resumes
  <2>4. ASSUME ~msg.stamp, wire # << >>
        PROVE  Resumes(c, at + 1, left, wire[Len(wire)].packets, msg.packets)
    <3>1. wire \in Seq(Message) /\ Len(wire) \in 1 .. Len(wire)
      BY <2>4 DEF PackInv, PackShape
    <3>2. Chain(c, wire[Len(wire)].packets)
      BY <3>1 DEF PackInv, WireSound, EachSound, MsgSound
    <3>3. Resumes(c, at, left, wire[Len(wire)].packets, msg.packets)
      BY <2>2, <2>4 DEF TurnSound
    <3> HIDE DEF c
    <3> QED BY <2>3, <3>2, <3>3
  <2>5. ASSUME ~msg.stamp, wire = << >>
        PROVE  Resumes(c, at + 1, left, got[h], msg.packets)
    <3>1. Chain(c, got[h])
      BY DEF PackInv, HostSound, GotSound
    <3>2. Resumes(c, at, left, got[h], msg.packets)
      BY <2>1, <2>2, <2>5 DEF TurnSound
    <3> HIDE DEF c
    <3> QED BY <2>3, <3>1, <3>2
  <2>6. msg.stamp => CursorAfter(c, at + 1, left, msg.packets)
    BY <1>3, <2>2 DEF TurnSound
  <2> QED BY <1>1, <2>1, <2>2, <2>4, <2>5, <2>6 DEF TurnSound, Untouched, NoneFor
<1> QED BY <1>4, <1>5, <1>6 DEF PackInv

(* The message with the next packet in it, and the cursor behind that. *)
LEMMA Filling ==
  ASSUME PackInv, AddPacket, NEW h \in Node, h = Head(todo), NEW n, NEW q,
         n = (IF Count - left < MAX_WN_NUM THEN Count - left ELSE MAX_WN_NUM),
         q = [interval |-> at, first |-> left, count |-> n]
  PROVE  /\ todo # << >> /\ q \in Packet
         /\ Append(msg.packets, q) \in Seq(Packet)
         /\ Append(msg.packets, q) # << >>
         /\ Chain(transfer.counts, Append(msg.packets, q))
         /\ msg.stamp => Starts(transfer.counts, Append(msg.packets, q)[1])
         /\ \A prev : Chain(transfer.counts, prev)
                      /\ Resumes(transfer.counts, at, left, prev, msg.packets)
                        => Continues(transfer.counts, prev, Append(msg.packets, q))
         /\ Cursor(transfer.counts, at', left')
         /\ CursorAfter(transfer.counts, at', left', Append(msg.packets, q))
         /\ transfer.kind = "exit" => left' = 0
<1> DEFINE c == transfer.counts
           s == msg.packets
<1>1. /\ todo # << >> /\ at <= Len(c) /\ c[at] > 0 /\ Advance(left + n) /\ Count = c[at]
  BY DEF AddPacket, Packing, Count
<1>2. Cursor(c, at, left)
  BY DEF PackInv, PackShape
<1>3. /\ MAX_WN_NUM \in Nat /\ MAX_WN_NUM > 0
  BY SizesAssumption
<1>4. c[at] \in Nat /\ left \in Nat /\ left < c[at]
  BY <1>1, <1>2 DEF Cursor
<1>5. n \in Nat /\ n > 0 /\ n <= c[at] - left /\ (c[at] - left <= MAX_WN_NUM => left + n = c[at])
  BY SMTT(30), <1>1, <1>3, <1>4
<1>6. TurnSound /\ Chain(c, s) /\ s \in Seq(Packet)
  BY <1>1 DEF PackInv, TurnSound, MsgSound, Chain
<1> HIDE DEF c, s
<1>7. /\ Append(s, q) # << >> /\ Append(s, q)[Len(Append(s, q))] = q
      /\ CursorAfter(c, at, left, s) /\ (s # << >> => Starts(c, s[1]))
           => Chain(c, Append(s, q)) /\ Starts(c, Append(s, q)[1])
      /\ \A prev : Chain(c, prev) /\ Resumes(c, at, left, prev, s)
           => Chain(c, Append(s, q)) /\ Continues(c, prev, Append(s, q))
  BY <1>1, <1>2, <1>5, <1>6, Extended
<1>8. Chain(c, Append(s, q)) /\ (msg.stamp => Starts(c, Append(s, q)[1]))
  <2>1. CASE msg.stamp
    <3>1. CursorAfter(c, at, left, s) /\ (s # << >> => Starts(c, s[1]))
      BY <1>6, <2>1 DEF TurnSound, MsgSound, c, s
    <3> QED BY <1>7, <3>1
  <2>2. CASE ~msg.stamp
    <3>1. PICK prev : Chain(c, prev) /\ Resumes(c, at, left, prev, s)
      BY <1>1, <2>2, Before DEF c, s
    <3> QED BY <1>7, <2>2, <3>1
  <2> QED BY <2>1, <2>2
<1>9. q \in Packet
  BY <1>2, <1>4, <1>5 DEF Packet, Cursor
<1>10. Append(s, q) \in Seq(Packet)
  BY <1>8 DEF Chain
<1>11. Cursor(c, at', left') /\ AfterPacket(c, at', left', q)
  <2>1. /\ left + n < c[at] => at' = at /\ left' = left + n
        /\ ~(left + n < c[at]) => at' = at + 1 /\ left' = 0
    BY <1>1 DEF Advance
  <2>2. CASE left + n < c[at]
    <3>1. Cursor(c, at, left + n)
      BY <1>1, <1>2, <1>4, <1>5, <2>2 DEF Cursor
    <3>2. AfterPacket(c, at, left + n, q)
      BY <1>4, <1>5 DEF AfterPacket
    <3> QED BY <2>1, <2>2, <3>1, <3>2
  <2>3. CASE ~(left + n < c[at])
    <3>1. Cursor(c, at + 1, 0)
      BY <1>1, <1>2 DEF Cursor
    <3>2. AfterPacket(c, at + 1, 0, q)
      <4>1. at \in Int /\ q.interval = at /\ q.first = left /\ q.count = n /\ left + n = c[at]
        BY SMTT(30), <1>2, <1>4, <1>5, <2>3 DEF Cursor
      <4> QED BY <4>1 DEF AfterPacket, Bare
    <3> QED BY <2>1, <2>3, <3>1, <3>2
  <2> QED BY <2>2, <2>3
<1>12. CursorAfter(c, at', left', Append(s, q))
  BY <1>7, <1>11 DEF CursorAfter
<1>13. ASSUME transfer.kind = "exit" PROVE left' = 0
  <2>1. c[at] <= MAX_WN_NUM
    BY <1>1, <1>2, <1>13 DEF PackInv, PackShape, Cursor, c
  <2>2. left + n = c[at]
    BY <1>3, <1>4, <1>5, <2>1
  <2> QED BY <1>1, <1>4, <2>2 DEF Advance
<1> QED BY <1>1, <1>7, <1>8, <1>9, <1>10, <1>11, <1>12, <1>13 DEF c, s

LEMMA AddPack ==
  ASSUME PackInv, AddPacket
  PROVE  PackInv'
<1> DEFINE c == transfer.counts
<1>0. todo # << >>
  BY DEF AddPacket, Packing
<1>1. PICK h \in Node : h = Head(todo)
  BY <1>0, TurnFacts DEF PackInv
<1>2. PICK n : n = (IF Count - left < MAX_WN_NUM THEN Count - left ELSE MAX_WN_NUM)
  OBVIOUS
<1>3. PICK q : q = [interval |-> at, first |-> left, count |-> n]
  OBVIOUS
<1> DEFINE F == Append(msg.packets, q)
           filled == [msg EXCEPT !.packets = F]
<1>4. /\ F \in Seq(Packet) /\ F # << >> /\ Chain(c, F)
      /\ msg.stamp => Starts(c, F[1])
      /\ \A prev : Chain(c, prev) /\ Resumes(c, at, left, prev, msg.packets) => Continues(c, prev, F)
      /\ Cursor(c, at', left') /\ CursorAfter(c, at', left', F)
      /\ transfer.kind = "exit" => left' = 0
  BY <1>1, <1>2, <1>3, Filling
<1>5. /\ msg \in Message /\ TurnSound
  BY <1>0 DEF PackInv, PackShape
<1>6. /\ filled \in Message /\ filled.to = h /\ filled.stamp = msg.stamp /\ filled.packets = F
  BY <1>1, <1>4, <1>5 DEF Message, TurnSound
<1>7. /\ UNCHANGED <<transfer, todo, stamped, got>>
      /\ \/ /\ wire' = Append(wire, filled) /\ firstMsgSent' = TRUE
            /\ msg' = NextMsg(Head(todo), left > 0) /\ transfer.kind # "wni"
         \/ msg' = filled /\ wire' = wire /\ firstMsgSent' = firstMsgSent
  BY <1>2, <1>3 DEF AddPacket
<1> HIDE DEF F, filled
<1>8. MsgSound(c, filled)
  BY <1>4, <1>6 DEF MsgSound
<1>9. ASSUME ~msg.stamp
      PROVE  /\ wire # << >> => Continues(c, wire[Len(wire)].packets, F)
             /\ wire = << >> => Continues(c, got[h], F)
  <2>1. PICK prev : /\ Chain(c, prev) /\ Resumes(c, at, left, prev, msg.packets)
                    /\ wire # << >> => prev = wire[Len(wire)].packets
                    /\ wire = << >> => prev = got[h]
    BY <1>0, <1>1, <1>9, Before
  <2>2. Continues(c, prev, F)
    BY <1>4, <2>1
  <2> QED BY <2>1, <2>2
<1>10. CASE msg' = filled /\ wire' = wire /\ firstMsgSent' = firstMsgSent
  <2>1. PackShape'
    BY <1>4, <1>6, <1>7, <1>10 DEF PackInv, PackShape, Turns
  <2>2. WireSound' /\ \A g \in Node : HostSound(g)'
    BY <1>7, <1>10, StillPack
  <2>3. ASSUME ~msg.stamp
        PROVE  /\ wire # << >> => Resumes(c, at', left', wire[Len(wire)].packets, F)
               /\ wire = << >> => Resumes(c, at', left', got[h], F)
    BY <1>4, <1>9, <2>3 DEF Resumes, Continues
  <2>4. TurnSound'
    BY <1>1, <1>4, <1>5, <1>6, <1>7, <1>8, <1>10, <2>3 DEF TurnSound, Untouched, NoneFor
  <2> QED BY <2>1, <2>2, <2>4 DEF PackInv
<1>11. CASE /\ wire' = Append(wire, filled) /\ firstMsgSent' = TRUE
            /\ msg' = NextMsg(Head(todo), left > 0) /\ transfer.kind # "wni"
  <2>1. /\ wire' \in Seq(Message) /\ wire' # << >> /\ wire'[Len(wire')] = filled
        /\ WireSound'
        /\ \A g \in Node : g < h /\ DoneSound(g) => DoneSound(g)'
        /\ \A g \in Node : g > h /\ Untouched(g) => Untouched(g)'
        /\ \A i \in 1 .. Len(wire') : wire'[i].to <= h
    BY <1>0, <1>1, <1>4, <1>6, <1>7, <1>8, <1>9, <1>11, Dispatched
  <2>2. msg' = [to |-> h, stamp |-> FALSE, packets |-> << >>]
    <3>1. CASE left > 0
      <4>1. transfer.kind = "enter"
        <5>1. /\ transfer \in Transfer /\ (transfer.kind = "exit" => left = 0)
              /\ (transfer.kind = "none" => transfer.to = << >>) /\ transfer.to \in Seq(Node)
          BY DEF PackInv, PackShape, Transfer
        <5>2. transfer.kind # "none"
          BY <1>0, <5>1, TurnFacts DEF PackInv
        <5> QED BY <1>11, <3>1, <5>1, <5>2 DEF Transfer
      <4>2. h \in Destinations /\ transfer.to = <<0>>
        BY <1>0, <1>1, <4>1, TurnFacts DEF PackInv, PackShape
      <4>3. h = 0
        BY <4>2 DEF Destinations
      <4> QED BY <1>11, <3>1, <4>3 DEF NextMsg
    <3>2. CASE ~(left > 0)
      BY <1>1, <1>11, <3>2 DEF NextMsg
    <3> QED BY <3>1, <3>2
  <2>3. msg' \in Message
    BY <2>2, EmptySeq DEF Message
  <2>4. transfer # Nothing
    BY DEF AddPacket, Packing
  <2>5. PackShape'
    BY <1>4, <1>7, <1>11, <2>1, <2>3, <2>4 DEF PackInv, PackShape, Turns
  <2>6. \A g \in Node : HostSound(g)'
    <3> SUFFICES ASSUME NEW g \in Node PROVE HostSound(g)'
      OBVIOUS
    <3>1. /\ HostSound(g) /\ (Done(g) => g < h) /\ (Waits(g) => g > h)
      BY <1>0, <1>1, TurnFacts DEF PackInv
    <3>2. Done(g)' <=> Done(g)
      BY <1>7 DEF Done, Turns
    <3>3. Waits(g)' <=> Waits(g)
      BY <1>7 DEF Waits, Turns
    <3>4. GotSound(g)'
      BY <1>7, <3>1 DEF HostSound, GotSound, Destinations
    <3> QED BY <2>1, <3>1, <3>2, <3>3, <3>4 DEF HostSound
  <2>7. MsgSound(c, msg')
    BY <2>2, NoPackets DEF MsgSound
  <2>8. Resumes(c, at', left', F, << >>)
    BY <1>4 DEF Resumes
  <2>9. TurnSound'
    BY <1>1, <1>6, <1>7, <1>11, <2>1, <2>2, <2>7, <2>8 DEF TurnSound
  <2> QED BY <2>1, <2>5, <2>6, <2>9 DEF PackInv
<1> QED BY <1>7, <1>10, <1>11

LEMMA SendLastPack ==
  ASSUME PackInv, SendLast
  PROVE  PackInv'
<1> DEFINE c == transfer.counts
<1>0. /\ todo # << >> /\ transfer # Nothing /\ at > Len(c) /\ todo' = Tail(todo)
      /\ wire' = (IF Unsent THEN Append(wire, msg) ELSE wire)
      /\ msg' = (IF todo' = << >> THEN msg ELSE FirstMsg(todo[2]))
      /\ at' = 1 /\ left' = 0 /\ firstMsgSent' = FALSE
      /\ UNCHANGED <<transfer, stamped, got>>
  BY DEF SendLast, Packing
<1>1. PICK h \in Node : h = Head(todo)
  BY <1>0, TurnFacts DEF PackInv
<1>2. /\ msg \in Message /\ wire \in Seq(Message) /\ TurnSound /\ WireSound /\ Cursor(c, at, left)
      /\ Chain(c, msg.packets) /\ c \in Seq(Nat)
  BY <1>0 DEF PackInv, PackShape, TurnSound, MsgSound, Transfer
<1>3. /\ todo' \in Seq(Node) /\ Len(todo') = Len(todo) - 1 /\ Turns' = Turns + 1
      /\ \A i \in 1 .. Len(todo') : todo'[i] = transfer.to[Turns' + i]
      /\ \A g \in Node : Done(g)' => Done(g) \/ g = h
      /\ \A g \in Node : Waits(g)' => Waits(g) /\ (todo' # << >> => g > Head(todo'))
      /\ todo' # << >> => /\ Head(todo') = todo[2] /\ Head(todo') \in Node
                          /\ Waits(Head(todo'))
  BY <1>0, <1>1, NextTurn DEF PackInv
<1>4. \A s : Chain(c, s) /\ CursorAfter(c, at, left, s) => Whole(c, s)
  BY <1>0, <1>2, AllPacked
<1>5. \A g \in Node : (Done(g) => g < h) /\ (Waits(g) => g > h)
  BY <1>0, <1>1, TurnFacts DEF PackInv
(* What was or is now put on its way. *)
<1>6. /\ wire' \in Seq(Message) /\ WireSound'
      /\ \A g \in Node : g < h /\ DoneSound(g) => DoneSound(g)'
      /\ \A g \in Node : g > h /\ Untouched(g) => Untouched(g)'
      /\ \A i \in 1 .. Len(wire') : wire'[i].to <= h
      /\ IF wire' # << >>
         THEN wire'[Len(wire')].to = h /\ Whole(c, wire'[Len(wire')].packets)
         ELSE stamped[h] = 1 /\ Whole(c, got[h])
  <2>1. CASE Unsent
    <3>1. wire' = Append(wire, msg)
      BY <1>0, <2>1
    <3>2. /\ MsgSound(c, msg) /\ msg.to = h /\ (msg.packets = << >> => msg.stamp)
      BY <1>1, <1>2, <2>1 DEF TurnSound, Unsent
    <3>3. ASSUME ~msg.stamp
          PROVE  /\ wire # << >> => Continues(c, wire[Len(wire)].packets, msg.packets)
                 /\ wire = << >> => Continues(c, got[h], msg.packets)
      BY <1>1, <1>2, <3>2, <3>3 DEF TurnSound, Resumes
    <3>4. /\ wire' \in Seq(Message) /\ wire' # << >> /\ wire'[Len(wire')] = msg
          /\ WireSound'
          /\ \A g \in Node : g < h /\ DoneSound(g) => DoneSound(g)'
          /\ \A g \in Node : g > h /\ Untouched(g) => Untouched(g)'
          /\ \A i \in 1 .. Len(wire') : wire'[i].to <= h
      BY <1>0, <1>1, <1>2, <3>1, <3>2, <3>3, Dispatched
    <3>5. CursorAfter(c, at, left, msg.packets)
      <4>1. CASE msg.stamp
        BY <1>2, <4>1 DEF TurnSound
      <4>2. CASE ~msg.stamp
        BY <1>2, <3>2, <4>2 DEF TurnSound, Resumes
      <4> QED BY <4>1, <4>2
    <3>6. Whole(c, msg.packets)
      BY <1>2, <1>4, <3>5
    <3> QED BY <3>2, <3>4, <3>6
  <2>2. CASE ~Unsent
    <3>1. wire' = wire /\ msg.packets = << >> /\ ~msg.stamp
      BY <1>0, <1>2, <2>2 DEF Unsent, TurnSound
    <3>2. PICK prev : /\ Chain(c, prev) /\ Resumes(c, at, left, prev, msg.packets)
                      /\ wire # << >> => prev = wire[Len(wire)].packets
                      /\ wire = << >> => prev = got[h]
      BY <1>0, <1>1, <3>1, Before
    <3>3. Whole(c, prev)
      BY <1>4, <3>1, <3>2 DEF Resumes
    <3>4. Destinations' = Destinations
      BY <1>0 DEF Destinations
    <3>5. WireSound'
      BY <1>0, <1>2, <3>1, <3>4 DEF WireSound, EachSound, InHostOrder, WireLinked, FirstLinked
    <3>6. \A g \in Node : /\ DoneSound(g) => DoneSound(g)'
                          /\ Untouched(g) => Untouched(g)'
      BY <1>0, <3>1 DEF DoneSound, Untouched, NoneFor
    <3>7. \A i \in 1 .. Len(wire') : wire'[i].to <= h
      BY <1>1, <1>2, <3>1 DEF TurnSound
    <3>8. /\ wire # << >> => wire[Len(wire)].to = h
          /\ wire = << >> => stamped[h] = 1
      BY <1>1, <1>2, <3>1 DEF TurnSound
    <3> QED BY <1>2, <3>1, <3>2, <3>3, <3>5, <3>6, <3>7, <3>8
  <2> QED BY <2>1, <2>2
<1>7. DoneSound(h)'
  <2>1. ASSUME NEW i \in 1 .. Len(wire'), wire'[i].to = h, i < Len(wire') => wire'[i + 1].to # h
        PROVE  Whole(c, wire'[i].packets)
    <3>1. Len(wire') \in Nat /\ i \in Int /\ wire' # << >>
      BY <1>6
    <3>2. i = Len(wire')
      <4> SUFFICES ASSUME i < Len(wire') PROVE FALSE
        BY <3>1
      <4>1. i + 1 \in 1 .. Len(wire') /\ i < i + 1
        BY <3>1
      <4>2. wire'[i].to <= wire'[i + 1].to
        BY <1>6, <4>1 DEF WireSound, InHostOrder
      <4>3. wire'[i + 1].to <= h /\ wire'[i + 1] \in Message
        BY <1>6, <4>1
      <4>4. wire'[i + 1].to \in Int /\ h \in Int
        BY <4>3 DEF Message, Node
      <4> QED BY <2>1, <4>2, <4>3, <4>4
    <3> QED BY <1>6, <3>1, <3>2
  <2>2. ASSUME NoneFor(h)' PROVE stamped[h] = 1 /\ Whole(c, got[h])
    <3>1. wire' = << >>
      BY <1>6, <2>2 DEF NoneFor
    <3> QED BY <1>6, <3>1
  <2> QED BY <1>0, <2>1, <2>2 DEF DoneSound
<1>8. \A g \in Node : HostSound(g)'
  <2> SUFFICES ASSUME NEW g \in Node PROVE HostSound(g)'
    OBVIOUS
  <2>1. HostSound(g)
    BY DEF PackInv
  <2>2. GotSound(g)'
    BY <1>0, <2>1 DEF HostSound, GotSound, Destinations
  <2>3. ASSUME Done(g)' PROVE DoneSound(g)'
    <3>1. CASE g = h
      BY <1>7, <3>1
    <3>2. CASE g # h
      BY <1>3, <1>5, <1>6, <2>1, <2>3, <3>2 DEF HostSound
    <3> QED BY <3>1, <3>2
  <2>4. ASSUME Waits(g)' PROVE Untouched(g)'
    BY <1>3, <1>5, <1>6, <2>1, <2>4 DEF HostSound
  <2> QED BY <2>2, <2>3, <2>4 DEF HostSound
<1>9. Cursor(c, 1, 0) /\ CursorAfter(c, 1, 0, << >>)
  BY <1>2 DEF Cursor, CursorAfter, Bare
<1>10. ASSUME todo' # << >> PROVE TurnSound' /\ msg' \in Message
  <2>1. PICK g \in Node : g = Head(todo')
    BY <1>3, <1>10
  <2>2. msg' = [to |-> g, stamp |-> TRUE, packets |-> << >>]
    BY <1>0, <1>3, <1>10, <2>1 DEF FirstMsg
  <2>3. Waits(g) /\ g > h
    BY <1>3, <1>5, <1>10, <2>1
  <2>4. Untouched(g)'
    BY <1>6, <2>3 DEF PackInv, HostSound
  <2>5. MsgSound(c, msg')
    BY <2>2, NoPackets DEF MsgSound
  <2>6. \A i \in 1 .. Len(wire') : wire'[i].to <= g
    <3> SUFFICES ASSUME NEW i \in 1 .. Len(wire') PROVE wire'[i].to <= g
      OBVIOUS
    <3>1. wire'[i] \in Message /\ wire'[i].to <= h
      BY <1>6
    <3>2. wire'[i].to \in Int /\ h \in Int /\ g \in Int
      BY <3>1 DEF Message, Node
    <3> QED BY <2>3, <3>1, <3>2
  <2>7. /\ \A i \in 1 .. Len(wire') : wire'[i].to # g
        /\ got'[g] = << >> /\ stamped'[g] = 0
    BY <2>4 DEF Untouched, NoneFor
  <2>8. TurnSound'
    <3>0. firstMsgSent' = FALSE /\ transfer'.counts = c
      BY <1>0
    <3>1. msg'.to = g /\ msg'.stamp = TRUE /\ msg'.packets = << >>
      BY <2>2
    <3>2. CursorAfter(transfer'.counts, at', left', msg'.packets)
      BY <1>0, <1>9, <3>0, <3>1
    <3>3. Untouched(Head(todo))'
      BY <2>1, <2>7 DEF Untouched, NoneFor
    <3>4. MsgSound(transfer'.counts, msg')
      BY <2>5, <3>0
    <3> QED BY <2>1, <2>6, <3>0, <3>1, <3>2, <3>3, <3>4 DEF TurnSound
  <2> QED BY <2>2, <2>8, EmptySeq DEF Message
<1>11. PackShape'
  <2>1. msg' \in Message
    BY <1>0, <1>2, <1>10
  <2>2. Len(todo') <= Len(transfer.to)
    <3>1. /\ Len(todo) \in Nat /\ transfer.to \in Seq(Node) /\ Len(todo) <= Len(transfer.to)
      BY DEF PackInv, PackShape, Transfer
    <3> QED BY <1>3, <3>1
  <2> QED BY <1>0, <1>3, <1>6, <1>9, <2>1, <2>2 DEF PackInv, PackShape
<1> QED BY <1>6, <1>8, <1>10, <1>11 DEF PackInv

(* The hosts of a transfer, each after the one before it. *)
LEMMA ReceiversFacts ==
  ASSUME StartInv, NEW n \in Node, stage[n] = "up", NEW k \in {"enter", "exit", "wni"},
         NEW to \in Receivers(n, k)
  PROVE  /\ to \in Seq(Node) /\ Len(to) \in Nat /\ Len(to) > 0 /\ Head(to) = to[1] /\ Head(to) \in Node
         /\ \A i, j \in 1 .. Len(to) : i < j => to[i] < to[j]
         /\ k = "enter" => to = <<0>>
<1>1. Shape /\ Knows(n) /\ hostnum(n) = Len(file) /\ myhostid[n] = n
  BY DEF StartInv, Knows, hostnum
<1>2. /\ hostnum(n) \in Nat /\ hostnum(n) >= 1 /\ hostnum(n) =< MAX_HOST_NUM
      /\ 0 \in Node /\ Node \subseteq Nat /\ \A i \in Nat : i < hostnum(n) => i \in Node
  BY <1>1, FileFacts
<1>3. CASE k = "enter"
  <2>1. to = <<0>>
    BY <1>3 DEF Receivers
  <2> QED BY <1>2, <2>1
<1>4. CASE k = "exit"
  <2>1. hostnum(n) > 1 /\ to = [i \in 1 .. hostnum(n) - 1 |-> i]
    BY <1>4 DEF Receivers
  <2>2. \A i \in 1 .. hostnum(n) - 1 : i \in Node
    BY <1>2
  <2>3. to \in Seq(Node) /\ Len(to) = hostnum(n) - 1
    BY <1>2, <2>1, <2>2
  <2> QED BY <1>2, <1>4, <2>1, <2>3
<1>5. CASE k = "wni"
  <2>1. PICK h \in (0 .. hostnum(n) - 1) \ {myhostid[n]} : to = <<h>>
    BY <1>5 DEF Receivers
  <2>2. h \in Node
    BY <1>2
  <2> QED BY <1>5, <2>1, <2>2
<1> QED BY <1>3, <1>4, <1>5

LEMMA BeginPack ==
  ASSUME ShortExits, StartInv, PackInv, NEW n \in Node, stage[n] = "up", Begin(n)
  PROVE  PackInv'
<1>1. PICK t \in Transfers : \E to \in Receivers(n, t.kind) :
         /\ transfer' = [kind |-> t.kind, counts |-> t.counts, to |-> to]
         /\ todo' = to /\ msg' = FirstMsg(Head(to))
  BY DEF Begin
<1>2. PICK to \in Receivers(n, t.kind) :
         /\ transfer' = [kind |-> t.kind, counts |-> t.counts, to |-> to]
         /\ todo' = to /\ msg' = FirstMsg(Head(to))
  BY <1>1
<1>3. PICK k : k = t.kind
  OBVIOUS
<1>4. PICK c : c = t.counts
  OBVIOUS
<1>5. k \in {"enter", "exit", "wni"} /\ c \in Seq(Nat)
  BY <1>3, <1>4, TransfersAssumption
<1>6. /\ to \in Seq(Node) /\ Len(to) \in Nat /\ Len(to) > 0 /\ Head(to) = to[1] /\ Head(to) \in Node
      /\ \A i, j \in 1 .. Len(to) : i < j => to[i] < to[j]
      /\ k = "enter" => to = <<0>>
  BY <1>2, <1>3, <1>5, ReceiversFacts
<1>7. /\ transfer'.kind = k /\ transfer'.counts = c /\ transfer'.to = to /\ todo' = to
      /\ transfer' \in Transfer /\ transfer' # Nothing
  BY <1>2, <1>3, <1>4, <1>5, <1>6 DEF Transfer, Nothing
<1>8. /\ at' = 1 /\ left' = 0 /\ firstMsgSent' = FALSE /\ wire' = wire
      /\ stamped' = stamped /\ got' = got
  BY DEF Begin
<1>9. /\ msg'.to = Head(to) /\ msg'.stamp = TRUE /\ msg'.packets = << >> /\ msg' \in Message
  BY <1>2, <1>6, EmptySeq DEF FirstMsg, Message
(* Nothing has been sent before. *)
<1>10. /\ transfer = Nothing /\ wire = << >> /\ PackShape
       /\ stamped \in [Node -> {0, 1}] /\ got \in [Node -> Seq(Packet)]
  BY DEF Begin, PackInv, PackShape
<1>11. ASSUME NEW g \in Node PROVE Untouched(g)' /\ GotSound(g)'
  <2>1. GotSound(g)
    BY DEF PackInv, HostSound
  <2>2. g \notin Destinations
    BY <1>10 DEF Destinations, Nothing
  <2>3. got[g] = << >> /\ stamped[g] = 0
    BY <1>10, <2>1, <2>2 DEF GotSound
  <2>4. wire' = << >> /\ got'[g] = << >> /\ stamped'[g] = 0
    BY <1>8, <1>10, <2>3
  <2>5. Chain(transfer'.counts, got'[g])
    BY <2>4, NoPackets
  <2> QED BY <2>4, <2>5 DEF Untouched, NoneFor, GotSound
<1>12. Turns' = 0
  BY <1>6, <1>7 DEF Turns
<1>13. Cursor(c, 1, 0) /\ CursorAfter(c, 1, 0, << >>)
  <2>1. Len(c) \in Nat
    BY <1>5
  <2> QED BY <1>5, <2>1 DEF Cursor, CursorAfter, Bare
<1>14. PackShape'
  <2>1. k = "exit" => \A i \in 1 .. Len(c) : c[i] <= MAX_WN_NUM
    BY <1>3, <1>4 DEF ShortExits
  <2>2. \A i \in 1 .. Len(todo') : todo'[i] = transfer'.to[Turns' + i]
    BY <1>6, <1>7, <1>12
  <2>3. Cursor(transfer'.counts, at', left')
    BY <1>7, <1>8, <1>13
  <2>4. wire' = << >> /\ wire' \in Seq(Message)
    BY <1>8, <1>10, EmptySeq
  <2>5. transfer'.kind = "enter" => transfer'.to = <<0>>
    BY <1>6, <1>7
  <2>6. transfer'.kind # "none"
    BY <1>5, <1>7
  <2>7. transfer'.kind = "exit" => left' = 0 /\ \A i \in 1 .. Len(transfer'.counts) :
                                                  transfer'.counts[i] <= MAX_WN_NUM
    BY <1>7, <1>8, <2>1
  <2>8. todo' \in Seq(Node) /\ Len(todo') <= Len(transfer'.to)
    BY <1>6, <1>7
  <2>9. \A i, j \in 1 .. Len(transfer'.to) : i < j => transfer'.to[i] < transfer'.to[j]
    BY <1>6, <1>7
  <2>10. /\ firstMsgSent' \in BOOLEAN /\ stamped' \in [Node -> {0, 1}] /\ got' \in [Node -> Seq(Packet)]
    BY <1>8, <1>10
  <2> QED BY <1>7, <1>9, <2>2, <2>3, <2>4, <2>5, <2>6, <2>7, <2>8, <2>9, <2>10 DEF PackShape
<1>15. wire' = << >> /\ Len(wire') = 0
  BY <1>8, <1>10
<1>16. WireSound'
  BY <1>15 DEF WireSound, EachSound, InHostOrder, WireLinked, FirstLinked
<1>17. ASSUME NEW g \in Node PROVE HostSound(g)'
  <2>1. ~Done(g)'
    BY <1>12 DEF Done
  <2> QED BY <1>11, <2>1 DEF HostSound
<1>18. TurnSound'
  <2>1. MsgSound(transfer'.counts, msg')
    BY <1>9, NoPackets DEF MsgSound
  <2>2. CursorAfter(transfer'.counts, at', left', msg'.packets)
    BY <1>7, <1>8, <1>9, <1>13
  <2>3. Untouched(Head(todo))'
    <3>1. PICK h \in Node : h = Head(todo')
      BY <1>6, <1>7
    <3>2. Untouched(h)'
      BY <1>11
    <3> QED BY <3>1, <3>2 DEF Untouched, NoneFor
  <2>4. msg'.to = Head(todo')
    BY <1>7, <1>9
  <2> QED BY <1>8, <1>9, <1>15, <2>1, <2>2, <2>3, <2>4 DEF TurnSound
<1> QED BY <1>14, <1>16, <1>17, <1>18 DEF PackInv

LEMMA InitPack == ASSUME PackInit PROVE PackInv
<1>1. /\ transfer = [kind |-> "none", counts |-> << >>, to |-> << >>]
      /\ todo = << >> /\ wire = << >> /\ at = 1 /\ left = 0 /\ firstMsgSent = FALSE
      /\ Len(wire) = 0 /\ Len(todo) = 0
  BY DEF PackInit, Nothing
<1>2. /\ transfer.kind = "none" /\ transfer.counts = << >> /\ transfer.to = << >>
      /\ transfer \in Transfer /\ Len(transfer.counts) = 0 /\ Len(transfer.to) = 0
  BY <1>1, EmptySeq DEF Transfer
<1>3. Cursor(transfer.counts, at, left)
  BY <1>1, <1>2, EmptySeq DEF Cursor
<1>4. 0 \in Node
  BY HostsAssumption DEF Node
<1>5. msg \in Message
  BY <1>4, EmptySeq DEF PackInit, FirstMsg, Message
<1>6. /\ stamped = [h \in Node |-> 0] /\ got = [h \in Node |-> << >>]
      /\ stamped \in [Node -> {0, 1}] /\ got \in [Node -> Seq(Packet)]
  BY EmptySeq DEF PackInit
<1>7. PackShape
  <2>1. todo \in Seq(Node) /\ wire \in Seq(Message)
    BY <1>1, EmptySeq
  <2>2. \A i \in 1 .. Len(todo) : todo[i] = transfer.to[Turns + i]
    BY <1>1
  <2>4. \A i, j \in 1 .. Len(transfer.to) : i < j => transfer.to[i] < transfer.to[j]
    BY <1>2
  <2>5. firstMsgSent \in BOOLEAN
    BY <1>1
  <2>6. Len(todo) <= Len(transfer.to)
    BY <1>1, <1>2
  <2>3. transfer.kind # "enter" /\ transfer.kind # "exit"
    BY <1>2
  <2> QED BY <1>1, <1>2, <1>3, <1>5, <1>6, <2>1, <2>2, <2>3, <2>4, <2>5, <2>6 DEF PackShape
<1>8. WireSound
  BY <1>1 DEF WireSound, EachSound, InHostOrder, WireLinked, FirstLinked
<1>9. ASSUME NEW g \in Node PROVE HostSound(g)
  <2>1. Turns = 0
    BY <1>1, <1>2 DEF Turns
  <2>2. got[g] = << >> /\ stamped[g] = 0
    BY <1>6
  <2>3. GotSound(g)
    BY <2>2, NoPackets DEF GotSound
  <2>4. ~Done(g) /\ Untouched(g)
    BY <1>1, <2>1, <2>2 DEF Done, Untouched, NoneFor
  <2> QED BY <2>3, <2>4 DEF HostSound
<1> QED BY <1>1, <1>7, <1>8, <1>9 DEF PackInv

(* Start-up and allocation do not touch a transfer. *)
LEMMA SamePack ==
  ASSUME PackInv, UNCHANGED packVars
  PROVE  PackInv'
<1>1. /\ transfer' = transfer /\ todo' = todo /\ at' = at /\ left' = left /\ msg' = msg
      /\ firstMsgSent' = firstMsgSent /\ wire' = wire /\ stamped' = stamped /\ got' = got
  BY DEF packVars
<1>2. WireSound' /\ \A g \in Node : HostSound(g)'
  BY <1>1, StillPack
<1>3. Turns' = Turns
  BY <1>1 DEF Turns
<1>4. PackShape'
  BY <1>1, <1>3 DEF PackInv, PackShape
<1>5. todo' # << >> => TurnSound'
  BY <1>1 DEF PackInv, TurnSound, Untouched, NoneFor
<1> QED BY <1>2, <1>4, <1>5 DEF PackInv

LEMMA PackStep ==
  ASSUME ShortExits, StartInv, PackInv, [SystemNext]_<<vars, packVars>>
  PROVE  StartInv' /\ PackInv'
<1>1. CASE Next /\ UNCHANGED packVars
  <2>1. StartInv'
    BY <1>1, StartStep
  <2>2. PackInv'
    BY <1>1, SamePack
  <2> QED BY <2>1, <2>2
<1>2. CASE PackNext /\ UNCHANGED vars
  <2>1. StartInv'
    BY <1>2, StartStep
  <2>2. PackInv'
    BY <1>2, BeginPack, SkipPack, AddPack, SendLastPack, TakePack DEF PackNext
  <2> QED BY <2>1, <2>2
<1>3. CASE UNCHANGED <<vars, packVars>>
  <2>1. StartInv'
    BY <1>3, StartStep
  <2>2. PackInv'
    BY <1>3, SamePack
  <2> QED BY <2>1, <2>2
<1> QED BY <1>1, <1>2, <1>3 DEF SystemNext

LEMMA PackInvariant == ShortExits /\ SystemSpec => [](StartInv /\ PackInv)
<1>1. SystemInit => StartInv /\ PackInv
  BY StartInit, InitPack DEF SystemInit
<1>2. ShortExits /\ (StartInv /\ PackInv) /\ [SystemNext]_<<vars, packVars>> => (StartInv /\ PackInv)'
  BY PackStep
<1>3. CASE ShortExits
  <2>1. (StartInv /\ PackInv) /\ [SystemNext]_<<vars, packVars>> => (StartInv /\ PackInv)'
    BY <1>2, <1>3
  <2> QED BY <1>1, <2>1, PTL DEF SystemSpec
<1>4. CASE ~ShortExits
  BY <1>4
<1> QED BY <1>3, <1>4

-----------------------------------------------------------------------------
(* What the invariant gives *)

(* A host whose transfer is over has everything. *)
LEMMA AllOver ==
  ASSUME PackInv, Over, NEW h \in Node, h \in Destinations
  PROVE  stamped[h] = 1 /\ Whole(transfer.counts, got[h])
<1>1. /\ todo = << >> /\ wire = << >> /\ Len(todo) = 0 /\ Len(wire) = 0
      /\ transfer.to \in Seq(Node)
  BY DEF Over, PackInv, PackShape, Transfer
<1>2. PICK i \in 1 .. Len(transfer.to) : transfer.to[i] = h
  BY <1>1 DEF Destinations
<1>3. Done(h) /\ NoneFor(h)
  BY <1>1, <1>2 DEF Done, Turns, NoneFor
<1> QED BY <1>3 DEF PackInv, HostSound, DoneSound

(* A host takes over the timestamp of a transfer once, before any of the    *)
(* notices, in however many messages a barrier's transfer is sent; with     *)
(* exits of at most MAX_WN_NUM notices in an interval, and grants that fit. *)
THEOREM Stamped == ShortExits /\ GrantsFit /\ SystemSpec => []StampedOnce
<1>1. PackInv => StampedOnce
  <2> SUFFICES ASSUME PackInv, NEW h \in Node
               PROVE  /\ stamped[h] <= 1
                      /\ got[h] # << >> => stamped[h] = 1
                      /\ (Over /\ h \in Destinations) => stamped[h] = 1
    BY DEF StampedOnce
  <2>1. stamped[h] \in {0, 1} /\ GotSound(h)
    BY DEF PackInv, PackShape, HostSound
  <2> QED BY <2>1, AllOver DEF GotSound
<1> QED BY <1>1, PackInvariant, PTL

(* The notices of a transfer arrive in the order they were packed in, none  *)
(* twice, none left out, cut into packets and messages as it may be; with   *)
(* exits of at most MAX_WN_NUM notices in an interval, and grants that fit. *)
THEOREM Arrive == ShortExits /\ GrantsFit /\ SystemSpec => []NoticesArrive
<1>1. PackInv => NoticesArrive
  <2> SUFFICES ASSUME PackInv, NEW h \in Node
               PROVE  /\ \A k \in 2 .. Len(got[h]) : Follows(transfer.counts, got[h][k - 1], got[h][k])
                      /\ got[h] # << >> => /\ h \in Destinations /\ got[h][1].first = 0
                                           /\ \A i \in 1 .. got[h][1].interval - 1 : transfer.counts[i] = 0
                      /\ (Over /\ h \in Destinations) =>
                           LET all == {i \in DOMAIN transfer.counts : transfer.counts[i] > 0}
                           IN /\ \A i \in all : \E k \in DOMAIN got[h] : got[h][k].interval = i
                              /\ all # {} => LET q == got[h][Len(got[h])]
                                             IN q.first + q.count = transfer.counts[q.interval]
    BY DEF NoticesArrive
  <2> DEFINE c == transfer.counts
             s == got[h]
  <2>1. GotSound(h) /\ Chain(c, s) /\ s \in Seq(Packet) /\ c \in Seq(Nat)
    BY DEF PackInv, PackShape, HostSound, GotSound, Transfer
  <2>2. \A k \in 2 .. Len(s) : Follows(c, s[k - 1], s[k])
    BY <2>1 DEF Chain
  <2>3. ASSUME s # << >>
        PROVE  h \in Destinations /\ s[1].first = 0 /\ \A i \in 1 .. s[1].interval - 1 : c[i] = 0
    BY <2>1, <2>3 DEF GotSound, Starts, Bare
  <2>4. ASSUME Over, h \in Destinations
        PROVE  /\ \A i \in DOMAIN c : c[i] > 0 => \E k \in DOMAIN s : s[k].interval = i
               /\ (\E i \in DOMAIN c : c[i] > 0) =>
                    s[Len(s)].first + s[Len(s)].count = c[s[Len(s)].interval]
    <3>1. Whole(c, s) /\ DOMAIN c = 1 .. Len(c) /\ DOMAIN s = 1 .. Len(s) /\ Len(c) \in Nat
      BY <2>1, <2>4, AllOver
    <3>2. CASE s = << >>
      BY <3>1, <3>2 DEF Whole, Bare
    <3>3. CASE s # << >>
      <4>1. Ends(c, s[Len(s)]) /\ Starts(c, s[1])
        BY <2>1, <3>1, <3>3 DEF Whole, GotSound
      <4>2. Len(s) \in Nat /\ s[1] \in Packet /\ s[Len(s)] \in Packet
        BY <2>1, <3>3
      <4>3. s[1].interval \in Nat /\ s[Len(s)].interval \in Nat
        BY <4>2 DEF Packet
      <4>4. ASSUME NEW i \in 1 .. Len(c), c[i] > 0
            PROVE  \E k \in 1 .. Len(s) : s[k].interval = i
        <5>1. i >= s[1].interval
          BY <4>1, <4>3, <4>4 DEF Starts, Bare
        <5>2. i <= s[Len(s)].interval
          BY <3>1, <4>1, <4>3, <4>4 DEF Ends, Bare
        <5>3. i \in s[1].interval .. s[Len(s)].interval
          BY <4>3, <4>4, <5>1, <5>2
        <5> QED BY <2>1, <3>3, <4>4, <5>3 DEF Chain
      <4> QED BY <3>1, <4>1, <4>4 DEF Ends
    <3> QED BY <3>2, <3>3
  <2> QED BY <2>2, <2>3, <2>4
<1> QED BY <1>1, PackInvariant, PTL

-----------------------------------------------------------------------------
(* The room in a message *)

Fits(packets) == DataSize(packets) <= Room

(* With the cursor at notice l of interval a, k packets are within the      *)
(* share: the message has had whole packets of the interval so far.         *)
Within(c, a, l, k) ==
  \E most \in Nat : /\ IntSize + most * PacketSize <= Room
                    /\ \E B \in [0 .. Len(c) -> Nat] :
                         /\ Shares(c, most, B)
                         /\ \E j \in Nat : l = j * MAX_WN_NUM /\ k <= B[a - 1] + j
                         /\ k <= most

(* Every message fits; the one that is filled has room for one more packet, *)
(* or keeps to its share.                                                   *)
RoomInv ==
  /\ \A i \in 1 .. Len(wire) : Fits(wire[i].packets)
  /\ Fits(msg.packets)
  /\ transfer.kind = "wni" => Within(transfer.counts, 1, 0, 0)
  /\ todo # << >> => IF transfer.kind = "wni"
                     THEN Within(transfer.counts, at, left, Len(msg.packets))
                     ELSE ~Full(msg.packets)

LEMMA SizeFacts ==
  PacketSize \in Nat /\ Room \in Int /\ IntSize \in Nat /\ IntSize + PacketSize <= Room
BY SizesAssumption, HostsAssumption DEF PacketSize, Room, IntSize, MSG_HEAD_SIZE

LEMMA Products ==
  ASSUME NEW k \in Nat, NEW m \in Nat, NEW p \in Nat
  PROVE  /\ (k + 1) * p = k * p + p /\ k * p \in Nat /\ 0 * p = 0
         /\ k <= m => k * p <= m * p
OBVIOUS

LEMMA NewMessageFits == Fits(<< >>) /\ ~Full(<< >>)
<1>1. Len(<< >>) * PacketSize = 0
  BY SizeFacts, Products
<1> HIDE DEF PacketSize, Room
<1> QED BY <1>1, SizeFacts DEF Fits, Full, DataSize, Room

LEMMA MoreFits ==
  ASSUME NEW p \in Seq(Packet), NEW q \in Packet, ~Full(p)
  PROVE  Fits(Append(p, q))
<1>1. Len(Append(p, q)) = Len(p) + 1 /\ Len(p) \in Nat
  OBVIOUS
<1>2. (Len(p) + 1) * PacketSize = Len(p) * PacketSize + PacketSize /\ Len(p) * PacketSize \in Nat
  BY <1>1, SizeFacts, Products
<1>3. PacketSize <= Room - (IntSize + Len(p) * PacketSize)
  BY <1>1, <1>2, SizeFacts DEF Full, DataSize, Room
<1> QED BY <1>1, <1>2, <1>3, SizeFacts DEF Fits, DataSize

LEMMA ShareFits ==
  ASSUME NEW p \in Seq(Packet), NEW c, NEW a, NEW l, Within(c, a, l, Len(p))
  PROVE  Fits(p)
<1>1. PICK most \in Nat : IntSize + most * PacketSize <= Room /\ Len(p) <= most
  BY DEF Within
<1>2. Len(p) \in Nat
  OBVIOUS
<1>3. Len(p) * PacketSize <= most * PacketSize /\ Len(p) * PacketSize \in Nat /\ most * PacketSize \in Nat
  BY <1>1, <1>2, SizeFacts, Products
<1> QED BY <1>1, <1>3, SizeFacts DEF Fits, DataSize

(* A full packet less than the share of the interval leaves room in it. *)
LEMMA ShareLeft ==
  ASSUME NEW j \in Nat, NEW d \in Int, NEW w \in Nat \ {0}, j * w < d * w
  PROVE  j + 1 <= d
OBVIOUS

LEMMA WithinSkipped ==
  ASSUME NEW c, NEW a, NEW l, NEW k \in Nat, Cursor(c, a, l), a <= Len(c), c[a] = 0, Within(c, a, l, k)
  PROVE  Within(c, a + 1, l, k)
<1>1. /\ a \in 1 .. Len(c) /\ a \in Nat /\ l = 0 /\ Len(c) \in Nat /\ (a + 1) - 1 = a
  BY DEF Cursor
<1>2. PICK most \in Nat, B \in [0 .. Len(c) -> Nat], j \in Nat :
        /\ IntSize + most * PacketSize <= Room /\ Shares(c, most, B)
        /\ l = j * MAX_WN_NUM /\ k <= B[a - 1] + j /\ k <= most
  BY DEF Within
<1>3. j = 0
  BY <1>1, <1>2, SizesAssumption
<1>4. B[a - 1] \in Nat /\ B[a] \in Nat /\ B[a - 1] <= B[a]
  BY SMTT(30), <1>1, <1>2 DEF Shares
<1>5. k <= B[(a + 1) - 1] + 0
  BY <1>1, <1>2, <1>3, <1>4
<1>6. l = 0 * MAX_WN_NUM
  BY <1>1, SizesAssumption
<1> QED BY <1>2, <1>5, <1>6 DEF Within

LEMMA WithinPacked ==
  ASSUME NEW c, NEW a, NEW l, NEW k \in Nat, Cursor(c, a, l), a <= Len(c), c[a] > 0, Within(c, a, l, k),
         NEW n, n = (IF c[a] - l < MAX_WN_NUM THEN c[a] - l ELSE MAX_WN_NUM)
  PROVE  IF l + n < c[a] THEN Within(c, a, l + n, k + 1) ELSE Within(c, a + 1, 0, k + 1)
<1>1. /\ a \in 1 .. Len(c) /\ a \in Nat /\ l \in Nat /\ Len(c) \in Nat /\ (a + 1) - 1 = a
      /\ l < c[a] /\ c[a] \in Nat /\ MAX_WN_NUM \in Nat \ {0}
  BY SizesAssumption DEF Cursor
<1>2. PICK most \in Nat, B \in [0 .. Len(c) -> Nat], j \in Nat :
        /\ IntSize + most * PacketSize <= Room /\ Shares(c, most, B)
        /\ l = j * MAX_WN_NUM /\ k <= B[a - 1] + j /\ k <= most
  BY DEF Within
<1>3. /\ B[a - 1] \in Nat /\ B[a] \in Nat /\ B[a - 1] <= B[a] /\ B[a] <= most
      /\ c[a] <= (B[a] - B[a - 1]) * MAX_WN_NUM
  <2>1. a - 1 \in 0 .. Len(c) /\ a \in 0 .. Len(c)
    BY <1>1
  <2>2. B[a - 1] \in Nat /\ B[a] \in Nat
    BY <1>2, <2>1
  <2> QED BY <1>1, <1>2, <2>2 DEF Shares
<1>4. j + 1 <= B[a] - B[a - 1]
  <2>1. PICK d \in Int : d = B[a] - B[a - 1]
    BY <1>3
  <2>2. d * MAX_WN_NUM \in Int /\ j * MAX_WN_NUM \in Int
    BY <1>1
  <2>3. c[a] <= d * MAX_WN_NUM
    BY <1>3, <2>1
  <2>4. j * MAX_WN_NUM < c[a]
    BY <1>1, <1>2
  <2>5. j * MAX_WN_NUM < d * MAX_WN_NUM
    <3>1. PICK x \in Int : x = j * MAX_WN_NUM
      BY <2>2
    <3>2. PICK z \in Int : z = d * MAX_WN_NUM
      BY <2>2
    <3>3. x < c[a] /\ c[a] <= z /\ c[a] \in Nat
      BY <1>1, <2>3, <2>4, <3>1, <3>2
    <3>4. x < z
      BY <3>3
    <3> QED BY <3>1, <3>2, <3>4
  <2> QED BY <1>1, <2>1, <2>5, ShareLeft
<1>5. k + 1 <= B[a] /\ k + 1 <= most /\ k + 1 <= B[a - 1] + (j + 1)
  BY SMTT(30), <1>2, <1>3, <1>4
<1>6. CASE l + n < c[a]
  <2>1. n = MAX_WN_NUM
    BY <1>1, <1>6
  <2>2. l + n = (j + 1) * MAX_WN_NUM
    BY <1>1, <1>2, <2>1, Products
  <2>3. j + 1 \in Nat
    OBVIOUS
  <2>4. Within(c, a, l + n, k + 1)
    BY <1>2, <1>5, <2>2, <2>3 DEF Within
  <2> QED BY <1>6, <2>4
<1>7. CASE ~(l + n < c[a])
  <2>1. 0 = 0 * MAX_WN_NUM
    BY <1>1
  <2>2. k + 1 <= B[(a + 1) - 1] + 0
    BY <1>1, <1>3, <1>5
  <2>3. Within(c, a + 1, 0, k + 1)
    BY <1>2, <1>5, <2>1, <2>2 DEF Within
  <2> QED BY <1>7, <2>3
<1> QED BY <1>6, <1>7

LEMMA RoomInit == ASSUME PackInit PROVE RoomInv
  BY NewMessageFits DEF PackInit, FirstMsg, Nothing, RoomInv

LEMMA RoomStep ==
  ASSUME GrantsFit, PackInv, RoomInv, PackNext
  PROVE  RoomInv'
<1> DEFINE c == transfer.counts
<1>1. /\ msg \in Message /\ msg.packets \in Seq(Packet) /\ Len(msg.packets) \in Nat
      /\ wire \in Seq(Message) /\ Cursor(c, at, left)
      /\ \A to : FirstMsg(to).packets = << >>
      /\ \A to, more : NextMsg(to, more).packets = << >>
  BY DEF PackInv, PackShape, Message, FirstMsg, NextMsg
<1>2. ASSUME NEW n \in Node, Begin(n) PROVE RoomInv'
  <2>1. PICK t \in Transfers : /\ transfer'.kind = t.kind /\ transfer'.counts = t.counts
                               /\ msg'.packets = << >>
    BY <1>1, <1>2 DEF Begin
  <2>2. at' = 1 /\ left' = 0 /\ wire' = wire
    BY <1>2 DEF Begin
  <2>3. ASSUME t.kind = "wni" PROVE Within(t.counts, 1, 0, 0)
    <3>1. PICK most \in Nat, B \in [0 .. Len(t.counts) -> Nat] :
            IntSize + most * PacketSize <= Room /\ Shares(t.counts, most, B)
      BY <2>3 DEF GrantsFit
    <3>2. 0 = 0 * MAX_WN_NUM
      BY SizesAssumption
    <3>3. B[0] \in Nat
      <4>1. t.counts \in Seq(Nat)
        BY TransfersAssumption
      <4>2. 0 \in 0 .. Len(t.counts)
        BY <4>1
      <4> QED BY <3>1, <4>2
    <3>4. 0 <= B[1 - 1] + 0 /\ 0 <= most
      BY <3>3
    <3> QED BY <3>1, <3>2, <3>4 DEF Within
  <2>4. Len(msg'.packets) = 0
    BY <2>1
  <2> QED BY <2>1, <2>2, <2>3, <2>4, NewMessageFits DEF RoomInv
<1>3. CASE SkipInterval
  <2>1. /\ at <= Len(c) /\ c[at] = 0 /\ at' = at + 1 /\ todo # << >>
        /\ UNCHANGED <<transfer, todo, left, msg, wire>>
    BY <1>3 DEF SkipInterval, Count, Packing
  <2>2. transfer.kind = "wni" => Within(c, at + 1, left, Len(msg.packets))
    BY <1>1, <2>1, WithinSkipped DEF RoomInv
  <2> QED BY <2>1, <2>2 DEF RoomInv
<1>4. CASE AddPacket
  <2>1. PICK n : n = (IF Count - left < MAX_WN_NUM THEN Count - left ELSE MAX_WN_NUM)
    OBVIOUS
  <2>2. PICK q : q = [interval |-> at, first |-> left, count |-> n]
    OBVIOUS
  <2> DEFINE F == Append(msg.packets, q)
             filled == [msg EXCEPT !.packets = F]
  <2>3. /\ todo # << >> /\ at <= Len(c) /\ c[at] > 0 /\ UNCHANGED <<transfer, todo>>
        /\ Advance(left + n)
        /\ IF transfer.kind # "wni" /\ Full(filled.packets)
           THEN wire' = Append(wire, filled) /\ msg' = NextMsg(Head(todo), left > 0)
           ELSE msg' = filled /\ wire' = wire
    BY <1>4, <2>1, <2>2 DEF AddPacket, Packing, Count
  <2>4. n = (IF c[at] - left < MAX_WN_NUM THEN c[at] - left ELSE MAX_WN_NUM)
    BY <2>1 DEF Count
  <2>5. q \in Packet
    <3>1. at \in Nat /\ left \in Nat /\ c[at] \in Nat /\ left < c[at] /\ MAX_WN_NUM \in Nat
      BY SMTT(30), <1>1, <2>3, SizesAssumption DEF Cursor
    <3>2. n \in Nat
      BY <2>4, <3>1
    <3> QED BY <2>2, <3>1, <3>2 DEF Packet
  <2>6. filled.packets = F /\ F \in Seq(Packet) /\ Len(F) = Len(msg.packets) + 1
    BY <1>1, <2>5 DEF Message
  <2> HIDE DEF F, filled
  <2>7. CASE transfer.kind = "wni"
    <3>1. Within(c, at, left, Len(msg.packets))
      BY <2>3, <2>7 DEF RoomInv
    <3>2. IF left + n < c[at] THEN Within(c, at, left + n, Len(F)) ELSE Within(c, at + 1, 0, Len(F))
      BY <1>1, <2>3, <2>4, <2>6, <3>1, WithinPacked
    <3>3. Within(c, at', left', Len(F))
      BY <2>3, <3>2 DEF Advance, Count
    <3>4. Fits(F)
      BY <2>6, <3>3, ShareFits
    <3> QED BY <2>3, <2>6, <2>7, <3>3, <3>4 DEF RoomInv
  <2>8. CASE transfer.kind # "wni"
    <3>1. Fits(F)
      BY <1>1, <2>3, <2>5, <2>8, MoreFits DEF RoomInv, F
    <3>2. CASE Full(F)
      <4>1. wire' = Append(wire, filled) /\ msg'.packets = << >>
        BY <1>1, <2>3, <2>6, <2>8, <3>2
      <4>2. \A i \in 1 .. Len(wire') : Fits(wire'[i].packets)
        BY <1>1, <2>6, <3>1, <4>1 DEF RoomInv
      <4> QED BY <2>3, <2>8, <4>1, <4>2, NewMessageFits DEF RoomInv
    <3>3. CASE ~Full(F)
      BY <2>3, <2>6, <2>8, <3>1, <3>3 DEF RoomInv
    <3> QED BY <3>2, <3>3
  <2> QED BY <2>7, <2>8
<1>5. CASE SendLast
  <2>1. /\ todo # << >> /\ todo' = Tail(todo) /\ at' = 1 /\ left' = 0 /\ transfer' = transfer
        /\ wire' = (IF Unsent THEN Append(wire, msg) ELSE wire)
        /\ msg' = (IF todo' = << >> THEN msg ELSE FirstMsg(todo[2]))
    BY <1>5 DEF SendLast, Packing
  <2>2. \A i \in 1 .. Len(wire') : Fits(wire'[i].packets)
    BY <1>1, <2>1 DEF RoomInv
  <2>3. Fits(msg'.packets) /\ (todo' # << >> => msg'.packets = << >> /\ Len(msg'.packets) = 0)
    BY <1>1, <2>1, NewMessageFits DEF RoomInv
  <2> QED BY <2>1, <2>2, <2>3, NewMessageFits DEF RoomInv
<1>6. CASE Take
  <2>1. /\ UNCHANGED <<transfer, todo, at, left, msg>> /\ wire # << >> /\ wire' = Tail(wire)
    BY <1>6 DEF Take
  <2>2. \A i \in 1 .. Len(wire') : i + 1 \in 1 .. Len(wire) /\ wire'[i] = wire[i + 1]
    BY <1>1, <2>1
  <2>3. \A i \in 1 .. Len(wire') : Fits(wire'[i].packets)
    BY <2>2 DEF RoomInv
  <2> QED BY <2>1, <2>3 DEF RoomInv
<1> QED BY <1>2, <1>3, <1>4, <1>5, <1>6 DEF PackNext

(* No message grows past its array, provided that what is granted in one    *)
(* message fits it.                                                         *)
THEOREM PackTypeCorrect == ShortExits /\ GrantsFit /\ SystemSpec => []TypeOK
<1>1. SystemInit => RoomInv
  BY RoomInit DEF SystemInit
<1>2. ASSUME GrantsFit PROVE PackInv /\ RoomInv /\ [SystemNext]_<<vars, packVars>> => RoomInv'
  <2> SUFFICES ASSUME PackInv, RoomInv, [SystemNext]_<<vars, packVars>> PROVE RoomInv'
    OBVIOUS
  <2>1. CASE PackNext
    BY <1>2, <2>1, RoomStep
  <2>2. CASE UNCHANGED packVars
    BY <2>2 DEF RoomInv, packVars
  <2> QED BY <2>1, <2>2 DEF SystemNext
<1>3. StartInv /\ PackInv /\ RoomInv => TypeOK
  <2> SUFFICES ASSUME StartInv, PackInv, RoomInv PROVE TypeOK
    OBVIOUS
  <2>1. /\ Cursor(transfer.counts, at, left) /\ msg \in Message /\ wire \in Seq(Message)
    BY DEF PackInv, PackShape
  <2>2. ASSUME NEW m \in {msg} \cup {wire[i] : i \in DOMAIN wire}
        PROVE  m.to \in Node /\ DataSize(m.packets) <= MAX_MSG_SIZE - MSG_HEAD_SIZE
    <3>1. m \in Message /\ Fits(m.packets)
      BY <2>1 DEF RoomInv
    <3> QED BY <3>1 DEF Message, Fits, Room
  <2> QED BY <2>1, <2>2, StartTyped DEF TypeOK, Cursor
<1>4. CASE ShortExits /\ GrantsFit
  <2>1. PackInv /\ RoomInv /\ [SystemNext]_<<vars, packVars>> => RoomInv'
    BY <1>2, <1>4
  <2> QED BY <1>1, <1>3, <1>4, <2>1, PackInvariant, PTL DEF SystemSpec
<1>5. CASE ~(ShortExits /\ GrantsFit)
  BY <1>5
<1> QED BY <1>4, <1>5
=============================================================================
