---------------------------- MODULE UdhcpdServer ----------------------------
(***************************************************************************)
(* The lease table of Udhcpd names an address and a client at most once,   *)
(* and no two clients hold the same address, for every number of clients,  *)
(* addresses, slots, restarts and messages.                                *)
(*                                                                         *)
(* NoDoubleLease is not inductive.  Its argument: every client that may    *)
(* rely on its lease is Entitled; its lease is in the file (FileBacked)    *)
(* and, while the server runs, in the table (TableBacked); neither names   *)
(* an address twice.  The rest of the invariant says what the search and   *)
(* the loading of the file may assume.                                     *)
(***************************************************************************)
EXTENDS Udhcpd, TLAPS

USE ZenonT(30)

\* What the searches of the table rest on (proved in UdhcpdProofs): a nonempty set of numbers
\* has a least one.
LeastNumber == \A T \in SUBSET Nat : T # {} => \E x \in T : \A y \in T : x <= y

Unique(t) ==
  \A i, j \in Slots : i # j =>
    /\ t[i].nip = t[j].nip => t[i].nip = 0
    /\ t[i].mac = t[j].mac => t[i].mac = NoMac

Entitled(c) ==
  c \notin excused /\ c \notin DOMAIN static /\ Live(c) /\ client[c].ip \notin StaticAddrs

Holds(l, c) == l.mac = c /\ l.nip = client[c].ip

InTable(c) == \E i \in Slots : Holds(leases[i], c) /\ leases[i].expires >= client[c].until
ToLoad(c) == \E i \in Slots : /\ i >= file.next /\ Holds(file.recs[i], c)
                              /\ now + file.recs[i].expires - file.passed >= client[c].until

\* The leases that clients rely on are in the file, which may be read at any time.
FileBacked == \A c \in Clients : Entitled(c) =>
  \E i \in Slots : Holds(file.recs[i], c) /\ file.at + file.recs[i].expires >= client[c].until

\* They are in the table of a running server, and in the rest of a file being loaded.
TableBacked == \A c \in Clients : Entitled(c) =>
  /\ pc \in {"idle", "scan"} => InTable(c)
  /\ pc = "load" => InTable(c) \/ ToLoad(c)

InBlock == \A c \in Clients : Entitled(c) => client[c].ip \in Addrs
StaticHold == \A c \in Clients \ excused : c \in DOMAIN static /\ Live(c) => client[c].ip = static[c]
UntilBound == \A c \in Clients : Live(c) => client[c].until <= now + select_lease_time(c)
Dynamic == \A i \in Slots : leases[i].mac \notin DOMAIN static \cup {NoMac} => leases[i].nip \in Addrs

ScanInv == pc = "scan" =>
  /\ scan.mac \in Clients /\ scan.mac \notin DOMAIN static /\ scan.addr >= 1
  /\ \A i \in Slots : leases[i].mac # scan.mac
  /\ scan.oldest # 0 => leases[scan.oldest].nip \in Addrs

\* Loading: what is in the table comes from the records read, and there is room for the rest.
LoadInv == pc = "load" => file.next >= 1 /\ \A i \in Slots :
  /\ i >= file.next => leases[i].expires = 0
  /\ \/ leases[i] = Empty
     \/ \E k \in Slots : /\ k < file.next /\ file.recs[k].mac = leases[i].mac
                         /\ file.recs[k].nip = leases[i].nip

Down == pc = "down" => leases = [i \in Slots |-> Empty]

LeaseInv ==
  /\ TypeOK /\ Unique(leases) /\ Unique(file.recs) /\ FileBacked /\ TableBacked
  /\ InBlock /\ StaticHold /\ UntilBound /\ Dynamic /\ ScanInv /\ LoadInv /\ Down

----------------------------------------------------------------------------
\* The operators of leases.c.

\* First, the search of find_lease_by_mac and find_lease_by_nip, returns a member or 0.
LEMMA FirstFacts == ASSUME LeastNumber, NEW S, S \subseteq Slots
                    PROVE  /\ First(S) \in 0..MaxLeases
                           /\ S # {} => First(S) \in S
                           /\ S = {} => First(S) = 0
<1>0. Slots \subseteq Nat /\ MaxLeases \in Nat BY UdhcpdAssumption, SMTT(30) DEF Slots
<1>1. CASE S = {} BY <1>0, <1>1, SMTT(30) DEF First
<1>2. CASE S # {}
  <2>1. \E x \in S : \A y \in S : x <= y BY <1>0, <1>2 DEF LeastNumber
  <2>2. First(S) \in S BY <2>1 DEF First
  <2>3. First(S) \in Slots BY <2>2
  <2>4. First(S) \in 0..MaxLeases BY <2>3, <1>0, SMTT(30) DEF Slots
  <2> QED BY <2>2, <2>4
<1> QED BY <1>1, <1>2

\* oldest_expired_lease returns the first of the slots that expired longest ago, and 0 only
\* when none has expired.
LEMMA OldestFacts ==
  ASSUME LeastNumber, NEW t \in Table, now \in Nat
  PROVE  /\ oldest_expired_lease(t) \in 0..MaxLeases
         /\ oldest_expired_lease(t) # 0 =>
              /\ oldest_expired_lease(t) \in Slots
              /\ t[oldest_expired_lease(t)].expires < now
              /\ \A j \in Slots : t[j].expires < now =>
                   \/ t[oldest_expired_lease(t)].expires < t[j].expires
                   \/ /\ t[oldest_expired_lease(t)].expires = t[j].expires
                      /\ oldest_expired_lease(t) <= j
         /\ (\E i \in Slots : t[i].expires < now) => oldest_expired_lease(t) # 0
<1> DEFINE old == {i \in Slots : t[i].expires < now}
           ex == {t[i].expires : i \in old}
<1>0. Slots \subseteq Nat /\ 0 \notin Slots /\ MaxLeases \in Nat
  BY UdhcpdAssumption, SMTT(30) DEF Slots
<1>t. \A i \in Slots : t[i].expires \in Nat BY DEF Table, Record
<1>d. oldest_expired_lease(t) = IF old = {} THEN 0
         ELSE CHOOSE i \in old : \A j \in old : \/ t[i].expires < t[j].expires
                                                \/ t[i].expires = t[j].expires /\ i <= j
  BY DEF oldest_expired_lease, is_expired_lease
<1>1. CASE old = {} BY <1>1, <1>d, <1>0, SMTT(30)
<1>2. CASE old # {}
  <2>1. ex \subseteq Nat /\ ex # {} BY <1>t, <1>2
  <2>2. PICK e \in ex : \A y \in ex : e <= y BY <2>1 DEF LeastNumber
  <2> DEFINE best == {i \in old : t[i].expires = e}
  <2>3. best \subseteq Nat /\ best # {} BY <1>0
  <2>4. PICK i \in best : \A j \in best : i <= j BY <2>3 DEF LeastNumber
  <2>5. \A j \in old : t[i].expires < t[j].expires \/ (t[i].expires = t[j].expires /\ i <= j)
    <3> TAKE j \in old
    <3>1. e <= t[j].expires BY <2>2
    <3>2. t[i].expires = e /\ e \in Nat /\ t[j].expires \in Nat BY <1>t
    <3>3. CASE t[j].expires = e BY <3>3, <2>4
    <3>4. CASE t[j].expires # e BY <3>4, <3>1, <3>2, SMTT(30)
    <3> QED BY <3>3, <3>4
  <2>6. \E k \in old : \A j \in old : t[k].expires < t[j].expires \/ (t[k].expires = t[j].expires /\ k <= j)
    BY <2>4, <2>5
  <2>7. /\ oldest_expired_lease(t) \in old
        /\ \A j \in old : \/ t[oldest_expired_lease(t)].expires < t[j].expires
                          \/ /\ t[oldest_expired_lease(t)].expires = t[j].expires
                             /\ oldest_expired_lease(t) <= j
    <3> HIDE DEF old
    <3> QED BY <2>6, <1>d
  <2>8. oldest_expired_lease(t) \in Slots /\ oldest_expired_lease(t) # 0 BY <2>7, <1>0
  <2>9. oldest_expired_lease(t) \in 0..MaxLeases BY <2>8, <1>0, SMTT(30) DEF Slots
  <2> QED BY <2>7, <2>8, <2>9
<1> QED BY <1>1, <1>2

\* clear_leases empties the slots of the client and of the address, and no other.
Cleared(t, c, mac, nip) ==
  /\ c \in Table
  /\ \A i \in Slots :
       c[i] = IF (mac # Null /\ t[i].mac = mac) \/ (nip # 0 /\ t[i].nip = nip) THEN Empty ELSE t[i]

\* clear_leases does what Cleared says.
LEMMA ClearFacts ==
  ASSUME NEW t \in Table, NEW mac \in Clients \cup {NoMac, Null}, NEW nip \in Nat
  PROVE  Cleared(t, clear_leases(t, mac, nip), mac, nip)
<1>1. Empty \in Record BY DEF Empty, Record
<1> QED BY <1>1, SMTT(30) DEF clear_leases, Table, Cleared


Match(l, mac, nip) == (mac # Null /\ l.mac = mac) \/ l.nip = nip
NewLease(mac, nip, time) == [mac |-> IF mac = Null THEN NoMac ELSE mac, nip |-> nip, expires |-> now + time]

\* What add_lease does to each slot: the one it fills was expired or a match.
Added(t, a, s, mac, nip, time) ==
  /\ a \in Table
  /\ s \in 0..MaxLeases
  /\ \A i \in Slots : i = s =>
       /\ a[i] = NewLease(mac, nip, time)
       /\ Match(t[i], mac, nip) \/ t[i].expires < now
  /\ \A i \in Slots : i # s => a[i] = IF Match(t[i], mac, nip) THEN Empty ELSE t[i]
  /\ \A i \in Slots : Match(t[i], mac, nip) \/ t[i].expires < now => s # 0

\* add_lease does what Added says.
LEMMA AddFacts ==
  ASSUME LeastNumber, NEW t \in Table, NEW mac \in Clients \cup {NoMac, Null}, NEW nip \in Nat \ {0},
         NEW time \in Nat, now \in Nat \ {0}
  PROVE  Added(t, add_lease(t, mac, nip, time), slot_for(t, mac, nip), mac, nip, time)
<1> DEFINE c == clear_leases(t, mac, nip)
           s == slot_for(t, mac, nip)
           l == NewLease(mac, nip, time)
<1>1. /\ c \in Table
      /\ \A i \in Slots : c[i] = IF Match(t[i], mac, nip) THEN Empty ELSE t[i]
  <2>1. nip \in Nat /\ nip # 0 BY SMTT(30)
  <2>2. Cleared(t, c, mac, nip) BY <2>1, ClearFacts
  <2> QED BY <2>1, <2>2 DEF Cleared, Match
<1>2. /\ s \in 0..MaxLeases
      /\ s # 0 => s \in Slots /\ c[s].expires < now
      /\ (\E i \in Slots : c[i].expires < now) => s # 0
  BY <1>1, OldestFacts DEF slot_for
<1>3. l \in Record BY UdhcpdAssumption, SMTT(30) DEF NewLease, Record
<1>4. add_lease(t, mac, nip, time) = IF s = 0 THEN c ELSE [c EXCEPT ![s] = l]
  BY DEF add_lease, NewLease
<1>5. Empty.expires < now BY SMTT(30) DEF Empty
<1>6. 0 \notin Slots BY SMTT(30) DEF Slots
<1> HIDE DEF c, s, l
<1>7. add_lease(t, mac, nip, time) \in Table BY <1>1, <1>3, <1>4 DEF Table
<1>8. ASSUME NEW i \in Slots, i = s
      PROVE  add_lease(t, mac, nip, time)[i] = l /\ (Match(t[i], mac, nip) \/ t[i].expires < now)
  <2>1. s # 0 BY <1>8, <1>6
  <2>2. add_lease(t, mac, nip, time)[i] = l BY <2>1, <1>1, <1>4, <1>8 DEF Table
  <2>3. c[i].expires < now BY <2>1, <1>2, <1>8
  <2> QED BY <2>2, <2>3, <1>1
<1>9. ASSUME NEW i \in Slots, i # s
      PROVE  add_lease(t, mac, nip, time)[i] = IF Match(t[i], mac, nip) THEN Empty ELSE t[i]
  <2>1. add_lease(t, mac, nip, time)[i] = c[i] BY <1>1, <1>4, <1>9 DEF Table
  <2> QED BY <2>1, <1>1
<1>10. ASSUME NEW i \in Slots, Match(t[i], mac, nip) \/ t[i].expires < now PROVE s # 0
  BY <1>10, <1>1, <1>2, <1>5
<1> QED BY <1>2, <1>7, <1>8, <1>9, <1>10 DEF s, l, Added

\* A lease that has not expired and is for another client and address stays.
LEMMA AddKeeps ==
  ASSUME LeastNumber, NEW t \in Table, NEW mac \in Clients \cup {NoMac, Null}, NEW nip \in Nat \ {0},
         NEW time \in Nat, now \in Nat \ {0}, NEW i \in Slots,
         ~Match(t[i], mac, nip), ~(t[i].expires < now)
  PROVE  add_lease(t, mac, nip, time)[i] = t[i]
<1> DEFINE a == add_lease(t, mac, nip, time)
           s == slot_for(t, mac, nip)
<1>1. Added(t, a, s, mac, nip, time) BY AddFacts
<1> HIDE DEF a, s
<1>2. a[i] = t[i] BY <1>1 DEF Added
<1> QED BY <1>2 DEF a

\* add_lease names no client and no address twice.
LEMMA AddUnique ==
  ASSUME LeastNumber, NEW t \in Table, NEW mac \in Clients \cup {NoMac, Null}, NEW nip \in Nat \ {0},
         NEW time \in Nat, now \in Nat \ {0}, Unique(t)
  PROVE  Unique(add_lease(t, mac, nip, time))
<1> DEFINE a == add_lease(t, mac, nip, time)
           s == slot_for(t, mac, nip)
<1>0. Added(t, a, s, mac, nip, time) BY AddFacts
<1> HIDE DEF a, s
<1>1. ASSUME NEW i \in Slots, i = s PROVE a[i] = NewLease(mac, nip, time)
  BY <1>0, <1>1 DEF Added
<1>2. Empty.nip = 0 /\ Empty.mac = NoMac BY DEF Empty
<1>3. ASSUME NEW i \in Slots, i # s, a[i] # Empty
      PROVE  a[i] = t[i] /\ ~Match(t[i], mac, nip)
  BY <1>0, <1>3 DEF Added
<1>4. ASSUME NEW i \in Slots, NEW j \in Slots, i = s, j # s
      PROVE  /\ a[i].nip = a[j].nip => a[i].nip = 0
             /\ a[i].mac = a[j].mac => a[i].mac = NoMac
  <2>1. a[i] = NewLease(mac, nip, time) BY <1>1, <1>4
  <2>2. a[i].nip = nip /\ (a[i].mac = NoMac \/ (mac # Null /\ a[i].mac = mac))
    BY <2>1, SMTT(30) DEF NewLease
  <2>3. CASE a[j] = Empty BY <2>3, <1>2
  <2>4. CASE a[j] # Empty
    <3>1. a[j].nip # nip /\ (mac # Null => a[j].mac # mac) BY <1>3, <1>4, <2>4 DEF Match
    <3> QED BY <3>1, <2>2
  <2> QED BY <2>3, <2>4
<1>5. ASSUME NEW i \in Slots, NEW j \in Slots, i # s, j # s, i # j
      PROVE  /\ a[i].nip = a[j].nip => a[i].nip = 0
             /\ a[i].mac = a[j].mac => a[i].mac = NoMac
  <2>1. CASE a[i] = Empty \/ a[j] = Empty BY <2>1, <1>2
  <2>2. CASE a[i] # Empty /\ a[j] # Empty BY <2>2, <1>3, <1>5 DEF Unique
  <2> QED BY <2>1, <2>2
<1> QED BY <1>4, <1>5 DEF Unique, a

\* select_lease_time returns a number of seconds.
LEMMA LeaseTimeType == ASSUME NEW c \in Clients PROVE select_lease_time(c) \in Nat
BY UdhcpdAssumption DEF select_lease_time

\* The static leases are for clients, and none is for address 0.
LEMMA StaticType ==
  ASSUME static \in StaticConfigs \cup {NoStatic}
  PROVE  DOMAIN static \subseteq Clients /\ \A c \in DOMAIN static : static[c] \in Nat \ {0}
BY UdhcpdAssumption DEF NoStatic

\* With a table that names nobody twice, the first match is the match.
LEMMA FindMac ==
  ASSUME LeastNumber, leases \in Table, NEW c
  PROVE  /\ find_lease_by_mac(c) \in 0..MaxLeases
         /\ find_lease_by_mac(c) # 0 =>
              find_lease_by_mac(c) \in Slots /\ leases[find_lease_by_mac(c)].mac = c
         /\ find_lease_by_mac(c) = 0 => \A i \in Slots : leases[i].mac # c
<1> DEFINE S == {i \in Slots : leases[i].mac = c}
<1>1. S \subseteq Slots /\ 0 \notin Slots BY SMTT(30) DEF Slots
<1>2. /\ First(S) \in 0..MaxLeases
      /\ S # {} => First(S) \in S
      /\ S = {} => First(S) = 0
  <2> HIDE DEF S
  <2> QED BY <1>1, FirstFacts
<1> QED BY <1>1, <1>2 DEF find_lease_by_mac

\* find_lease_by_nip finds a slot with the address if there is one.
LEMMA FindNip ==
  ASSUME LeastNumber, leases \in Table, NEW n
  PROVE  /\ find_lease_by_nip(n) \in 0..MaxLeases
         /\ find_lease_by_nip(n) # 0 =>
              find_lease_by_nip(n) \in Slots /\ leases[find_lease_by_nip(n)].nip = n
         /\ find_lease_by_nip(n) = 0 => \A i \in Slots : leases[i].nip # n
<1> DEFINE S == {i \in Slots : leases[i].nip = n}
<1>1. S \subseteq Slots /\ 0 \notin Slots BY SMTT(30) DEF Slots
<1>2. /\ First(S) \in 0..MaxLeases
      /\ S # {} => First(S) \in S
      /\ S = {} => First(S) = 0
  <2> HIDE DEF S
  <2> QED BY <1>1, FirstFacts
<1> QED BY <1>1, <1>2 DEF find_lease_by_nip

\* The written file has the table's leases, with the time they have left.
LEMMA WriteFacts ==
  ASSUME NEW t \in Table, now \in Nat \ {0}
  PROVE  /\ write_leases(t) \in [at : Nat, recs : Table, next : Nat, passed : Nat]
         /\ Unique(t) => Unique(write_leases(t).recs)
         /\ write_leases(t).at = now
         /\ \A i \in Slots :
              /\ write_leases(t).recs[i].mac = t[i].mac /\ write_leases(t).recs[i].nip = t[i].nip
              /\ now + write_leases(t).recs[i].expires >= t[i].expires
<1> DEFINE left(i) == IF t[i].expires < now THEN 0 ELSE t[i].expires - now
           r == [i \in Slots |-> [t[i] EXCEPT !.expires = left(i)]]
<1>1. write_leases(t) = [at |-> now, next |-> 0, passed |-> 0, recs |-> r]
  BY DEF write_leases
<1>2. \A i \in Slots : left(i) \in Nat /\ now + left(i) >= t[i].expires
  BY SMTT(30) DEF Table, Record
<1> HIDE DEF left
<1>3. \A i \in Slots : r[i] \in Record /\ r[i].mac = t[i].mac /\ r[i].nip = t[i].nip /\ r[i].expires = left(i)
  BY <1>2 DEF Table, Record
<1>4. r \in Table BY <1>3 DEF Table
<1> HIDE DEF r
<1>5. Unique(t) => Unique(r) BY <1>3, SMTT(30) DEF Unique
<1> QED BY <1>1, <1>2, <1>3, <1>4, <1>5, SMTT(30)

----------------------------------------------------------------------------
\* Steps that take no client's lease away, as far as the clients are concerned.

Messages == [type : {"DISCOVER", "REQUEST", "DECLINE", "RELEASE"}, mac : Clients, req : Nat, ci : Nat]
ClientType == [Clients -> [st : {"init", "requesting", "bound"}, ip : Nat, until : Nat]]

Running == pc \in {"idle", "scan"}
LosesNone ==
  /\ static' = static /\ excused \subseteq excused' /\ now' \in Nat /\ now' >= now
  /\ \A d \in Clients : client'[d] = client[d] \/ client'[d].st # "bound"

\* In such a step a lease that is live was live before.
LEMMA LosesLive ==
  ASSUME TypeOK, LosesNone, NEW d \in Clients, Live(d)'
  PROVE  Live(d) /\ client'[d] = client[d]
<1>1. client'[d] = client[d] BY DEF LosesNone, Live, Bound
<1>2. client[d].until \in Nat /\ now \in Nat /\ now' \in Nat /\ now' >= now BY DEF TypeOK, LosesNone
<1>3. now' < client[d].until BY <1>1 DEF Live
<1> QED BY <1>1, <1>2, <1>3, SMTT(30) DEF Live, Bound

\* In such a step a client that is entitled was entitled before.
LEMMA LosesEntitled ==
  ASSUME TypeOK, LosesNone, NEW d \in Clients, Entitled(d)'
  PROVE  Entitled(d) /\ client'[d] = client[d]
<1>1. Live(d)' BY DEF Entitled
<1>2. Live(d) /\ client'[d] = client[d] BY <1>1, LosesLive
<1>3. static' = static /\ d \notin excused BY DEF Entitled, LosesNone
<1>4. StaticAddrs' = StaticAddrs BY <1>3 DEF StaticAddrs
<1> QED BY <1>2, <1>3, <1>4 DEF Entitled

\* Such a step keeps what the invariant says of the clients.
LEMMA LosesClientSide ==
  ASSUME LeaseInv, LosesNone PROVE InBlock' /\ StaticHold' /\ UntilBound'
<1>0. TypeOK BY DEF LeaseInv
<1>1. InBlock'
  <2> SUFFICES ASSUME NEW d \in Clients, Entitled(d)' PROVE client'[d].ip \in Addrs BY DEF InBlock
  <2>1. Entitled(d) /\ client'[d] = client[d] BY <1>0, LosesEntitled
  <2> QED BY <2>1 DEF LeaseInv, InBlock
<1>2. StaticHold'
  <2> SUFFICES ASSUME NEW d \in Clients, d \notin excused', d \in DOMAIN static', Live(d)'
               PROVE client'[d].ip = static'[d]
    BY DEF StaticHold
  <2>1. Live(d) /\ client'[d] = client[d] BY <1>0, LosesLive
  <2>2. static' = static /\ d \notin excused BY DEF LosesNone
  <2> QED BY <2>1, <2>2 DEF LeaseInv, StaticHold
<1>3. UntilBound'
  <2> SUFFICES ASSUME NEW d \in Clients, Live(d)'
               PROVE client'[d].until <= now' + select_lease_time(d)
    BY DEF UntilBound
  <2>1. Live(d) /\ client'[d] = client[d] BY <1>0, LosesLive
  <2>2. client[d].until <= now + select_lease_time(d) BY <2>1 DEF LeaseInv, UntilBound
  <2>3. now \in Nat /\ now' \in Nat /\ now' >= now /\ client[d].until \in Nat
    BY <1>0 DEF TypeOK, LosesNone
  <2>4. select_lease_time(d) \in Nat BY LeaseTimeType
  <2> QED BY <2>1, <2>2, <2>3, <2>4, SMTT(30)
<1> QED BY <1>1, <1>2, <1>3

\* Such a step keeps the clients' leases in a file it does not write.
LEMMA LosesFileBacked ==
  ASSUME LeaseInv, LosesNone, file'.recs = file.recs, file'.at = file.at PROVE FileBacked'
<1> SUFFICES ASSUME NEW d \in Clients, Entitled(d)'
             PROVE  \E i \in Slots : /\ file'.recs[i].mac = d /\ file'.recs[i].nip = client'[d].ip
                                     /\ file'.at + file'.recs[i].expires >= client'[d].until
  BY DEF FileBacked, Holds
<1>1. Entitled(d) /\ client'[d] = client[d] BY LosesEntitled DEF LeaseInv
<1>2. PICK i \in Slots : Holds(file.recs[i], d) /\ file.at + file.recs[i].expires >= client[d].until
  BY <1>1 DEF LeaseInv, FileBacked
<1> QED BY <1>1, <1>2 DEF Holds

\* A running server's table backs the clients when the leases they rely on are not touched.
LEMMA LosesTableBacked ==
  ASSUME LeaseInv, LosesNone, Running, Running',
         \A d \in Clients : Entitled(d)' => \A i \in Slots :
            leases[i].mac = d /\ leases[i].nip = client[d].ip /\ leases[i].expires >= client[d].until
              => leases'[i] = leases[i]
  PROVE  TableBacked'
<1> SUFFICES ASSUME NEW d \in Clients, Entitled(d)'
             PROVE  \E i \in Slots : /\ leases'[i].mac = d /\ leases'[i].nip = client'[d].ip
                                     /\ leases'[i].expires >= client'[d].until
  BY DEF TableBacked, InTable, Holds
<1>1. Entitled(d) /\ client'[d] = client[d] BY LosesEntitled DEF LeaseInv
<1>2. PICK i \in Slots : Holds(leases[i], d) /\ leases[i].expires >= client[d].until
  BY <1>1 DEF LeaseInv, TableBacked, InTable, Running
<1>3. leases'[i] = leases[i] BY <1>2 DEF Holds
<1> QED BY <1>1, <1>2 DEF Holds

\* add_lease by a running server: for an address whose lease is the client's own or expired.
LEMMA AddBacked ==
  ASSUME LeastNumber, LeaseInv, LosesNone, Running, Running', now' = now,
         NEW mac \in Clients \cup {Null}, NEW nip \in Nat \ {0}, NEW time \in Nat,
         leases' = add_lease(leases, mac, nip, time),
         mac \in Clients => ~Entitled(mac)',
         \A i \in Slots : leases[i].nip = nip => leases[i].mac = mac \/ leases[i].expires < now
                                                 \/ nip \in StaticAddrs
  PROVE  TableBacked'
<1>0. leases \in Table /\ now \in Nat \ {0} /\ client \in ClientType
  BY DEF LeaseInv, TypeOK, ClientType
<1>1. ASSUME NEW d \in Clients, Entitled(d)', NEW i \in Slots,
             leases[i].mac = d, leases[i].nip = client[d].ip, leases[i].expires >= client[d].until
      PROVE  leases'[i] = leases[i]
  <2>1. d # mac /\ d # Null BY <1>1, UdhcpdAssumption
  <2>2. Entitled(d) BY <1>1, LosesEntitled DEF LeaseInv
  <2>3. now < client[d].until /\ client[d].ip \notin StaticAddrs BY <2>2 DEF Entitled, Live
  <2>4. client[d].until \in Nat /\ leases[i].expires \in Nat BY <1>0 DEF ClientType, Table, Record
  <2>5. ~(leases[i].expires < now) BY <2>3, <2>4, <1>0, <1>1, SMTT(30)
  <2>6. leases[i].nip # nip BY <2>3, <2>5, <1>1
  <2>7. ~Match(leases[i], mac, nip) BY <2>6, <1>1 DEF Match
  <2>8. mac \in Clients \cup {NoMac, Null} OBVIOUS
  <2> QED BY <2>5, <2>7, <2>8, <1>0, AddKeeps, SMTT(30)
<1> QED BY <1>1, LosesTableBacked

----------------------------------------------------------------------------
\* Steps of the clients and of time: the server does nothing.

\* What the invariant says of the server's own state depends on nothing else.
LEMMA ServerSame ==
  ASSUME LeaseInv, UNCHANGED << leases, static, pc, scan, file >>
  PROVE  /\ Unique(leases)' /\ Unique(file.recs)'
         /\ Dynamic' /\ ScanInv' /\ LoadInv' /\ Down'
<1>1. Unique(leases)' /\ Unique(file.recs)' BY DEF LeaseInv
<1>2. Dynamic' BY DEF LeaseInv, Dynamic
<1>3. ScanInv' BY DEF LeaseInv, ScanInv
<1>4. LoadInv' BY DEF LeaseInv, LoadInv, Empty
<1>5. Down' BY DEF LeaseInv, Down
<1> QED BY <1>1, <1>2, <1>3, <1>4, <1>5

\* A table that is not touched backs the clients as before.
LEMMA SameTableBacked ==
  ASSUME LeaseInv, LosesNone, UNCHANGED << leases, pc, file >> PROVE TableBacked'
<1> SUFFICES ASSUME NEW d \in Clients, Entitled(d)'
             PROVE  /\ Running' => InTable(d)'
                    /\ pc' = "load" => InTable(d)' \/ ToLoad(d)'
  BY DEF TableBacked, Running
<1>0. TypeOK BY DEF LeaseInv
<1>1. Entitled(d) /\ client'[d] = client[d] BY <1>0, LosesEntitled
<1>2. InTable(d) => InTable(d)' BY <1>1 DEF InTable, Holds
<1>3. ToLoad(d) => ToLoad(d)'
  <2> SUFFICES ASSUME NEW i \in Slots, i >= file.next, Holds(file.recs[i], d),
                      now + file.recs[i].expires - file.passed >= client[d].until
               PROVE  ToLoad(d)'
    BY DEF ToLoad
  <2>1. /\ now \in Nat /\ now' \in Nat /\ now' >= now /\ client[d].until \in Nat
        /\ file.recs[i].expires \in Nat /\ file.passed \in Nat
    BY <1>0 DEF TypeOK, LosesNone, Table, Record
  <2>2. now' + file.recs[i].expires - file.passed >= client[d].until BY <2>1, SMTT(30)
  <2> QED BY <2>2, <1>1 DEF ToLoad, Holds
<1> QED BY <1>1, <1>2, <1>3 DEF LeaseInv, TableBacked, Running

\* A client sends a message and keeps or gives up its lease.
LEMMA ClientSide ==
  ASSUME LeaseInv, NEW m \in Messages, Send(m), client' \in ClientType,
         \A d \in Clients : client'[d] = client[d] \/ client'[d].st # "bound"
  PROVE  LeaseInv'
<1>0. TypeOK BY DEF LeaseInv
<1>1. LosesNone BY <1>0, SMTT(30) DEF LosesNone, Send, TypeOK
<1>2. TypeOK' BY <1>0, SMTT(30) DEF TypeOK, Send, Post, Messages, ClientType
<1>3. UNCHANGED << leases, static, pc, scan, file >> BY DEF Send
<1>4. InBlock' /\ StaticHold' /\ UntilBound' BY <1>1, LosesClientSide
<1>5. FileBacked' BY <1>1, <1>3, LosesFileBacked
<1>6. TableBacked' BY <1>1, <1>3, SameTableBacked
<1>7. Unique(leases)' /\ Unique(file.recs)' /\ Dynamic' /\ ScanInv' /\ LoadInv' /\ Down'
  BY <1>3, ServerSame
<1> QED BY <1>2, <1>4, <1>5, <1>6, <1>7 DEF LeaseInv

\* The steps of the clients keep the invariant.
LEMMA ClientSteps ==
  ASSUME LeaseInv, NEW c \in Clients,
         Discover(c) \/ Renew(c) \/ Reboot(c) \/ Release(c) \/ Decline(c)
  PROVE  LeaseInv'
<1>0. client \in ClientType /\ client[c].ip \in Nat BY DEF LeaseInv, TypeOK, ClientType
<1>1. Unbound \in [st : {"init", "requesting", "bound"}, ip : Nat, until : Nat] /\ Unbound.st # "bound"
  BY DEF Unbound
<1>2. client' = [client EXCEPT ![c] = Unbound] =>
        client' \in ClientType /\ \A d \in Clients : client'[d] = client[d] \/ client'[d].st # "bound"
  BY <1>0, <1>1 DEF ClientType
<1>3. ASSUME Discover(c) PROVE LeaseInv'
  <2>1. PICK a \in Wishes : Send(Msg("DISCOVER", c, a, 0)) BY <1>3 DEF Discover
  <2>2. Msg("DISCOVER", c, a, 0) \in Messages BY UdhcpdAssumption DEF Msg, Messages
  <2> QED BY <2>1, <2>2, <1>2, <1>3, ClientSide DEF Discover
<1>4. ASSUME Renew(c) PROVE LeaseInv'
  <2>1. Msg("REQUEST", c, 0, client[c].ip) \in Messages BY <1>0 DEF Msg, Messages
  <2> QED BY <2>1, <1>0, <1>4, ClientSide DEF Renew
<1>5. ASSUME Reboot(c) PROVE LeaseInv'
  <2>1. Msg("REQUEST", c, client[c].ip, 0) \in Messages BY <1>0 DEF Msg, Messages
  <2>2. client' = [client EXCEPT ![c] = [st |-> "requesting", ip |-> client[c].ip, until |-> 0]]
    BY <1>5 DEF Reboot
  <2>4. client' \in ClientType /\ \A d \in Clients : client'[d] = client[d] \/ client'[d].st # "bound"
    BY <2>2, <1>0 DEF ClientType
  <2> QED BY <2>1, <2>4, <1>5, ClientSide DEF Reboot
<1>6. ASSUME Release(c) PROVE LeaseInv'
  <2>1. Msg("RELEASE", c, 0, client[c].ip) \in Messages BY <1>0 DEF Msg, Messages
  <2> QED BY <2>1, <1>2, <1>6, ClientSide DEF Release
<1>7. ASSUME Decline(c) PROVE LeaseInv'
  <2>1. Msg("DECLINE", c, client[c].ip, 0) \in Messages BY <1>0 DEF Msg, Messages
  <2> QED BY <2>1, <1>2, <1>7, ClientSide DEF Decline
<1> QED BY <1>3, <1>4, <1>5, <1>6, <1>7

\* Time passes: leases may end, none begins.
LEMMA TickStep == ASSUME LeaseInv, Tick PROVE LeaseInv'
<1>0. TypeOK BY DEF LeaseInv
<1>1. LosesNone BY <1>0, SMTT(30) DEF LosesNone, Tick, TypeOK
<1>2. TypeOK' BY <1>0, SMTT(30) DEF TypeOK, Tick
<1>3. UNCHANGED << leases, static, pc, scan, file >> BY DEF Tick
<1>4. InBlock' /\ StaticHold' /\ UntilBound' BY <1>1, LosesClientSide
<1>5. FileBacked' BY <1>1, <1>3, LosesFileBacked
<1>6. TableBacked' BY <1>1, <1>3, SameTableBacked
<1>7. Unique(leases)' /\ Unique(file.recs)' /\ Dynamic' /\ ScanInv' /\ LoadInv' /\ Down'
  BY <1>3, ServerSame
<1> QED BY <1>2, <1>4, <1>5, <1>6, <1>7 DEF LeaseInv

\* The clock moves back: every lease ends as much earlier as the clients' ends have moved.
LEMMA SetClockStep == ASSUME LeaseInv, SetClock PROVE LeaseInv'
<1>0. TypeOK BY DEF LeaseInv
<1>1. PICK t \in 1..MaxTime :
         /\ now' = t
         /\ client' = [c \in Clients |->
               [client[c] EXCEPT !.until = IF client[c].until + t < now THEN 0 ELSE client[c].until + t - now]]
         /\ excused' = IF t > now THEN excused \cup {c \in Clients : Live(c)} ELSE excused
  BY DEF SetClock
<1>2. UNCHANGED << leases, static, pc, scan, file, net, stops >> /\ faults' = faults + 1
  BY DEF SetClock
<1>3. t \in Nat \ {0} /\ now \in Nat \ {0} BY <1>0, UdhcpdAssumption, SMTT(30) DEF TypeOK
<1>4. ASSUME NEW d \in Clients
      PROVE  /\ client'[d] \in [st : {"init", "requesting", "bound"}, ip : Nat, until : Nat]
             /\ client'[d].st = client[d].st /\ client'[d].ip = client[d].ip
             /\ client'[d].until = IF client[d].until + t < now THEN 0 ELSE client[d].until + t - now
             /\ client[d].until \in Nat
  <2> DEFINE u == IF client[d].until + t < now THEN 0 ELSE client[d].until + t - now
  <2>1. /\ client[d] \in [st : {"init", "requesting", "bound"}, ip : Nat, until : Nat]
        /\ client[d].until \in Nat
    BY <1>0 DEF TypeOK
  <2>2. u \in Nat BY <2>1, <1>3, SMTT(30)
  <2>3. client'[d] = [client[d] EXCEPT !.until = u] BY <1>1
  <2> HIDE DEF u
  <2>4. /\ client'[d] \in [st : {"init", "requesting", "bound"}, ip : Nat, until : Nat]
        /\ client'[d].st = client[d].st /\ client'[d].ip = client[d].ip /\ client'[d].until = u
    BY <2>1, <2>2, <2>3
  <2> QED BY <2>1, <2>4 DEF u
<1>5. ASSUME NEW d \in Clients, Live(d)'
      PROVE  /\ Live(d) /\ client'[d].until = client[d].until + t - now
  <2>1. client'[d].st = "bound" /\ t < client'[d].until BY <1>1, <1>5 DEF Live, Bound
  <2>2. client'[d].until = client[d].until + t - now /\ now < client[d].until
    BY <2>1, <1>3, <1>4, SMTT(30)
  <2> QED BY <2>1, <2>2, <1>4 DEF Live, Bound
<1>6. ASSUME NEW d \in Clients, Entitled(d)'
      PROVE  Entitled(d) /\ t <= now
  <2>1. Live(d) /\ d \notin excused' /\ d \notin DOMAIN static BY <1>5, <1>6, <1>2 DEF Entitled
  <2>2. ~(t > now) /\ d \notin excused BY <2>1, <1>1
  <2>3. StaticAddrs' = StaticAddrs BY <1>2 DEF StaticAddrs
  <2> QED BY <2>1, <2>2, <2>3, <1>3, <1>4, <1>6, SMTT(30) DEF Entitled
<1>7. TypeOK'
  <2>1. client' \in [Clients -> [st : {"init", "requesting", "bound"}, ip : Nat, until : Nat]]
    BY <1>1, <1>4
  <2>2. reserved' \in [Addrs -> Nat] BY <1>0 DEF SetClock, TypeOK
  <2>3. excused' \subseteq Clients BY <1>0, <1>1 DEF TypeOK
  <2> QED BY <2>1, <2>2, <2>3, <1>0, <1>1, <1>2, <1>3, SMTT(30) DEF TypeOK
<1>8. InBlock' BY <1>4, <1>6 DEF LeaseInv, InBlock
<1>9. StaticHold'
  <2> SUFFICES ASSUME NEW d \in Clients, d \notin excused', d \in DOMAIN static', Live(d)'
               PROVE client'[d].ip = static'[d]
    BY DEF StaticHold
  <2>1. d \notin excused /\ Live(d) BY <1>1, <1>5
  <2> QED BY <2>1, <1>2, <1>4 DEF LeaseInv, StaticHold
<1>10. UntilBound'
  <2> SUFFICES ASSUME NEW d \in Clients, Live(d)'
               PROVE client'[d].until <= now' + select_lease_time(d)
    BY DEF UntilBound
  <2>1. Live(d) /\ client'[d].until = client[d].until + t - now BY <1>5
  <2>2. client[d].until <= now + select_lease_time(d) BY <2>1 DEF LeaseInv, UntilBound
  <2>3. select_lease_time(d) \in Nat BY LeaseTimeType
  <2> QED BY <2>1, <2>2, <2>3, <1>1, <1>3, <1>4, SMTT(30)
<1>11. FileBacked'
  <2> SUFFICES ASSUME NEW d \in Clients, Entitled(d)'
               PROVE  \E i \in Slots : /\ file'.recs[i].mac = d /\ file'.recs[i].nip = client'[d].ip
                                       /\ file'.at + file'.recs[i].expires >= client'[d].until
    BY DEF FileBacked, Holds
  <2>1. Entitled(d) /\ t <= now BY <1>6
  <2>2. PICK i \in Slots : Holds(file.recs[i], d) /\ file.at + file.recs[i].expires >= client[d].until
    BY <2>1 DEF LeaseInv, FileBacked
  <2>3. client'[d].until = client[d].until + t - now BY <1>5 DEF Entitled
  <2>4. file.at \in Nat /\ file.recs[i].expires \in Nat BY <1>0 DEF TypeOK, Table, Record
  <2>5. file.at + file.recs[i].expires >= client'[d].until
    BY <2>1, <2>2, <2>3, <2>4, <1>3, <1>4, SMTT(30)
  <2> QED BY <2>2, <2>5, <1>2, <1>4 DEF Holds
<1>12. TableBacked'
  <2> SUFFICES ASSUME NEW d \in Clients, Entitled(d)'
               PROVE  /\ Running' => InTable(d)'
                      /\ pc' = "load" => InTable(d)' \/ ToLoad(d)'
    BY DEF TableBacked, Running
  <2>1. Entitled(d) /\ t <= now BY <1>6
  <2>2. client'[d].until = client[d].until + t - now BY <1>5 DEF Entitled
  <2>3. InTable(d) => InTable(d)'
    <3> SUFFICES ASSUME NEW i \in Slots, Holds(leases[i], d), leases[i].expires >= client[d].until
                 PROVE  InTable(d)'
      BY DEF InTable
    <3>1. leases[i].expires \in Nat BY <1>0 DEF TypeOK, Table, Record
    <3>2. leases[i].expires >= client'[d].until BY <2>1, <2>2, <3>1, <1>3, <1>4, SMTT(30)
    <3> QED BY <3>2, <1>2, <1>4 DEF InTable, Holds
  <2>4. ToLoad(d) => ToLoad(d)'
    <3> SUFFICES ASSUME NEW i \in Slots, i >= file.next, Holds(file.recs[i], d),
                        now + file.recs[i].expires - file.passed >= client[d].until
                 PROVE  ToLoad(d)'
      BY DEF ToLoad
    <3>1. file.recs[i].expires \in Nat /\ file.passed \in Nat BY <1>0 DEF TypeOK, Table, Record
    <3>2. t + file.recs[i].expires - file.passed >= client'[d].until
      BY <2>2, <3>1, <1>3, <1>4, SMTT(30)
    <3> QED BY <3>2, <1>1, <1>2, <1>4, SMTT(30) DEF ToLoad, Holds
  <2> QED BY <2>1, <2>3, <2>4, <1>2 DEF LeaseInv, TableBacked, Running
<1>13. Unique(leases)' /\ Unique(file.recs)' /\ Dynamic' /\ ScanInv' /\ LoadInv' /\ Down'
  BY <1>2, ServerSame
<1> QED BY <1>7, <1>8, <1>9, <1>10, <1>11, <1>12, <1>13 DEF LeaseInv

----------------------------------------------------------------------------
\* Steps of the server.

\* The OFFER, and the lease reserved for it.
LEMMA OfferFacts ==
  ASSUME TypeOK, NEW c \in Clients, NEW ip \in Nat, OfferTo(c, ip) \/ UNCHANGED << net, client >>
  PROVE  /\ net' \subseteq Messages /\ client' \in ClientType
         /\ \A d \in Clients : client'[d] = client[d] \/ client'[d].st # "bound"
         /\ ~Live(c) => client'[c] = client[c] \/ client'[c].st # "bound"
<1>0. net \subseteq Messages /\ client \in ClientType BY DEF TypeOK, Messages, ClientType
<1>1. CASE UNCHANGED << net, client >> BY <1>0, <1>1
<1>2. CASE OfferTo(c, ip) /\ ~(UNCHANGED << net, client >>)
  <2> DEFINE r == [st |-> "requesting", ip |-> ip, until |-> 0]
             m == Msg("REQUEST", c, ip, 0)
  <2>1. client' = [client EXCEPT ![c] = r] /\ net' = net \cup {m} BY <1>2 DEF OfferTo, Post
  <2>2. m \in Messages BY DEF Msg, Messages
  <2>3. net' \subseteq Messages BY <2>1, <2>2, <1>0
  <2>4. r \in [st : {"init", "requesting", "bound"}, ip : Nat, until : Nat] /\ r.st # "bound" OBVIOUS
  <2> HIDE DEF r
  <2>5. client' \in ClientType /\ \A d \in Clients : client'[d] = client[d] \/ client'[d].st # "bound"
    BY <2>1, <2>4, <1>0 DEF ClientType
  <2> QED BY <2>3, <2>5
<1> QED BY <1>1, <1>2

\* A server step that adds one lease and leaves the file alone.
LEMMA AddStep ==
  ASSUME LeastNumber, LeaseInv, LosesNone, Running, Running', now' = now, file' = file, TypeOK',
         NEW mac \in Clients \cup {Null}, NEW nip \in Nat \ {0}, NEW time \in Nat,
         leases' = add_lease(leases, mac, nip, time),
         mac \in Clients => ~Entitled(mac)' /\ (mac \in DOMAIN static \/ nip \in Addrs),
         \A i \in Slots : leases[i].nip = nip => leases[i].mac = mac \/ leases[i].expires < now
                                                 \/ nip \in StaticAddrs,
         ScanInv'
  PROVE  LeaseInv'
<1>0. leases \in Table /\ now \in Nat \ {0} /\ Unique(leases) /\ static' = static
  BY DEF LeaseInv, TypeOK, LosesNone
<1>1. mac \in Clients \cup {NoMac, Null} OBVIOUS
<1>2. Unique(leases)' BY <1>0, <1>1, AddUnique, SMTT(30) DEF Unique
<1>3. Unique(file.recs)' BY DEF LeaseInv
<1>4. InBlock' /\ StaticHold' /\ UntilBound' BY LosesClientSide
<1>5. FileBacked' BY LosesFileBacked
<1>6. TableBacked' BY AddBacked
<1>7. Dynamic'
  <2> DEFINE s == slot_for(leases, mac, nip)
  <2>1. Added(leases, leases', s, mac, nip, time) BY <1>0, AddFacts
  <2> HIDE DEF s
  <2> SUFFICES ASSUME NEW i \in Slots, leases'[i].mac \notin DOMAIN static \cup {NoMac}
               PROVE  leases'[i].nip \in Addrs
    BY <1>0 DEF Dynamic
  <2>2. CASE i = s
    <3>1. leases'[i] = NewLease(mac, nip, time) BY <2>1, <2>2 DEF Added
    <3> QED BY <3>1, SMTT(30) DEF NewLease
  <2>3. CASE i # s
    <3>1. leases'[i] = Empty \/ leases'[i] = leases[i] BY <2>1, <2>3 DEF Added
    <3>2. leases'[i] = leases[i] BY <3>1, SMTT(30) DEF Empty
    <3> QED BY <3>2 DEF LeaseInv, Dynamic
  <2> QED BY <2>2, <2>3
<1>8. LoadInv' /\ Down' BY DEF LoadInv, Down, Running
<1> QED BY <1>2, <1>4, <1>5, <1>6, <1>7, <1>8 DEF LeaseInv

\* A server step that changes neither table nor file.
LEMMA QuietStep ==
  ASSUME LeaseInv, LosesNone, Running, Running', now' = now, UNCHANGED << file, leases >>, TypeOK', ScanInv'
  PROVE  LeaseInv'
<1>1. InBlock' /\ StaticHold' /\ UntilBound' BY LosesClientSide
<1>2. FileBacked' BY LosesFileBacked
<1>3. TableBacked' BY LosesTableBacked
<1>4. Unique(leases)' /\ Unique(file.recs)' BY DEF LeaseInv
<1>5. Dynamic' BY DEF LeaseInv, Dynamic, LosesNone
<1>6. LoadInv' /\ Down' BY DEF LoadInv, Down, Running
<1> QED BY <1>1, <1>2, <1>3, <1>5, <1>6 DEF LeaseInv

\* send_offer up to the search: the client that asks for an address has none to lose.
LEMMA RecvDiscoverStep == ASSUME LeastNumber, LeaseInv, NEW m \in net, RecvDiscover(m) PROVE LeaseInv'
<1> DEFINE c == m.mac
           mine == find_lease_by_mac(c)
<1>0. TypeOK /\ leases \in Table /\ now \in Nat \ {0} BY DEF LeaseInv, TypeOK
<1>1. m \in Messages /\ c \in Clients /\ m.req \in Nat BY <1>0 DEF TypeOK, Messages
<1>2. /\ pc = "idle" /\ UNCHANGED << static, now, stops, faults, file, reserved >>
      /\ excused' = IF Live(c) THEN excused \cup {c} ELSE excused
  BY DEF RecvDiscover, Received, Stale
<1>3. Running /\ excused \subseteq excused' /\ excused' \subseteq Clients
  BY <1>0, <1>2 DEF Running, TypeOK
<1>f. /\ mine \in 0..MaxLeases /\ (mine # 0 => mine \in Slots /\ leases[mine].mac = c)
      /\ (mine = 0 => \A i \in Slots : leases[i].mac # c)
  BY <1>0, FindMac
<1>n. c # NoMac /\ c # Null BY <1>1, UdhcpdAssumption
<1> HIDE DEF mine
<1>4. ASSUME NEW ip \in Nat, OfferTo(c, ip) \/ UNCHANGED << net, client >>, leases' \in Table,
             UNCHANGED << pc, scan >>
      PROVE  LosesNone /\ TypeOK' /\ ScanInv' /\ Running' /\ ~Entitled(c)'
  <2>1. /\ net' \subseteq Messages /\ client' \in ClientType
        /\ \A d \in Clients : client'[d] = client[d] \/ client'[d].st # "bound"
    BY <1>0, <1>1, <1>4, OfferFacts
  <2>2. LosesNone BY <2>1, <1>0, <1>2, <1>3, SMTT(30) DEF LosesNone
  <2>3. TypeOK' BY <2>1, <1>0, <1>2, <1>3, <1>4 DEF TypeOK, Messages, ClientType
  <2>4. ScanInv' BY <1>2, <1>4 DEF ScanInv
  <2>5. ~Entitled(c)'
    <3> SUFFICES ASSUME Entitled(c)' PROVE FALSE OBVIOUS
    <3>1. Live(c)' /\ c \notin excused' BY DEF Entitled
    <3>2. Live(c) BY <3>1, <1>0, <1>1, <2>2, LosesLive
    <3> QED BY <3>1, <3>2, <1>2
  <2> QED BY <2>2, <2>3, <2>4, <2>5, <1>3, <1>4 DEF Running
<1>5. CASE c \in DOMAIN static /\ OfferTo(c, static[c]) /\ UNCHANGED << leases, pc, scan >>
  <2>1. static[c] \in Nat BY <1>0, <1>5, StaticType DEF TypeOK
  <2>2. LosesNone /\ TypeOK' /\ ScanInv' /\ Running' BY <2>1, <1>0, <1>4, <1>5
  <2> QED BY <2>2, <1>2, <1>3, <1>5, QuietStep
<1>6. ASSUME NEW ip \in Addrs, c \notin DOMAIN static, OfferDynamic(c, ip), UNCHANGED << pc, scan >>,
             \A i \in Slots : leases[i].nip = ip => leases[i].mac = c \/ leases[i].expires < now
      PROVE  LeaseInv'
  <2>1. ip \in Nat \ {0} BY UdhcpdAssumption, SMTT(30) DEF Addrs
  <2>2. leases' = add_lease(leases, c, ip, OfferTime) /\ (OfferTo(c, ip) \/ UNCHANGED << net, client >>)
    BY <1>6 DEF OfferDynamic
  <2>3. OfferTime \in Nat BY UdhcpdAssumption
  <2>4. c \in Clients \cup {NoMac, Null} BY <1>1
  <2>5. Added(leases, leases', slot_for(leases, c, ip), c, ip, OfferTime)
    BY <2>1, <2>2, <2>3, <2>4, <1>0, AddFacts
  <2>6. leases' \in Table BY <2>5 DEF Added
  <2>7. LosesNone /\ TypeOK' /\ ScanInv' /\ Running' /\ ~Entitled(c)'
    BY <2>1, <2>2, <2>6, <1>4, <1>6
  <2>8. c \in Clients \cup {Null} BY <1>1
  <2> QED BY <2>1, <2>2, <2>3, <2>7, <2>8, <1>2, <1>3, <1>6, AddStep
<1>7. CASE c \notin DOMAIN static /\ mine # 0 /\ OfferDynamic(c, leases[mine].nip) /\ UNCHANGED << pc, scan >>
  <2>1. leases[mine].nip \in Addrs BY <1>f, <1>7, <1>n DEF LeaseInv, Dynamic
  <2>2. Addrs \subseteq Nat \ {0} BY SMTT(30) DEF Addrs
  <2>3. \A i \in Slots : leases[i].nip = leases[mine].nip => leases[i].mac = c
    BY <1>f, <1>7, <2>1, <2>2 DEF LeaseInv, Unique
  <2> QED BY <2>1, <2>3, <1>6, <1>7
<1>8. CASE c \notin DOMAIN static /\ requested_free(m.req) /\ OfferDynamic(c, m.req) /\ UNCHANGED << pc, scan >>
  <2>1. m.req \in Addrs BY <1>8 DEF requested_free
  <2>2. ASSUME NEW i \in Slots, leases[i].nip = m.req PROVE leases[i].expires < now
    <3> DEFINE k == find_lease_by_nip(m.req)
    <3>1. /\ (k # 0 => k \in Slots /\ leases[k].nip = m.req)
          /\ (k = 0 => \A j \in Slots : leases[j].nip # m.req)
      BY <1>0, FindNip
    <3>2. k # 0 => leases[k].expires < now BY <1>8 DEF requested_free, is_expired_lease
    <3> HIDE DEF k
    <3>3. k # 0 BY <3>1, <2>2
    <3>4. m.req # 0 BY <2>1, SMTT(30) DEF Addrs
    <3>5. k = i BY <3>1, <3>4, <2>2 DEF LeaseInv, Unique
    <3> QED BY <3>2, <3>3, <3>5
  <2> QED BY <2>1, <2>2, <1>6, <1>8
<1>9. CASE /\ c \notin DOMAIN static /\ mine = 0
           /\ pc' = "scan" /\ scan' = [mac |-> c, addr |-> 1, oldest |-> 0]
           /\ UNCHANGED << leases, net, client >>
  <2>1. LosesNone BY <1>0, <1>2, <1>3, <1>9, SMTT(30) DEF LosesNone, TypeOK
  <2>2. scan' \in [mac : Clients \cup {Null}, addr : Nat, oldest : 0..MaxLeases]
    BY <1>1, <1>9, UdhcpdAssumption, SMTT(30)
  <2>3. TypeOK' BY <2>2, <1>0, <1>2, <1>3, <1>9 DEF TypeOK
  <2>4. ScanInv' BY <1>1, <1>2, <1>9, <1>f, SMTT(30) DEF ScanInv
  <2>5. Running' BY <1>9 DEF Running
  <2> QED BY <2>1, <2>3, <2>4, <2>5, <1>2, <1>3, <1>9, QuietStep
<1> QED BY <1>5, <1>7, <1>8, <1>9 DEF RecvDiscover, mine

\* A file just written backs whatever the table does.
LEMMA WriteBacked ==
  ASSUME NEW t \in Table, now \in Nat \ {0}, client' \in ClientType, Unique(t), file' = write_leases(t),
         \A d \in Clients : Entitled(d)' => \E i \in Slots :
           t[i].mac = d /\ t[i].nip = client'[d].ip /\ t[i].expires >= client'[d].until
  PROVE  /\ FileBacked' /\ Unique(file.recs)'
         /\ file' \in [at : Nat, recs : Table, next : Nat, passed : Nat]
<1>1. /\ file' \in [at : Nat, recs : Table, next : Nat, passed : Nat]
      /\ Unique(t) => Unique(file'.recs)
      /\ file'.at = now
      /\ \A i \in Slots :
           /\ file'.recs[i].mac = t[i].mac /\ file'.recs[i].nip = t[i].nip
           /\ now + file'.recs[i].expires >= t[i].expires
  BY WriteFacts
<1>2. Unique(file.recs)' BY <1>1
<1>3. FileBacked'
  <2> SUFFICES ASSUME NEW d \in Clients, Entitled(d)'
               PROVE  \E i \in Slots : /\ file'.recs[i].mac = d /\ file'.recs[i].nip = client'[d].ip
                                       /\ file'.at + file'.recs[i].expires >= client'[d].until
    BY DEF FileBacked, Holds
  <2>1. PICK i \in Slots : t[i].mac = d /\ t[i].nip = client'[d].ip /\ t[i].expires >= client'[d].until
    OBVIOUS
  <2>2. t[i].expires \in Nat /\ client'[d].until \in Nat /\ file'.recs[i].expires \in Nat
    BY <1>1 DEF Table, Record, ClientType
  <2>3. now + file'.recs[i].expires >= client'[d].until BY <2>1, <2>2, <1>1, SMTT(30)
  <2> QED BY <2>1, <2>3, <1>1, SMTT(30)
<1> QED BY <1>1, <1>3

----------------------------------------------------------------------------
(***************************************************************************)
(* LeaseInv through the search for a free address and the messages         *)
(* REQUEST, DECLINE and RELEASE; and the reservations of the addresses     *)
(* that were declined or answered a probe.                                 *)
(***************************************************************************)

\* The search: what a probe or an OFFER of it needs.
LEMMA ScanOffer ==
  ASSUME LeastNumber, LeaseInv, pc = "scan", NEW ip \in Addrs, OfferDynamic(scan.mac, ip),
         pc' = "idle", scan' = NoScan, UNCHANGED << static, now, file, excused, stops, faults, reserved >>,
         \A i \in Slots : leases[i].nip = ip => leases[i].expires < now
  PROVE  LeaseInv'
<1>0. TypeOK /\ leases \in Table /\ now \in Nat \ {0} BY DEF LeaseInv, TypeOK
<1>c. PICK c \in Clients : c = scan.mac BY DEF LeaseInv, ScanInv
<1>1. c \in Clients /\ c \notin DOMAIN static /\ \A i \in Slots : leases[i].mac # c
  BY <1>c DEF LeaseInv, ScanInv
<1>2. ip \in Nat \ {0} /\ OfferTime \in Nat BY UdhcpdAssumption, SMTT(30) DEF Addrs
<1>3. leases' = add_lease(leases, c, ip, OfferTime) /\ (OfferTo(c, ip) \/ UNCHANGED << net, client >>)
  BY <1>c DEF OfferDynamic
<1>4. Added(leases, leases', slot_for(leases, c, ip), c, ip, OfferTime)
  BY <1>0, <1>2, <1>3, AddFacts
<1>5. leases' \in Table BY <1>4 DEF Added
<1>6. /\ net' \subseteq Messages /\ client' \in ClientType
      /\ \A d \in Clients : client'[d] = client[d] \/ client'[d].st # "bound"
  BY <1>0, <1>2, <1>3, OfferFacts
<1>7. LosesNone BY <1>6, <1>0, SMTT(30) DEF LosesNone
<1>8. NoScan \in [mac : Clients \cup {Null}, addr : Nat, oldest : 0..MaxLeases]
  BY UdhcpdAssumption, SMTT(30) DEF NoScan
<1>9. TypeOK' BY <1>5, <1>6, <1>8, <1>0 DEF TypeOK, Messages, ClientType
<1>10. ScanInv' BY DEF ScanInv
<1>11. Running /\ Running' BY DEF Running
<1>12. ~Entitled(c)'
  <2> SUFFICES ASSUME Entitled(c)' PROVE FALSE OBVIOUS
  <2>1. Entitled(c) BY <1>0, <1>7, LosesEntitled
  <2>2. InTable(c) BY <2>1 DEF LeaseInv, TableBacked
  <2> QED BY <2>2, <1>1 DEF InTable, Holds
<1> QED BY <1>0, <1>1, <1>2, <1>3, <1>7, <1>9, <1>10, <1>11, <1>12, AddStep, SMTT(30)

\* A probe was answered: the address is reserved, and no entitled client has it.
LEMMA ScanConflict ==
  ASSUME LeastNumber, LeaseInv, pc = "scan", NEW ip \in Addrs, Conflict(ip), pc' \in {"idle", "scan"},
         scan' \in [mac : Clients \cup {Null}, addr : Nat, oldest : 0..MaxLeases],
         UNCHANGED << static, now, file, excused, stops, faults, net, client >>,
         pc' = "scan" => /\ scan'.mac = scan.mac /\ scan'.addr >= 1 /\ scan'.oldest = scan.oldest
                         /\ \A i \in Slots : leases[i].nip # ip,
         \A i \in Slots : leases[i].nip = ip => leases[i].expires < now
  PROVE  LeaseInv'
<1> DEFINE s == slot_for(leases, Null, ip)
<1>0. TypeOK /\ leases \in Table /\ now \in Nat \ {0} BY DEF LeaseInv, TypeOK
<1>2. ip \in Nat \ {0} /\ ConflictTime \in Nat BY UdhcpdAssumption, SMTT(30) DEF Addrs
<1>3. leases' = add_lease(leases, Null, ip, ConflictTime) BY DEF Conflict
<1>4. Added(leases, leases', s, Null, ip, ConflictTime) BY <1>0, <1>2, <1>3, AddFacts
<1>5. leases' \in Table BY <1>4 DEF Added
<1>r. reserved' \in [Addrs -> Nat] BY <1>0, <1>2, SMTT(30) DEF Conflict, TypeOK
<1> HIDE DEF s
<1>7. LosesNone BY <1>0, SMTT(30) DEF LosesNone
<1>9. TypeOK' BY <1>5, <1>r, <1>0 DEF TypeOK
<1>10. ScanInv'
  <2> SUFFICES ASSUME pc' = "scan"
               PROVE  /\ \A i \in Slots : leases'[i].mac # scan.mac
                      /\ scan.oldest # 0 => leases'[scan.oldest].nip \in Addrs
    BY DEF ScanInv, LeaseInv
  <2>1. scan.mac \in Clients /\ (\A i \in Slots : leases[i].mac # scan.mac) /\
        (scan.oldest # 0 => leases[scan.oldest].nip \in Addrs) BY DEF LeaseInv, ScanInv
  <2>2. \A i \in Slots : ~Match(leases[i], Null, ip) BY DEF Match
  <2>3. \A i \in Slots : leases'[i] = leases[i] \/ leases'[i] = NewLease(Null, ip, ConflictTime)
    BY <1>4, <2>2 DEF Added
  <2>4. NewLease(Null, ip, ConflictTime).mac = NoMac /\ NewLease(Null, ip, ConflictTime).nip = ip
    BY DEF NewLease
  <2>5. NoMac \notin Clients BY UdhcpdAssumption
  <2>6. scan.oldest # 0 => scan.oldest \in Slots
    BY <1>0, UdhcpdAssumption, SMTT(30) DEF TypeOK, Slots
  <2> QED BY <2>1, <2>3, <2>4, <2>5, <2>6
<1>11. Running /\ Running' BY DEF Running
<1>12. Null \notin Clients BY UdhcpdAssumption
<1> QED BY <1>2, <1>3, <1>7, <1>9, <1>10, <1>11, <1>12, AddStep

\* One address of find_free_or_expired_nip.
LEMMA ScanStep == ASSUME LeastNumber, LeaseInv, Scan PROVE LeaseInv'
<1> DEFINE a == scan.addr
           s == find_lease_by_nip(a)
<1>0. TypeOK /\ leases \in Table BY DEF LeaseInv, TypeOK
<1>1. pc = "scan" /\ a <= Last /\ UNCHANGED << static, now, file, excused, stops, faults >>
  BY DEF Scan
<1>2. a \in Addrs /\ a \in Nat /\ scan \in [mac : Clients \cup {Null}, addr : Nat, oldest : 0..MaxLeases]
  BY <1>0, <1>1, UdhcpdAssumption, SMTT(30) DEF TypeOK, LeaseInv, ScanInv, Addrs
<1>3. /\ s \in 0..MaxLeases /\ (s # 0 => s \in Slots /\ leases[s].nip = a)
      /\ (s = 0 => \A j \in Slots : leases[j].nip # a)
  BY <1>0, FindNip
<1>a. a >= 1 /\ a + 1 >= 1 /\ a + 1 \in Nat BY <1>2, <1>1, SMTT(30) DEF LeaseInv, ScanInv
<1>4. ASSUME NEW o \in 0..MaxLeases, scan' = [scan EXCEPT !.addr = a + 1, !.oldest = o],
             o # 0 => leases[o].nip \in Addrs,
             UNCHANGED << leases, reserved, pc, net, client >>
      PROVE  LeaseInv'
  <2>1. /\ scan' \in [mac : Clients \cup {Null}, addr : Nat, oldest : 0..MaxLeases]
        /\ scan'.mac = scan.mac /\ scan'.addr = a + 1 /\ scan'.oldest = o
    BY <1>2, <1>4, <1>a
  <2>2. LosesNone BY <1>0, <1>1, <1>4, SMTT(30) DEF LosesNone, TypeOK
  <2>3. TypeOK' BY <2>1, <1>0, <1>1, <1>4 DEF TypeOK
  <2>4. ScanInv' BY <2>1, <1>1, <1>4, <1>a, SMTT(30) DEF LeaseInv, ScanInv, Addrs
  <2>5. Running /\ Running' BY <1>1, <1>4 DEF Running
  <2> QED BY <2>2, <2>3, <2>4, <2>5, <1>1, <1>4, QuietStep
<1>o. scan.oldest \in 0..MaxLeases /\ (scan.oldest # 0 => leases[scan.oldest].nip \in Addrs)
  BY <1>1, <1>2 DEF LeaseInv, ScanInv
<1>5. CASE scan' = [scan EXCEPT !.addr = a + 1] /\ UNCHANGED << leases, reserved, pc, net, client >>
  <2>1. scan' = [scan EXCEPT !.addr = a + 1, !.oldest = scan.oldest] BY <1>5
  <2> QED BY <1>4, <1>5, <1>o
<1>6. CASE /\ s # 0 /\ UNCHANGED << leases, reserved, pc, net, client >>
           /\ \E o \in {s, scan.oldest} : scan' = [scan EXCEPT !.addr = a + 1, !.oldest = o]
  <2>1. PICK o \in {s, scan.oldest} : scan' = [scan EXCEPT !.addr = a + 1, !.oldest = o] BY <1>6
  <2>2. o \in 0..MaxLeases /\ (o # 0 => leases[o].nip \in Addrs) BY <1>2, <1>3, <1>o
  <2> QED BY <2>1, <2>2, <1>4, <1>6
<1>7. CASE s = 0 /\ Conflict(a) /\ scan' = [scan EXCEPT !.addr = a + 1] /\ UNCHANGED << pc, net, client >>
  <2>1. /\ scan' \in [mac : Clients \cup {Null}, addr : Nat, oldest : 0..MaxLeases]
        /\ scan'.mac = scan.mac /\ scan'.addr >= 1 /\ scan'.oldest = scan.oldest
    BY <1>2, <1>7, <1>a, SMTT(30)
  <2>2. \A i \in Slots : leases[i].nip # a BY <1>3, <1>7
  <2> QED BY <2>1, <2>2, <1>1, <1>2, <1>7, ScanConflict, SMTT(30)
<1>8. CASE s = 0 /\ OfferDynamic(scan.mac, a) /\ pc' = "idle" /\ scan' = NoScan /\ UNCHANGED reserved
  <2>1. \A i \in Slots : leases[i].nip # a BY <1>3, <1>8
  <2> QED BY <2>1, <1>1, <1>2, <1>8, ScanOffer
<1> HIDE DEF LeaseInv
<1> QED BY <1>5, <1>6, <1>7, <1>8 DEF Scan

\* The end of find_free_or_expired_nip: the oldest lease, if it has expired.
LEMMA ScanEndStep == ASSUME LeastNumber, LeaseInv, ScanEnd PROVE LeaseInv'
<1> DEFINE ip == leases[scan.oldest].nip
<1>0. TypeOK /\ leases \in Table /\ now \in Nat \ {0} BY DEF LeaseInv, TypeOK
<1>1. /\ pc = "scan" /\ pc' = "idle" /\ scan' = NoScan
      /\ UNCHANGED << static, now, file, excused, stops, faults >>
  BY DEF ScanEnd
<1>2. NoScan \in [mac : Clients \cup {Null}, addr : Nat, oldest : 0..MaxLeases]
  BY UdhcpdAssumption, SMTT(30) DEF NoScan
<1>3. CASE UNCHANGED << leases, reserved, net, client >>
  <2>2. LosesNone BY <1>0, <1>1, <1>3, SMTT(30) DEF LosesNone, TypeOK
  <2>3. TypeOK' BY <1>2, <1>0, <1>1, <1>3 DEF TypeOK
  <2>4. ScanInv' BY <1>1 DEF ScanInv
  <2>5. Running /\ Running' BY <1>1 DEF Running
  <2> QED BY <2>2, <2>3, <2>4, <2>5, <1>1, <1>3, QuietStep
<1>4. ASSUME scan.oldest # 0, is_expired_lease(leases[scan.oldest])
      PROVE  ip \in Addrs /\ \A i \in Slots : leases[i].nip = ip => leases[i].expires < now
  <2>1. ip \in Addrs BY <1>1, <1>4 DEF LeaseInv, ScanInv
  <2>2. scan.oldest \in Slots BY <1>0, <1>4, UdhcpdAssumption, SMTT(30) DEF TypeOK, Slots
  <2>3. ip # 0 BY <2>1, SMTT(30) DEF Addrs
  <2>4. \A i \in Slots : leases[i].nip = ip => i = scan.oldest BY <2>2, <2>3 DEF LeaseInv, Unique
  <2> QED BY <2>1, <2>4, <1>4 DEF is_expired_lease
<1>5. CASE /\ scan.oldest # 0 /\ is_expired_lease(leases[scan.oldest])
           /\ Conflict(ip) /\ UNCHANGED << net, client >>
  BY <1>1, <1>2, <1>4, <1>5, ScanConflict
<1>6. CASE /\ scan.oldest # 0 /\ is_expired_lease(leases[scan.oldest])
           /\ OfferDynamic(scan.mac, ip) /\ UNCHANGED reserved
  BY <1>1, <1>4, <1>6, ScanOffer
<1> QED BY <1>3, <1>5, <1>6 DEF ScanEnd

\* The ACK: the lease is in the table and in the file for as long as the client was told.
Ack(c, nip) ==
  /\ pc = "idle" /\ HasLease(c) /\ LeaseNip(c) = nip
  /\ leases' = add_lease(leases, c, nip, select_lease_time(c)) /\ file' = write_leases(leases')
  /\ \/ /\ client' = [client EXCEPT ![c] = [st |-> "bound", ip |-> nip,
                                            until |-> now + select_lease_time(c)]]
        /\ excused' = excused \ {c}
     \/ UNCHANGED << client, excused >>
  /\ UNCHANGED << static, now, stops, faults, pc, scan, net, reserved >>

\* send_ACK keeps the invariant.
LEMMA AckStep ==
  ASSUME LeastNumber, LeaseInv, NEW c \in Clients, NEW nip, Ack(c, nip) PROVE LeaseInv'
<1> DEFINE time == select_lease_time(c)
           mine == find_lease_by_mac(c)
           s == slot_for(leases, c, nip)
<1>a. pc = "idle" /\ pc' = pc /\ static' = static /\ now' = now BY DEF Ack
<1>b. leases' = add_lease(leases, c, nip, time) /\ file' = write_leases(leases') BY DEF Ack
<1>c. \/ /\ client' = [client EXCEPT ![c] = [st |-> "bound", ip |-> nip, until |-> now + time]]
         /\ excused' = excused \ {c}
      \/ client' = client /\ excused' = excused
  BY DEF Ack
<1>d. UNCHANGED << stops, faults, scan, net, reserved >> BY DEF Ack
<1>e. /\ c \in DOMAIN static => nip = static[c]
      /\ c \notin DOMAIN static => mine # 0 /\ leases[mine].nip = nip
  BY DEF Ack, HasLease, LeaseNip
<1>0. TypeOK /\ leases \in Table /\ now \in Nat \ {0} /\ client \in ClientType /\ Unique(leases)
  BY DEF LeaseInv, TypeOK, ClientType
<1>1. time \in Nat BY LeaseTimeType
<1>2. c # NoMac /\ c # Null BY UdhcpdAssumption
<1>3. (mine # 0 => mine \in Slots /\ leases[mine].mac = c) BY <1>0, FindMac
<1>4. c \notin DOMAIN static => /\ mine \in Slots /\ leases[mine].mac = c /\ leases[mine].nip = nip
                                /\ nip \in Addrs
  BY <1>e, <1>2, <1>3 DEF LeaseInv, Dynamic
<1>5. nip \in Nat \ {0}
  <2>1. CASE c \in DOMAIN static BY <2>1, <1>0, <1>e, StaticType, SMTT(30) DEF TypeOK
  <2>2. CASE c \notin DOMAIN static BY <2>2, <1>4, SMTT(30) DEF Addrs
  <2> QED BY <2>1, <2>2
<1>6. c \in Clients \cup {NoMac, Null} OBVIOUS
<1>7. Added(leases, leases', s, c, nip, time) BY <1>b, <1>0, <1>1, <1>5, AddFacts
<1>8. Unique(leases)' BY <1>b, <1>0, <1>1, <1>5, AddUnique
<1> HIDE DEF s, time, mine
<1>9. leases' \in Table BY <1>7 DEF Added
<1>10. now + time \in Nat BY <1>0, <1>1, SMTT(30)
<1>11. client' \in ClientType
  BY <1>c, <1>0, <1>5, <1>10, SMTT(30) DEF ClientType
<1>12. ASSUME NEW d \in Clients, d # c
       PROVE  client'[d] = client[d] /\ (d \in excused <=> d \in excused')
  BY <1>c, <1>0, <1>12 DEF ClientType
<1>13. StaticAddrs' = StaticAddrs BY <1>a DEF StaticAddrs
<1>14. ASSUME NEW d \in Clients, d # c, Live(d)' PROVE Live(d)
  BY <1>a, <1>12, <1>14 DEF Live, Bound
<1>15. ASSUME NEW d \in Clients, d # c, Entitled(d)' PROVE Entitled(d)
  BY <1>a, <1>12, <1>13, <1>14, <1>15 DEF Entitled
<1>16. ASSUME Live(c)'
       PROVE  \/ client'[c].ip = nip /\ client'[c].until = now + time
              \/ client'[c] = client[c] /\ excused' = excused /\ Live(c)
  BY <1>a, <1>c, <1>0, <1>16, SMTT(30) DEF ClientType, Live, Bound
<1>17. ASSUME NEW d \in Clients, d # c, Entitled(d)', NEW i \in Slots,
              Holds(leases[i], d), leases[i].expires >= client[d].until
       PROVE  leases'[i] = leases[i]
  <2>1. Entitled(d) BY <1>15, <1>17
  <2>2. now < client[d].until /\ client[d].ip \notin StaticAddrs BY <2>1 DEF Entitled, Live
  <2>3. client[d].until \in Nat /\ leases[i].expires \in Nat BY <1>0 DEF ClientType, Table, Record
  <2>4. ~(leases[i].expires < now) BY <2>2, <2>3, <1>0, <1>17, SMTT(30)
  <2>5. leases[i].mac = d /\ leases[i].nip = client[d].ip BY <1>17 DEF Holds
  <2>6. leases[i].nip # nip
    <3>1. CASE c \in DOMAIN static BY <3>1, <2>2, <2>5, <1>e DEF StaticAddrs
    <3>2. CASE c \notin DOMAIN static
      BY <3>2, <2>5, <1>4, <1>0, <1>5, <1>17 DEF Unique
    <3> QED BY <3>1, <3>2
  <2>7. ~Match(leases[i], c, nip) BY <2>5, <2>6, <1>17 DEF Match
  <2> QED BY <2>4, <2>7, <1>7 DEF Added
<1>18. c \notin DOMAIN static => s \in Slots /\ leases'[s] = NewLease(c, nip, time)
  <2> SUFFICES ASSUME c \notin DOMAIN static PROVE s \in Slots /\ leases'[s] = NewLease(c, nip, time)
    OBVIOUS
  <2>1. Match(leases[mine], c, nip) BY <1>4 DEF Match
  <2>2. s # 0 /\ s \in 0..MaxLeases BY <2>1, <1>4, <1>7 DEF Added
  <2>3. s \in Slots BY <2>2, UdhcpdAssumption, SMTT(30) DEF Slots
  <2> QED BY <2>3, <1>7 DEF Added
<1>19. Entitled(c)' => client'[c].ip = nip /\ client'[c].until <= now + time
  <2> SUFFICES ASSUME Entitled(c)' PROVE client'[c].ip = nip /\ client'[c].until <= now + time OBVIOUS
  <2>1. Live(c)' /\ c \notin DOMAIN static /\ c \notin excused' /\ client'[c].ip \notin StaticAddrs
    BY <1>a, <1>13 DEF Entitled
  <2>2. CASE client'[c].ip = nip /\ client'[c].until = now + time BY <2>2, <1>10, SMTT(30)
  <2>3. CASE client'[c] = client[c] /\ excused' = excused /\ Live(c)
    <3>1. Entitled(c) BY <2>1, <2>3 DEF Entitled
    <3>2. PICK i \in Slots : leases[i].mac = c /\ leases[i].nip = client[c].ip
      BY <3>1, <1>a DEF LeaseInv, TableBacked, InTable, Holds
    <3>3. i = mine BY <3>2, <2>1, <1>2, <1>4, <1>0 DEF Unique
    <3>4. client[c].until <= now + time BY <2>3 DEF LeaseInv, UntilBound, time
    <3> QED BY <3>2, <3>3, <3>4, <2>1, <2>3, <1>4
  <2> QED BY <2>1, <2>2, <2>3, <1>16
<1>20. ASSUME NEW d \in Clients, Entitled(d)'
       PROVE  \E i \in Slots : /\ leases'[i].mac = d /\ leases'[i].nip = client'[d].ip
                               /\ leases'[i].expires >= client'[d].until
  <2>1. CASE d = c
    <3>1. s \in Slots /\ leases'[s] = NewLease(c, nip, time)
      BY <2>1, <1>18, <1>20, <1>a DEF Entitled
    <3>2. leases'[s].mac = c /\ leases'[s].nip = nip /\ leases'[s].expires = now + time
      BY <3>1, <1>2, SMTT(30) DEF NewLease
    <3>3. client'[c].ip = nip /\ client'[c].until <= now + time BY <2>1, <1>19, <1>20
    <3>4. client'[c].until \in Nat BY <1>11 DEF ClientType
    <3>5. now + time >= client'[c].until BY <3>3
    <3> QED BY <2>1, <3>1, <3>2, <3>3
  <2>2. CASE d # c
    <3>1. Entitled(d) /\ client'[d] = client[d] BY <2>2, <1>12, <1>15, <1>20
    <3>2. PICK i \in Slots : Holds(leases[i], d) /\ leases[i].expires >= client[d].until
      BY <3>1, <1>a DEF LeaseInv, TableBacked, InTable
    <3>3. leases'[i] = leases[i] BY <2>2, <3>2, <1>17, <1>20
    <3> QED BY <3>1, <3>2, <3>3 DEF Holds
  <2> QED BY <2>1, <2>2
<1>21. TableBacked' BY <1>20 DEF TableBacked, InTable, Holds
<1>22. /\ FileBacked' /\ Unique(file.recs)'
       /\ file' \in [at : Nat, recs : Table, next : Nat, passed : Nat]
  BY <1>b, <1>0, <1>8, <1>9, <1>11, <1>20, WriteBacked
<1>23. TypeOK'
  <2>1. excused' \subseteq Clients BY <1>c, <1>0 DEF TypeOK
  <2> QED BY <2>1, <1>a, <1>d, <1>0, <1>9, <1>11, <1>22 DEF TypeOK, ClientType
<1>24. InBlock'
  <2> SUFFICES ASSUME NEW d \in Clients, Entitled(d)' PROVE client'[d].ip \in Addrs
    BY DEF InBlock
  <2>1. CASE d = c BY <2>1, <1>a, <1>4, <1>19 DEF Entitled
  <2>2. CASE d # c BY <2>2, <1>12, <1>15 DEF LeaseInv, InBlock
  <2> QED BY <2>1, <2>2
<1>25. StaticHold'
  <2> SUFFICES ASSUME NEW d \in Clients, d \notin excused', d \in DOMAIN static, Live(d)'
               PROVE client'[d].ip = static[d]
    BY <1>a DEF StaticHold
  <2>1. CASE d = c BY <2>1, <1>e, <1>16 DEF LeaseInv, StaticHold
  <2>2. CASE d # c BY <2>2, <1>12, <1>14 DEF LeaseInv, StaticHold
  <2> QED BY <2>1, <2>2
<1>26. UntilBound'
  <2> SUFFICES ASSUME NEW d \in Clients, Live(d)'
               PROVE client'[d].until <= now + select_lease_time(d)
    BY <1>a DEF UntilBound
  <2>1. CASE d = c
    <3>1. CASE client'[c].until = now + time BY <2>1, <3>1, <1>10, SMTT(30) DEF time
    <3>2. CASE client'[c] = client[c] /\ Live(c) BY <2>1, <3>2 DEF LeaseInv, UntilBound
    <3> QED BY <2>1, <3>1, <3>2, <1>16
  <2>2. CASE d # c BY <2>2, <1>12, <1>14 DEF LeaseInv, UntilBound
  <2> QED BY <2>1, <2>2
<1>27. Dynamic'
  <2> SUFFICES ASSUME NEW i \in Slots, leases'[i].mac \notin DOMAIN static \cup {NoMac}
               PROVE  leases'[i].nip \in Addrs
    BY <1>a DEF Dynamic
  <2>2. CASE i = s
    <3>1. leases'[i] = NewLease(c, nip, time) BY <2>2, <1>7 DEF Added
    <3>2. leases'[i].mac = c /\ leases'[i].nip = nip BY <3>1, <1>2, SMTT(30) DEF NewLease
    <3> QED BY <3>2, <1>4
  <2>3. CASE i # s
    <3>1. leases'[i] = Empty \/ leases'[i] = leases[i] BY <2>3, <1>7 DEF Added
    <3>2. leases'[i] = leases[i] BY <3>1, SMTT(30) DEF Empty
    <3> QED BY <3>2 DEF LeaseInv, Dynamic
  <2> QED BY <2>2, <2>3
<1>28. ScanInv' /\ LoadInv' /\ Down' BY <1>a DEF ScanInv, LoadInv, Down
<1> QED BY <1>8, <1>21, <1>22, <1>23, <1>24, <1>25, <1>26, <1>27, <1>28 DEF LeaseInv

\* case DHCPREQUEST: an ACK, a NAK or silence.
LEMMA RecvRequestStep == ASSUME LeastNumber, LeaseInv, NEW m \in net, RecvRequest(m) PROVE LeaseInv'
<1> DEFINE c == m.mac
           nip == IF m.req # 0 THEN m.req ELSE m.ci
<1>0. TypeOK /\ m \in Messages /\ c \in Clients BY DEF LeaseInv, TypeOK, Messages
<1>1. pc = "idle" /\ UNCHANGED << static, now, stops, faults, pc, scan, net, reserved >>
  BY DEF RecvRequest, Received
<1>2. CASE HasLease(c) /\ LeaseNip(c) = nip
  <2>1. Ack(c, nip) BY <1>2 DEF Ack, RecvRequest, Received
  <2> HIDE DEF c, nip
  <2> QED BY <2>1, <1>0, AckStep
<1>3. CASE ~(HasLease(c) /\ LeaseNip(c) = nip)
  <2>1. /\ client' = [client EXCEPT ![c] = Unbound] \/ client' = client
        /\ UNCHANGED << leases, file, excused >>
    BY <1>3 DEF RecvRequest
  <2> HIDE DEF c, nip
  <2>2. client \in ClientType BY <1>0 DEF TypeOK, ClientType
  <2>3. Unbound \in [st : {"init", "requesting", "bound"}, ip : Nat, until : Nat] /\ Unbound.st # "bound"
    BY DEF Unbound
  <2>4. client' \in ClientType /\ \A d \in Clients : client'[d] = client[d] \/ client'[d].st # "bound"
    BY <2>1, <2>2, <2>3 DEF ClientType
  <2>5. LosesNone BY <2>1, <2>4, <1>0, <1>1, SMTT(30) DEF LosesNone, TypeOK
  <2>6. TypeOK' BY <2>1, <2>4, <1>0, <1>1 DEF TypeOK, ClientType
  <2>7. ScanInv' /\ Running /\ Running' BY <1>1 DEF ScanInv, Running
  <2> QED BY <2>1, <2>5, <2>6, <2>7, <1>1, QuietStep
<1> QED BY <1>2, <1>3

\* A client's own record is given up, for nobody or until now.
LEMMA GiveUpStep ==
  ASSUME LeaseInv, NEW c \in Clients, NEW s \in Slots, NEW r \in Record, pc = "idle",
         c \notin DOMAIN static, leases[s].mac = c, r.nip = leases[s].nip, r.mac \in {c, NoMac},
         leases' = [leases EXCEPT ![s] = r], Stale(c), reserved' \in [Addrs -> Nat],
         UNCHANGED << static, now, stops, faults, pc, scan, file, net, client >>
  PROVE  LeaseInv'
<1>0. TypeOK /\ leases \in Table /\ now \in Nat /\ Unique(leases) BY DEF LeaseInv, TypeOK
<1>1. excused \subseteq excused' /\ excused' \subseteq Clients /\ (Live(c) => c \in excused')
  BY <1>0 DEF Stale, TypeOK
<1>2. LosesNone BY <1>0, <1>1, SMTT(30) DEF LosesNone
<1>3. leases' \in Table /\ leases'[s] = r /\ \A i \in Slots : i # s => leases'[i] = leases[i]
  BY <1>0 DEF Table
<1>4. TypeOK' BY <1>0, <1>1, <1>3 DEF TypeOK
<1>5. Running /\ Running' BY DEF Running
<1>6. InBlock' /\ StaticHold' /\ UntilBound' BY <1>2, LosesClientSide
<1>7. FileBacked' BY <1>2, LosesFileBacked
<1>8. ~Entitled(c)'
  <2> SUFFICES ASSUME Entitled(c)' PROVE FALSE OBVIOUS
  <2>1. Live(c)' /\ c \notin excused' BY DEF Entitled
  <2>2. Live(c) BY <2>1 DEF Live, Bound
  <2> QED BY <2>1, <2>2, <1>1
<1>9. TableBacked'
  <2>1. ASSUME NEW d \in Clients, Entitled(d)', NEW i \in Slots, leases[i].mac = d
        PROVE  leases'[i] = leases[i]
    BY <2>1, <1>3, <1>8, SMTT(30)
  <2> QED BY <2>1, <1>2, <1>5, LosesTableBacked
<1>10. Unique(leases)'
  <2>1. \A i \in Slots : /\ leases'[i].nip = leases[i].nip
                         /\ leases'[i].mac = leases[i].mac \/ leases'[i].mac = NoMac
    BY <1>3, SMTT(30)
  <2> QED BY <2>1, <1>0, SMTT(30) DEF Unique
<1>11. Unique(file.recs)' BY DEF LeaseInv
<1>12. Dynamic'
  <2> SUFFICES ASSUME NEW i \in Slots, leases'[i].mac \notin DOMAIN static \cup {NoMac}
               PROVE  leases'[i].nip \in Addrs
    BY DEF Dynamic
  <2>1. leases'[i].mac = leases[i].mac /\ leases'[i].nip = leases[i].nip BY <1>3
  <2> QED BY <2>1, SMTT(30) DEF LeaseInv, Dynamic
<1>13. ScanInv' /\ LoadInv' /\ Down' BY DEF ScanInv, LoadInv, Down
<1> QED BY <1>4, <1>6, <1>7, <1>9, <1>10, <1>12, <1>13 DEF LeaseInv

\* case DHCPDECLINE: the record is kept for nobody.
LEMMA RecvDeclineStep == ASSUME LeastNumber, LeaseInv, NEW m \in net, RecvDecline(m) PROVE LeaseInv'
<1> DEFINE c == m.mac
           s == find_lease_by_mac(c)
<1>0. TypeOK /\ leases \in Table /\ now \in Nat /\ m \in Messages /\ c \in Clients
  BY DEF LeaseInv, TypeOK, Messages
<1>1. /\ pc = "idle" /\ UNCHANGED << static, now, stops, faults, pc, scan, file, net, client >>
      /\ IF c \notin DOMAIN static /\ s # 0 /\ leases[s].nip = m.req
           THEN /\ leases' = [leases EXCEPT ![s].mac = NoMac, ![s].expires = now + DeclineTime]
                /\ reserved' = [reserved EXCEPT ![m.req] = now + DeclineTime]
                /\ Stale(c)
           ELSE UNCHANGED << leases, reserved, excused >>
  BY DEF RecvDecline, Received
<1>2. s # 0 => s \in Slots /\ leases[s].mac = c BY <1>0, FindMac
<1> HIDE DEF c, s
<1>3. CASE c \notin DOMAIN static /\ s # 0 /\ leases[s].nip = m.req
  <2> DEFINE r == [mac |-> NoMac, nip |-> leases[s].nip, expires |-> now + DeclineTime]
  <2>1. s \in Slots /\ leases[s].mac = c BY <1>2, <1>3
  <2>2. r \in Record /\ r.nip = leases[s].nip /\ r.mac \in {c, NoMac}
    BY <2>1, <1>0, UdhcpdAssumption, SMTT(30) DEF Record, Table
  <2>3. leases' = [leases EXCEPT ![s] = r] BY <2>1, <1>0, <1>1, <1>3, SMTT(30) DEF Table, Record
  <2>4. reserved' \in [Addrs -> Nat]
    <3>1. now + DeclineTime \in Nat /\ reserved \in [Addrs -> Nat]
      BY <1>0, UdhcpdAssumption, SMTT(30) DEF TypeOK
    <3>2. reserved' = [reserved EXCEPT ![m.req] = now + DeclineTime] BY <1>1, <1>3
    <3> QED BY <3>1, <3>2
  <2> HIDE DEF r
  <2> QED BY <2>1, <2>2, <2>3, <2>4, <1>0, <1>1, <1>3, GiveUpStep
<1>4. CASE ~(c \notin DOMAIN static /\ s # 0 /\ leases[s].nip = m.req)
  <2>1. UNCHANGED << leases, reserved, excused, file >> BY <1>1, <1>4
  <2>2. LosesNone BY <2>1, <1>0, <1>1, SMTT(30) DEF LosesNone
  <2>3. TypeOK' BY <2>1, <1>0, <1>1 DEF TypeOK
  <2>4. ScanInv' /\ Running /\ Running' BY <1>1 DEF ScanInv, Running
  <2> QED BY <2>1, <2>2, <2>3, <2>4, <1>1, QuietStep
<1> QED BY <1>3, <1>4

\* case DHCPRELEASE: the record expires now.
LEMMA RecvReleaseStep == ASSUME LeastNumber, LeaseInv, NEW m \in net, RecvRelease(m) PROVE LeaseInv'
<1> DEFINE c == m.mac
           s == find_lease_by_mac(c)
<1>0. TypeOK /\ leases \in Table /\ now \in Nat /\ m \in Messages /\ c \in Clients
  BY DEF LeaseInv, TypeOK, Messages
<1>1. /\ pc = "idle" /\ UNCHANGED << static, now, stops, faults, pc, scan, file, net, client, reserved >>
      /\ IF c \notin DOMAIN static /\ s # 0 /\ leases[s].nip = m.ci
           THEN leases' = [leases EXCEPT ![s].expires = now] /\ Stale(c)
           ELSE UNCHANGED << leases, excused >>
  BY DEF RecvRelease, Received
<1>2. s # 0 => s \in Slots /\ leases[s].mac = c BY <1>0, FindMac
<1> HIDE DEF c, s
<1>3. CASE c \notin DOMAIN static /\ s # 0 /\ leases[s].nip = m.ci
  <2> DEFINE r == [mac |-> c, nip |-> leases[s].nip, expires |-> now]
  <2>1. s \in Slots /\ leases[s].mac = c BY <1>2, <1>3
  <2>2. r \in Record /\ r.nip = leases[s].nip /\ r.mac \in {c, NoMac}
    BY <2>1, <1>0 DEF Record, Table
  <2>3. leases' = [leases EXCEPT ![s] = r] BY <2>1, <1>0, <1>1, <1>3, SMTT(30) DEF Table, Record
  <2>4. reserved' \in [Addrs -> Nat] BY <1>0, <1>1 DEF TypeOK
  <2> HIDE DEF r
  <2> QED BY <2>1, <2>2, <2>3, <2>4, <1>0, <1>1, <1>3, GiveUpStep
<1>4. CASE ~(c \notin DOMAIN static /\ s # 0 /\ leases[s].nip = m.ci)
  <2>1. UNCHANGED << leases, excused, file >> BY <1>1, <1>4
  <2>2. LosesNone BY <2>1, <1>0, <1>1, SMTT(30) DEF LosesNone
  <2>3. TypeOK' BY <2>1, <1>0, <1>1 DEF TypeOK
  <2>4. ScanInv' /\ Running /\ Running' BY <1>1 DEF ScanInv, Running
  <2> QED BY <2>1, <2>2, <2>3, <2>4, <1>1, QuietStep
<1> QED BY <1>3, <1>4

----------------------------------------------------------------------------
\* Reservations: an address that was declined or answered a probe.

Keeps(i, a) == leases[i].nip = a /\ leases[i].mac = NoMac /\ leases[i].expires >= reserved[a]

\* A server that has not been stopped has none while it is down: they went with the ramdisk.
Reservations ==
  stops = 0 => Reserved /\ (~Running => \A a \in Addrs : reserved[a] = 0)

\* The slot of a reservation is neither expired nor a client's.
LEMMA ReservedSlot ==
  ASSUME LeaseInv, Reserved, Running, NEW a \in Addrs \ StaticAddrs, reserved[a] > now
  PROVE  \E i \in Slots : Keeps(i, a) /\ ~(leases[i].expires < now)
<1>1. PICK i \in Slots : Keeps(i, a) BY DEF Reserved, Running, Keeps
<1>2. leases[i].expires \in Nat /\ reserved[a] \in Nat /\ now \in Nat
  BY DEF LeaseInv, TypeOK, Table, Record
<1>3. ~(leases[i].expires < now) BY <1>1, <1>2, SMTT(30) DEF Keeps
<1> QED BY <1>1, <1>3

\* add_lease keeps it, unless it is given the same address.
LEMMA AddReserved ==
  ASSUME LeastNumber, LeaseInv, Reserved, Running, NEW mac \in Clients \cup {Null},
         NEW nip \in Nat \ {0}, NEW time \in Nat, leases' = add_lease(leases, mac, nip, time),
         \A i \in Slots : leases[i].nip = nip =>
           leases[i].mac # NoMac \/ leases[i].expires < now \/ nip \in StaticAddrs,
         NEW a \in Addrs \ StaticAddrs, reserved'[a] = reserved[a], reserved[a] > now
  PROVE  \E i \in Slots : Keeps(i, a)'
<1>1. PICK i \in Slots : Keeps(i, a) /\ ~(leases[i].expires < now) BY ReservedSlot
<1>2. leases[i].nip # nip BY <1>1 DEF Keeps
<1>3. mac # NoMac BY UdhcpdAssumption
<1>4. ~Match(leases[i], mac, nip) BY <1>1, <1>2, <1>3 DEF Match, Keeps
<1>5. leases \in Table /\ now \in Nat \ {0} BY DEF LeaseInv, TypeOK
<1>6. mac \in Clients \cup {NoMac, Null} OBVIOUS
<1>7. add_lease(leases, mac, nip, time)[i] = leases[i] BY <1>1, <1>4, <1>5, <1>6, AddKeeps, SMTT(30)
<1>8. leases'[i] = leases[i] BY <1>7
<1> QED BY <1>1, <1>8 DEF Keeps

\* What is left to show of a step of the running server.
LEMMA RunningStep ==
  ASSUME LeaseInv, Reservations, Running, Running', UNCHANGED << static, now, stops >>,
         Reserved => \A a \in Addrs \ StaticAddrs : reserved'[a] > now => \E i \in Slots : Keeps(i, a)'
  PROVE  Reservations'
<1>1. StaticAddrs' = StaticAddrs BY DEF StaticAddrs
<1> SUFFICES ASSUME stops = 0 PROVE Reserved' BY DEF Reservations
<1>2. Reserved BY DEF Reservations
<1>3. ASSUME NEW a \in Addrs \ StaticAddrs, reserved'[a] > now PROVE \E i \in Slots : Keeps(i, a)'
  BY <1>2, <1>3
<1> QED BY <1>1, <1>3 DEF Reserved, Keeps

\* An offer or an ACK is never of an address that is reserved.
LEMMA GrantReserved ==
  ASSUME LeastNumber, LeaseInv, Reservations, Running, Running',
         UNCHANGED << static, now, stops, reserved >>,
         NEW mac \in Clients, NEW nip \in Nat \ {0}, NEW time \in Nat,
         leases' = add_lease(leases, mac, nip, time),
         \A i \in Slots : leases[i].nip = nip =>
           leases[i].mac # NoMac \/ leases[i].expires < now \/ nip \in StaticAddrs
  PROVE  Reservations'
<1>1. mac \in Clients \cup {Null} OBVIOUS
<1>2. ASSUME Reserved, NEW a \in Addrs \ StaticAddrs, reserved'[a] > now PROVE \E i \in Slots : Keeps(i, a)'
  BY <1>1, <1>2, AddReserved
<1> QED BY <1>2, RunningStep

\* A step that leaves the table and the reservations alone.
LEMMA SameReserved ==
  ASSUME LeaseInv, Reservations, UNCHANGED << leases, static, now, stops, reserved >>, Running' <=> Running
  PROVE  Reservations'
<1>1. StaticAddrs' = StaticAddrs BY DEF StaticAddrs
<1> QED BY <1>1 DEF Reservations, Reserved, Running

\* DISCOVER: the address is the client's, or its lease has expired.
LEMMA DiscoverReserved ==
  ASSUME LeastNumber, LeaseInv, Reservations, NEW m \in net, RecvDiscover(m) PROVE Reservations'
<1> DEFINE c == m.mac
           mine == find_lease_by_mac(c)
<1>0. leases \in Table /\ now \in Nat \ {0} /\ net \subseteq Messages BY DEF LeaseInv, TypeOK, Messages
<1>1. c \in Clients /\ m.req \in Nat BY <1>0 DEF Messages
<1>2. pc = "idle" /\ UNCHANGED << static, now, stops, reserved >> BY DEF RecvDiscover, Received
<1>3. c # NoMac /\ OfferTime \in Nat BY <1>1, UdhcpdAssumption
<1>4. mine # 0 => mine \in Slots /\ leases[mine].mac = c BY <1>0, FindMac
<1>5. Addrs \subseteq Nat \ {0} BY SMTT(30) DEF Addrs
<1> HIDE DEF mine
<1>6. CASE UNCHANGED leases /\ pc' \in {"idle", "scan"}
  <2>1. Running /\ Running' BY <1>2, <1>6 DEF Running
  <2> QED BY <2>1, <1>2, <1>6, SameReserved
<1>7. ASSUME NEW ip \in Addrs, OfferDynamic(c, ip), UNCHANGED pc,
             \A i \in Slots : leases[i].nip = ip => leases[i].mac # NoMac \/ leases[i].expires < now
      PROVE  Reservations'
  <2>1. leases' = add_lease(leases, c, ip, OfferTime) BY <1>7 DEF OfferDynamic
  <2>2. Running /\ Running' BY <1>2, <1>7 DEF Running
  <2> QED BY <2>1, <2>2, <1>1, <1>2, <1>3, <1>5, <1>7, GrantReserved
<1>8. CASE c \notin DOMAIN static /\ mine # 0 /\ OfferDynamic(c, leases[mine].nip) /\ UNCHANGED pc
  <2>1. leases[mine].nip \in Addrs BY <1>3, <1>4, <1>8 DEF LeaseInv, Dynamic
  <2>2. \A i \in Slots : leases[i].nip = leases[mine].nip => leases[i].mac # NoMac
    BY <2>1, <1>3, <1>4, <1>5, <1>8 DEF LeaseInv, Unique
  <2> QED BY <2>1, <2>2, <1>7, <1>8
<1>9. CASE requested_free(m.req) /\ OfferDynamic(c, m.req) /\ UNCHANGED pc
  <2>1. m.req \in Addrs BY <1>9 DEF requested_free
  <2>2. ASSUME NEW i \in Slots, leases[i].nip = m.req PROVE leases[i].expires < now
    <3> DEFINE k == find_lease_by_nip(m.req)
    <3>1. (k # 0 => k \in Slots /\ leases[k].nip = m.req) /\ (k = 0 => \A j \in Slots : leases[j].nip # m.req)
      BY <1>0, FindNip
    <3>2. k # 0 => leases[k].expires < now BY <1>9 DEF requested_free, is_expired_lease
    <3> HIDE DEF k
    <3>3. k # 0 /\ m.req # 0 BY <3>1, <2>1, <2>2, <1>5
    <3>4. i = k BY <3>1, <3>3, <2>2 DEF LeaseInv, Unique
    <3> QED BY <3>2, <3>3, <3>4
  <2> QED BY <2>1, <2>2, <1>7, <1>9
<1> QED BY <1>2, <1>6, <1>8, <1>9 DEF RecvDiscover, mine

\* REQUEST: the lease is the client's, in the table or static.
LEMMA RequestReserved ==
  ASSUME LeastNumber, LeaseInv, Reservations, NEW m \in net, RecvRequest(m) PROVE Reservations'
<1> DEFINE c == m.mac
           mine == find_lease_by_mac(c)
           nip == IF m.req # 0 THEN m.req ELSE m.ci
<1>0. /\ leases \in Table /\ now \in Nat \ {0} /\ net \subseteq Messages
      /\ static \in StaticConfigs \cup {NoStatic}
  BY DEF LeaseInv, TypeOK, Messages
<1>1. c \in Clients BY <1>0 DEF Messages
<1>2. pc = "idle" /\ UNCHANGED << pc, static, now, stops, reserved >> BY DEF RecvRequest, Received
<1>3. c # NoMac /\ select_lease_time(c) \in Nat BY <1>1, LeaseTimeType, UdhcpdAssumption
<1>4. mine # 0 => mine \in Slots /\ leases[mine].mac = c BY <1>0, FindMac
<1>5. Addrs \subseteq Nat \ {0} BY SMTT(30) DEF Addrs
<1>6. Running /\ Running' BY <1>2 DEF Running
<1>7. CASE UNCHANGED leases BY <1>2, <1>6, <1>7, SameReserved
<1>8. CASE leases' = add_lease(leases, c, nip, select_lease_time(c)) /\ HasLease(c) /\ LeaseNip(c) = nip
  <2>1. HasLease(c) => c \in DOMAIN static \/ mine # 0 BY DEF HasLease
  <2>2. LeaseNip(c) = IF c \in DOMAIN static THEN static[c] ELSE leases[mine].nip BY DEF LeaseNip
  <2> HIDE DEF mine, nip
  <2>3. CASE c \in DOMAIN static
    <3>1. nip = static[c] /\ nip \in Nat \ {0} BY <2>2, <2>3, <1>0, <1>8, StaticType
    <3>2. nip \in StaticAddrs BY <3>1, <2>3 DEF StaticAddrs
    <3> QED BY <3>1, <3>2, <1>1, <1>2, <1>3, <1>6, <1>8, GrantReserved
  <2>4. CASE c \notin DOMAIN static
    <3>1. mine # 0 /\ nip = leases[mine].nip BY <2>1, <2>2, <2>4, <1>8
    <3>2. nip \in Addrs BY <3>1, <2>4, <1>3, <1>4 DEF LeaseInv, Dynamic
    <3>3. \A i \in Slots : leases[i].nip = nip => leases[i].mac # NoMac
      BY <3>1, <3>2, <1>3, <1>4, <1>5 DEF LeaseInv, Unique
    <3> QED BY <3>2, <3>3, <1>1, <1>2, <1>3, <1>5, <1>6, <1>8, GrantReserved
  <2> QED BY <2>3, <2>4
<1> QED BY <1>7, <1>8 DEF RecvRequest

\* A probe was answered: the address is reserved from now on, if there is room.
LEMMA ConflictReserved ==
  ASSUME LeastNumber, LeaseInv, Reservations, Running, Running', UNCHANGED << static, now, stops >>,
         NEW ip \in Addrs, Conflict(ip), \A i \in Slots : leases[i].nip = ip => leases[i].expires < now
  PROVE  Reservations'
<1> DEFINE s == slot_for(leases, Null, ip)
<1>0. leases \in Table /\ now \in Nat \ {0} /\ reserved \in [Addrs -> Nat] BY DEF LeaseInv, TypeOK
<1>1. ip \in Nat \ {0} /\ ConflictTime \in Nat BY UdhcpdAssumption, SMTT(30) DEF Addrs
<1>2. leases' = add_lease(leases, Null, ip, ConflictTime) BY DEF Conflict
<1>3. reserved' = IF s = 0 THEN reserved ELSE [reserved EXCEPT ![ip] = now + ConflictTime] BY DEF Conflict
<1>4. Null \in Clients \cup {NoMac, Null} OBVIOUS
<1>5. Added(leases, leases', s, Null, ip, ConflictTime) BY <1>0, <1>1, <1>2, <1>4, AddFacts
<1> HIDE DEF s
<1>6. ASSUME NEW a \in Addrs \ StaticAddrs, Reserved, reserved'[a] = reserved[a], reserved'[a] > now
      PROVE  \E i \in Slots : Keeps(i, a)'
  BY <1>1, <1>2, <1>6, AddReserved
<1>7. ASSUME reserved'[ip] # reserved[ip] PROVE \E i \in Slots : Keeps(i, ip)'
  <2>1. s # 0 BY <1>3, <1>7
  <2>2. s \in Slots BY <2>1, <1>5, UdhcpdAssumption, SMTT(30) DEF Added, Slots
  <2>3. leases'[s] = NewLease(Null, ip, ConflictTime) BY <2>2, <1>5 DEF Added
  <2>4. reserved'[ip] = now + ConflictTime BY <2>1, <1>0, <1>3
  <2>5. now + ConflictTime >= now + ConflictTime BY <1>0, <1>1, SMTT(30)
  <2>6. leases'[s].nip = ip /\ leases'[s].mac = NoMac /\ leases'[s].expires = now + ConflictTime
    BY <2>3, SMTT(30) DEF NewLease
  <2> QED BY <2>2, <2>4, <2>5, <2>6 DEF Keeps
<1>8. ASSUME NEW a \in Addrs, a # ip PROVE reserved'[a] = reserved[a] BY <1>0, <1>3, <1>8
<1>9. Reserved => \A a \in Addrs \ StaticAddrs : reserved'[a] > now => \E i \in Slots : Keeps(i, a)'
  BY <1>6, <1>7, <1>8
<1> QED BY <1>9, RunningStep

\* The search offers, or reserves, addresses without a lease.
LEMMA ScanReserved == ASSUME LeastNumber, LeaseInv, Reservations, Scan PROVE Reservations'
<1> DEFINE a == scan.addr
           s == find_lease_by_nip(a)
<1>0. leases \in Table BY DEF LeaseInv, TypeOK
<1>1. pc = "scan" /\ UNCHANGED << static, now, stops >> BY DEF Scan
<1>2. a \in Addrs
  <2>1. a \in Nat /\ a >= 1 /\ a <= Last BY <1>1 DEF LeaseInv, TypeOK, ScanInv, Scan
  <2> QED BY <2>1, UdhcpdAssumption, SMTT(30) DEF Addrs
<1>3. s = 0 => \A i \in Slots : leases[i].nip # a BY <1>0, FindNip
<1> HIDE DEF s
<1>4. Running BY <1>1 DEF Running
<1>5. CASE UNCHANGED << leases, reserved, pc >> BY <1>1, <1>5, SameReserved DEF Running
<1>6. CASE s = 0 /\ Conflict(a) /\ UNCHANGED pc
  <2>1. Running' BY <1>1, <1>6 DEF Running
  <2> QED BY <2>1, <1>1, <1>2, <1>3, <1>4, <1>6, ConflictReserved
<1>7. CASE s = 0 /\ OfferDynamic(scan.mac, a) /\ pc' = "idle" /\ UNCHANGED reserved
  <2>1. leases' = add_lease(leases, scan.mac, a, OfferTime) /\ Running' BY <1>7 DEF OfferDynamic, Running
  <2>2. scan.mac \in Clients /\ OfferTime \in Nat BY <1>1, UdhcpdAssumption DEF LeaseInv, ScanInv
  <2>3. a \in Nat \ {0} BY <1>2, SMTT(30) DEF Addrs
  <2> QED BY <2>1, <2>2, <2>3, <1>1, <1>3, <1>4, <1>7, GrantReserved
<1> QED BY <1>5, <1>6, <1>7 DEF Scan, s

\* So does its end with a lease that has expired.
LEMMA ScanEndReserved == ASSUME LeastNumber, LeaseInv, Reservations, ScanEnd PROVE Reservations'
<1> DEFINE l == leases[scan.oldest]
<1>1. pc = "scan" /\ pc' = "idle" /\ UNCHANGED << static, now, stops >> BY DEF ScanEnd
<1>2. Running /\ Running' BY <1>1 DEF Running
<1>3. CASE UNCHANGED << leases, reserved >> BY <1>1, <1>2, <1>3, SameReserved
<1>4. ASSUME scan.oldest # 0, is_expired_lease(l)
      PROVE  /\ l.nip \in Addrs /\ l.nip \in Nat \ {0} /\ scan.mac \in Clients
             /\ \A i \in Slots : leases[i].nip = l.nip => leases[i].expires < now
  <2>1. scan.oldest \in Slots BY <1>4, UdhcpdAssumption, SMTT(30) DEF LeaseInv, TypeOK, Slots
  <2>2. l.nip \in Addrs /\ scan.mac \in Clients BY <1>1, <1>4 DEF LeaseInv, ScanInv
  <2>3. l.nip \in Nat \ {0} BY <2>2, SMTT(30) DEF Addrs
  <2>4. \A i \in Slots : leases[i].nip = l.nip => i = scan.oldest BY <2>1, <2>3 DEF LeaseInv, Unique
  <2> QED BY <2>2, <2>3, <2>4, <1>4 DEF is_expired_lease
<1>5. CASE scan.oldest # 0 /\ is_expired_lease(l) /\ Conflict(l.nip)
  BY <1>1, <1>2, <1>4, <1>5, ConflictReserved
<1>6. CASE scan.oldest # 0 /\ is_expired_lease(l) /\ OfferDynamic(scan.mac, l.nip) /\ UNCHANGED reserved
  <2>1. leases' = add_lease(leases, scan.mac, l.nip, OfferTime) BY <1>6 DEF OfferDynamic
  <2>2. OfferTime \in Nat BY UdhcpdAssumption
  <2> QED BY <2>1, <2>2, <1>1, <1>2, <1>4, <1>6, GrantReserved
<1> QED BY <1>3, <1>5, <1>6 DEF ScanEnd

\* DECLINE and RELEASE change the client's own record; the first makes it a reservation.
LEMMA GiveUpReserved ==
  ASSUME LeaseInv, Reservations, pc = "idle", UNCHANGED << pc, static, now, stops >>,
         NEW s \in Slots, leases[s].mac # NoMac, \A i \in Slots : i # s => leases'[i] = leases[i],
         NEW n \in Addrs, NEW e \in Nat,
         \/ UNCHANGED reserved
         \/ /\ leases'[s].mac = NoMac /\ leases'[s].nip = n /\ leases'[s].expires = e
            /\ reserved' = [reserved EXCEPT ![n] = e]
  PROVE  Reservations'
<1>1. Running /\ Running' BY DEF Running
<1>2. reserved \in [Addrs -> Nat] BY DEF LeaseInv, TypeOK
<1>3. e >= e BY SMTT(30)
<1>4. ASSUME Reserved, NEW a \in Addrs \ StaticAddrs, reserved'[a] > now PROVE \E i \in Slots : Keeps(i, a)'
  <2>1. CASE reserved'[a] = reserved[a]
    <3>1. PICK i \in Slots : Keeps(i, a) BY <2>1, <1>1, <1>4, ReservedSlot
    <3>2. leases'[i] = leases[i] BY <3>1 DEF Keeps
    <3> QED BY <3>1, <3>2, <2>1 DEF Keeps
  <2>2. CASE reserved'[a] # reserved[a]
    <3>1. reserved' = [reserved EXCEPT ![n] = e] /\ leases'[s].mac = NoMac /\ leases'[s].nip = n
          /\ leases'[s].expires = e
      BY <2>2
    <3>2. a = n /\ reserved'[a] = e BY <3>1, <2>2, <1>2
    <3> QED BY <3>1, <3>2, <1>3 DEF Keeps
  <2> QED BY <2>1, <2>2
<1> QED BY <1>1, <1>4, RunningStep

\* case DHCPDECLINE.
LEMMA DeclineReserved ==
  ASSUME LeastNumber, LeaseInv, Reservations, NEW m \in net, RecvDecline(m) PROVE Reservations'
<1> DEFINE c == m.mac
           s == find_lease_by_mac(c)
<1>0. leases \in Table /\ now \in Nat /\ net \subseteq Messages BY DEF LeaseInv, TypeOK, Messages
<1>1. c \in Clients /\ c # NoMac BY <1>0, UdhcpdAssumption DEF Messages
<1>2. pc = "idle" /\ UNCHANGED << pc, static, now, stops >> BY DEF RecvDecline, Received
<1>3. s # 0 => s \in Slots /\ leases[s].mac = c BY <1>0, FindMac
<1> HIDE DEF s
<1>4. CASE UNCHANGED << leases, reserved >> BY <1>2, <1>4, SameReserved DEF Running
<1>5. CASE /\ c \notin DOMAIN static /\ s # 0 /\ leases[s].nip = m.req
           /\ leases' = [leases EXCEPT ![s].mac = NoMac, ![s].expires = now + DeclineTime]
           /\ reserved' = [reserved EXCEPT ![m.req] = now + DeclineTime]
  <2>1. s \in Slots /\ leases[s].mac # NoMac /\ leases[s].nip \in Addrs
    BY <1>1, <1>3, <1>5 DEF LeaseInv, Dynamic
  <2>2. now + DeclineTime \in Nat BY <1>0, UdhcpdAssumption, SMTT(30)
  <2>3. /\ \A i \in Slots : i # s => leases'[i] = leases[i]
        /\ leases'[s].mac = NoMac /\ leases'[s].nip = leases[s].nip
        /\ leases'[s].expires = now + DeclineTime
    BY <2>1, <1>0, <1>5, SMTT(30) DEF Table, Record
  <2> QED BY <2>1, <2>2, <2>3, <1>2, <1>5, GiveUpReserved
<1> QED BY <1>4, <1>5 DEF RecvDecline, s

\* case DHCPRELEASE.
LEMMA ReleaseReserved ==
  ASSUME LeastNumber, LeaseInv, Reservations, NEW m \in net, RecvRelease(m) PROVE Reservations'
<1> DEFINE c == m.mac
           s == find_lease_by_mac(c)
<1>0. leases \in Table /\ now \in Nat /\ net \subseteq Messages BY DEF LeaseInv, TypeOK, Messages
<1>1. c \in Clients /\ c # NoMac BY <1>0, UdhcpdAssumption DEF Messages
<1>2. pc = "idle" /\ UNCHANGED << pc, static, now, stops, reserved >> BY DEF RecvRelease, Received
<1>3. s # 0 => s \in Slots /\ leases[s].mac = c BY <1>0, FindMac
<1> HIDE DEF s
<1>4. CASE UNCHANGED leases BY <1>2, <1>4, SameReserved DEF Running
<1>5. CASE c \notin DOMAIN static /\ s # 0 /\ leases' = [leases EXCEPT ![s].expires = now]
  <2>1. s \in Slots /\ leases[s].mac # NoMac /\ leases[s].nip \in Addrs
    BY <1>1, <1>3, <1>5 DEF LeaseInv, Dynamic
  <2>2. \A i \in Slots : i # s => leases'[i] = leases[i] BY <1>0, <1>5 DEF Table
  <2> QED BY <2>1, <2>2, <1>0, <1>2, GiveUpReserved
<1> QED BY <1>4, <1>5 DEF RecvRelease, s

\* The clock: a reservation that has run out is forgotten, and the others stay.
LEMMA ClockReserved == ASSUME LeaseInv, Reservations, Tick \/ SetClock PROVE Reservations'
<1>1. UNCHANGED << leases, static, pc, stops >> BY DEF Tick, SetClock
<1>2. StaticAddrs' = StaticAddrs /\ (Running <=> Running') BY <1>1 DEF StaticAddrs, Running
<1>3. reserved \in [Addrs -> Nat] /\ now \in Nat BY DEF LeaseInv, TypeOK
<1>4. now' \in Nat
  <2>1. CASE Tick BY <2>1, <1>3, SMTT(30) DEF Tick
  <2>2. CASE SetClock BY <2>2, SMTT(30) DEF SetClock
  <2> QED BY <2>1, <2>2
<1>5. ASSUME NEW a \in Addrs
      PROVE  /\ reserved'[a] \in {0, reserved[a]}
             /\ reserved'[a] > now' => reserved'[a] = reserved[a] /\ reserved[a] > now
  <2>1. CASE Tick BY <2>1, <1>3, SMTT(30) DEF Tick
  <2>2. CASE SetClock
    <3>1. reserved'[a] = IF reserved[a] > now THEN reserved[a] ELSE 0 BY <2>2 DEF SetClock
    <3>2. reserved[a] \in Nat BY <1>3
    <3> QED BY <3>1, <3>2, <1>3, <1>4, SMTT(30)
  <2> QED BY <2>1, <2>2
<1>6. Reserved => Reserved' BY <1>1, <1>2, <1>5 DEF Reserved
<1> QED BY <1>1, <1>2, <1>5, <1>6 DEF Reservations

\* Stopping, the loss of power and the loading of the file.
LEMMA DownReserved ==
  ASSUME LeaseInv, Reservations, Stop \/ PowerCut \/ Start \/ Load \/ Loaded PROVE Reservations'
<1>1. stops \in Nat /\ now \in Nat /\ stops' \in Nat BY SMTT(30) DEF LeaseInv, TypeOK, Stop, PowerCut, Start, Load, Loaded
<1>2. CASE Stop
  <2>1. stops' # 0 BY <1>1, <1>2, SMTT(30) DEF Stop
  <2> QED BY <2>1 DEF Reservations
<1>3. CASE ~Stop
  <2>1. UNCHANGED stops BY <1>3 DEF PowerCut, Start, Load, Loaded
  <2>2. now' = now BY <1>3 DEF PowerCut, Start, Load, Loaded
  <2>3. ~(0 > now) BY <1>1, SMTT(30)
  <2>4. stops = 0 => \A a \in Addrs : reserved'[a] = 0
    BY <1>3 DEF Reservations, Running, PowerCut, Start, Load, Loaded
  <2> QED BY <2>1, <2>2, <2>3, <2>4 DEF Reservations, Reserved
<1> QED BY <1>2, <1>3

\* Every step keeps the reservations.
LEMMA ReservationsNext ==
  ASSUME LeastNumber, LeaseInv, Reservations, [Next]_vars PROVE Reservations'
<1>1. ASSUME NEW c \in Clients, Discover(c) \/ Renew(c) \/ Reboot(c) \/ Release(c) \/ Decline(c)
      PROVE  Reservations'
  <2>1. UNCHANGED << leases, static, now, pc, stops, reserved >>
    BY <1>1 DEF Discover, Renew, Reboot, Release, Decline, Send
  <2> QED BY <2>1, SameReserved DEF Running
<1>2. CASE WriteLeases \/ UNCHANGED vars
  <2>1. UNCHANGED << leases, static, now, pc, stops, reserved >> BY <1>2 DEF WriteLeases, vars
  <2> QED BY <2>1, SameReserved DEF Running
<1> QED BY <1>1, <1>2, ClockReserved, DiscoverReserved, RequestReserved, DeclineReserved,
           ReleaseReserved, ScanReserved, ScanEndReserved, DownReserved DEF Next

=============================================================================
