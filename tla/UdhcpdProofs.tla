---------------------------- MODULE UdhcpdProofs ----------------------------
(***************************************************************************)
(* Udhcpd's invariant through writing and loading the leases file, and the *)
(* theorems that rest on it.                                               *)
(***************************************************************************)
EXTENDS UdhcpdServer

USE ZenonT(30)

\* The slot add_lease fills while the file is loaded is not beyond the next record's.
LEMMA LoadSlot ==
  ASSUME LeastNumber, NEW t \in Table, NEW mac \in Clients \cup {NoMac, Null}, NEW nip \in Nat \ {0},
         now \in Nat \ {0}, NEW n \in Slots, t[n].expires = 0
  PROVE  slot_for(t, mac, nip) \in Slots /\ slot_for(t, mac, nip) <= n
<1> DEFINE c == clear_leases(t, mac, nip)
           s == slot_for(t, mac, nip)
<1>1. /\ c \in Table
      /\ \A i \in Slots : c[i] = IF (mac # Null /\ t[i].mac = mac) \/ (nip # 0 /\ t[i].nip = nip)
                                   THEN Empty ELSE t[i]
  <2>1. nip \in Nat BY SMTT(30)
  <2>2. Cleared(t, c, mac, nip) BY <2>1, ClearFacts
  <2> QED BY <2>2 DEF Cleared
<1>2. c[n].expires = 0 BY <1>1, SMTT(30) DEF Empty
<1>3. /\ s # 0 =>
           /\ s \in Slots
           /\ \A j \in Slots : c[j].expires < now =>
                \/ c[s].expires < c[j].expires
                \/ c[s].expires = c[j].expires /\ s <= j
      /\ (\E i \in Slots : c[i].expires < now) => s # 0
  BY <1>1, OldestFacts DEF slot_for
<1> HIDE DEF c, s
<1>4. s # 0 BY <1>2, <1>3, SMTT(30)
<1>5. s \in Slots /\ (c[s].expires < 0 \/ s <= n) BY <1>2, <1>3, <1>4, SMTT(30)
<1>6. c[s].expires \in Nat BY <1>1, <1>5 DEF Table, Record
<1> QED BY <1>5, <1>6, SMTT(30) DEF s

NextRecord ==
  /\ file' \in [at : Nat, recs : Table, next : Nat, passed : Nat] /\ file'.next = file.next + 1
  /\ file'.recs = file.recs /\ file'.at = file.at /\ file'.passed = file.passed

Reading(n, r, left) == file.next = n /\ file.recs[n] = r /\ left = r.expires - file.passed

Adding(r, left) ==
  pc = "load" /\ r.nip \in Addrs /\ leases' = add_lease(leases, r.mac, r.nip, left)

Skipping ==
  /\ pc = "load" /\ file.next \in Slots /\ leases' = leases
  /\ ~(file.recs[file.next].nip \in Addrs /\ file.recs[file.next].expires - file.passed > 0)

\* Neither touches anything but the table and the position in the file.
Others == UNCHANGED << static, now, pc, scan, net, client, excused, reserved, stops, faults >>

\* read_leases adds a record: there is a slot for it, and it displaces no other record's lease.
LEMMA LoadAdd ==
  ASSUME LeastNumber, LeaseInv, NEW n \in Slots, NEW r \in Record, NEW left \in Nat,
         Reading(n, r, left), Adding(r, left), NextRecord, Others
  PROVE  LeaseInv'
<1> DEFINE s == slot_for(leases, r.mac, r.nip)
<1>0. /\ TypeOK /\ leases \in Table /\ now \in Nat \ {0} /\ client \in ClientType /\ Unique(leases)
      /\ file \in [at : Nat, recs : Table, next : Nat, passed : Nat] /\ Unique(file.recs)
  BY DEF LeaseInv, TypeOK, ClientType
<1>a. pc = "load" /\ r.nip \in Addrs /\ leases' = add_lease(leases, r.mac, r.nip, left)
  BY DEF Adding
<1>u. /\ static' = static /\ now' = now /\ pc' = pc /\ scan' = scan /\ net' = net /\ client' = client
      /\ excused' = excused /\ reserved' = reserved /\ stops' = stops /\ faults' = faults
  BY DEF Others
<1>r. n = file.next /\ r = file.recs[n] /\ left = r.expires - file.passed BY DEF Reading
<1>1. /\ r.nip \in Nat \ {0} /\ r.mac \in Clients \cup {NoMac}
      /\ r.mac \in Clients \cup {NoMac, Null} /\ r.mac # Null
  BY <1>a, UdhcpdAssumption, SMTT(30) DEF Record, Addrs
<1>2. leases[n].expires = 0
  <2>1. n >= file.next BY <1>r, SMTT(30) DEF Slots
  <2> QED BY <2>1, <1>a DEF LeaseInv, LoadInv
<1>3. s \in Slots /\ s <= n BY <1>0, <1>1, <1>2, LoadSlot
<1>4. Added(leases, leases', s, r.mac, r.nip, left) BY <1>0, <1>1, <1>a, AddFacts
<1>5. Unique(leases)'
  <2>1. Unique(add_lease(leases, r.mac, r.nip, left)) BY <1>0, <1>1, AddUnique
  <2> QED BY <2>1, <1>a
<1>6. /\ file' \in [at : Nat, recs : Table, next : Nat, passed : Nat] /\ file'.next = n + 1
      /\ file'.recs = file.recs /\ file'.at = file.at /\ file'.passed = file.passed
  BY <1>r DEF NextRecord
<1>7. /\ \A k \in Slots : k # n => /\ file.recs[k].nip = r.nip => r.nip = 0
                                   /\ file.recs[k].mac = r.mac => r.mac = NoMac
      /\ n \in Nat
  BY <1>0, <1>r DEF Unique
<1>8. LosesNone BY <1>0, <1>u, SMTT(30) DEF LosesNone
<1> HIDE DEF s
<1>9. leases'[s].mac = r.mac /\ leases'[s].nip = r.nip /\ leases'[s].expires = now + left
  <2>1. leases'[s] = NewLease(r.mac, r.nip, left) BY <1>3, <1>4 DEF Added
  <2> QED BY <2>1, <1>1, SMTT(30) DEF NewLease
<1>10. \A i \in Slots : i # s => leases'[i] = IF Match(leases[i], r.mac, r.nip) THEN Empty ELSE leases[i]
  BY <1>4 DEF Added
<1>11. TypeOK' BY <1>0, <1>4, <1>6, <1>u DEF TypeOK, Added
<1>12. InBlock' /\ StaticHold' /\ UntilBound' BY <1>8, LosesClientSide
<1>13. FileBacked' BY <1>6, <1>8, LosesFileBacked
<1>14. LoadInv'
  <2> SUFFICES ASSUME NEW i \in Slots
               PROVE  /\ i >= n + 1 => leases'[i].expires = 0
                      /\ \/ leases'[i] = Empty
                         \/ \E k \in Slots : /\ k < n + 1 /\ file.recs[k].mac = leases'[i].mac
                                             /\ file.recs[k].nip = leases'[i].nip
    <3>1. n + 1 >= 1 BY <1>7, SMTT(30)
    <3> QED BY <3>1, <1>6, SMTT(30) DEF LoadInv, Slots, Empty
  <2>1. CASE i = s
    <3>1. i <= n /\ i \in Nat BY <2>1, <1>3, SMTT(30) DEF Slots
    <3>2. ~(i >= n + 1) /\ n < n + 1 BY <3>1, <1>7, SMTT(30)
    <3>3. file.recs[n].mac = leases'[i].mac /\ file.recs[n].nip = leases'[i].nip BY <2>1, <1>9, <1>r
    <3> QED BY <3>2, <3>3
  <2>2. CASE i # s /\ leases'[i] = Empty BY <2>2, SMTT(30) DEF Empty
  <2>3. CASE i # s /\ leases'[i] = leases[i] /\ leases[i] # Empty
    <3>1. i >= n => leases[i].expires = 0 BY <1>r, <1>a DEF LeaseInv, LoadInv
    <3>2. PICK k \in Slots : k < n /\ file.recs[k].mac = leases[i].mac /\ file.recs[k].nip = leases[i].nip
      BY <2>3, <1>r, <1>a DEF LeaseInv, LoadInv
    <3>3. i \in Nat /\ k \in Nat BY SMTT(30) DEF Slots
    <3>4. (i >= n + 1 => i >= n) /\ k < n + 1 BY <3>2, <3>3, <1>7, SMTT(30)
    <3> QED BY <2>3, <3>1, <3>2, <3>4
  <2> QED BY <2>1, <2>2, <2>3, <1>10
<1>15. TableBacked'
  <2> SUFFICES ASSUME NEW d \in Clients, Entitled(d)' PROVE InTable(d)' \/ ToLoad(d)'
    BY <1>a, <1>u DEF TableBacked
  <2>1. Entitled(d) /\ client'[d] = client[d] BY <1>0, <1>8, LosesEntitled
  <2>2. now < client[d].until /\ client[d].until \in Nat /\ d # NoMac
    BY <2>1, <1>0, UdhcpdAssumption DEF Entitled, Live, ClientType
  <2>3. CASE InTable(d)
    <3>1. PICK i \in Slots : Holds(leases[i], d) /\ leases[i].expires >= client[d].until
      BY <2>3 DEF InTable
    <3>2. leases[i].expires \in Nat BY <1>0 DEF Table, Record
    <3>3. ~(leases[i].expires < now) BY <3>1, <3>2, <2>2, <1>0, SMTT(30)
    <3>4. leases[i].mac = d BY <3>1 DEF Holds
    <3>5. leases[i] # Empty BY <3>4, <2>2, SMTT(30) DEF Empty
    <3>6. PICK k \in Slots : k < n /\ file.recs[k].mac = leases[i].mac /\ file.recs[k].nip = leases[i].nip
      BY <3>5, <1>r, <1>a DEF LeaseInv, LoadInv
    <3>7. k # n BY <3>6, <1>7, SMTT(30) DEF Slots
    <3>8. leases[i].mac # r.mac /\ leases[i].nip # r.nip BY <3>4, <3>6, <3>7, <2>2, <1>1, <1>7
    <3>9. ~Match(leases[i], r.mac, r.nip) BY <3>8 DEF Match
    <3>10. leases'[i] = leases[i] BY <3>3, <3>9, <1>4 DEF Added
    <3> QED BY <3>1, <3>10, <2>1 DEF InTable, Holds
  <2>4. CASE ToLoad(d)
    <3>1. PICK i \in Slots : /\ i >= n /\ file.recs[i].mac = d /\ file.recs[i].nip = client[d].ip
                             /\ now + file.recs[i].expires - file.passed >= client[d].until
      BY <2>4, <1>r DEF ToLoad, Holds
    <3>2. CASE i = n
      <4>1. leases'[s].mac = d /\ leases'[s].nip = client[d].ip /\ leases'[s].expires = now + left
        BY <3>1, <3>2, <1>9, <1>r
      <4>2. r.expires \in Nat /\ file.passed \in Nat BY <1>0 DEF Record
      <4>3. now + left >= client[d].until BY <3>1, <3>2, <1>r
      <4> QED BY <4>1, <4>3, <1>3, <2>1 DEF InTable, Holds
    <3>3. CASE i # n
      <4>1. i >= n + 1 BY <3>1, <3>3, <1>7, SMTT(30) DEF Slots
      <4>2. /\ i >= file'.next /\ file'.recs[i].mac = d /\ file'.recs[i].nip = client'[d].ip
            /\ now' + file'.recs[i].expires - file'.passed >= client'[d].until
        BY <4>1, <3>1, <1>6, <1>u
      <4> QED BY <4>2 DEF ToLoad, Holds
    <3> QED BY <3>2, <3>3
  <2> QED BY <2>1, <2>3, <2>4, <1>a DEF LeaseInv, TableBacked
<1>16. Dynamic'
  <2> SUFFICES ASSUME NEW i \in Slots, leases'[i].mac \notin DOMAIN static \cup {NoMac}
               PROVE  leases'[i].nip \in Addrs
    BY <1>u DEF Dynamic
  <2>1. CASE i = s BY <2>1, <1>9, <1>a
  <2>2. CASE i # s
    <3>1. leases'[i] = leases[i] BY <2>2, <1>10, SMTT(30) DEF Empty
    <3> QED BY <3>1 DEF LeaseInv, Dynamic
  <2> QED BY <2>1, <2>2
<1>17. Unique(file.recs)' BY <1>0, <1>6, SMTT(30) DEF Unique
<1>18. ScanInv' /\ Down' BY <1>a, <1>u DEF ScanInv, Down
<1> QED BY <1>5, <1>11, <1>12, <1>13, <1>14, <1>15, <1>16, <1>17, <1>18 DEF LeaseInv

\* A record that is out of the block or has no time left backs nobody.
LEMMA LoadSkip ==
  ASSUME LeaseInv, Skipping, NextRecord, Others
  PROVE  LeaseInv'
<1> DEFINE n == file.next
<1>u. /\ static' = static /\ now' = now /\ pc' = pc /\ scan' = scan /\ net' = net /\ client' = client
      /\ excused' = excused /\ reserved' = reserved /\ stops' = stops /\ faults' = faults
      /\ pc = "load" /\ leases' = leases
  BY DEF Others, Skipping
<1>0. /\ TypeOK /\ leases \in Table /\ now \in Nat \ {0} /\ client \in ClientType
      /\ file \in [at : Nat, recs : Table, next : Nat, passed : Nat] /\ n \in Nat
  BY DEF LeaseInv, TypeOK, ClientType
<1>1. /\ file' \in [at : Nat, recs : Table, next : Nat, passed : Nat] /\ file'.next = n + 1
      /\ file'.recs = file.recs /\ file'.at = file.at /\ file'.passed = file.passed
  BY DEF NextRecord
<1>2. LosesNone BY <1>0, <1>u, SMTT(30) DEF LosesNone
<1>r. n \in Slots /\ n = file.next
      /\ ~(file.recs[n].nip \in Addrs /\ file.recs[n].expires - file.passed > 0)
  BY DEF Skipping
<1> HIDE DEF n
<1>3. TypeOK' BY <1>0, <1>1, <1>u DEF TypeOK
<1>4. InBlock' /\ StaticHold' /\ UntilBound' BY <1>2, LosesClientSide
<1>5. FileBacked' BY <1>1, <1>2, LosesFileBacked
<1>6. TableBacked'
  <2> SUFFICES ASSUME NEW d \in Clients, Entitled(d)' PROVE InTable(d)' \/ ToLoad(d)'
    BY <1>u DEF TableBacked
  <2>1. Entitled(d) /\ client'[d] = client[d] BY <1>0, <1>2, LosesEntitled
  <2>2. now < client[d].until /\ client[d].until \in Nat /\ client[d].ip \in Addrs
    BY <2>1, <1>0 DEF Entitled, Live, ClientType, LeaseInv, InBlock
  <2>3. CASE InTable(d) BY <2>3, <1>u DEF InTable, Holds
  <2>4. CASE ToLoad(d)
    <3>1. PICK i \in Slots : /\ i >= n /\ file.recs[i].mac = d /\ file.recs[i].nip = client[d].ip
                             /\ now + file.recs[i].expires - file.passed >= client[d].until
      BY <2>4, <1>r DEF ToLoad, Holds
    <3>2. file.recs[i].expires \in Nat /\ file.passed \in Nat BY <1>0 DEF Table, Record
    <3>3. file.recs[i].expires - file.passed > 0 BY <3>1, <3>2, <2>2, <1>0, SMTT(30)
    <3>4. i # n BY <3>1, <3>3, <2>2, <1>r
    <3>5. i >= n + 1 BY <3>1, <3>4, <1>0, SMTT(30) DEF Slots
    <3>6. /\ i >= file'.next /\ file'.recs[i].mac = d /\ file'.recs[i].nip = client'[d].ip
          /\ now' + file'.recs[i].expires - file'.passed >= client'[d].until
      BY <3>1, <3>5, <1>1, <1>u
    <3> QED BY <3>6 DEF ToLoad, Holds
  <2> QED BY <2>1, <2>3, <2>4, <1>u DEF LeaseInv, TableBacked
<1>7. LoadInv'
  <2> SUFFICES ASSUME NEW i \in Slots
               PROVE  /\ i >= n + 1 => leases[i].expires = 0
                      /\ \/ leases[i] = Empty
                         \/ \E k \in Slots : /\ k < n + 1 /\ file.recs[k].mac = leases[i].mac
                                             /\ file.recs[k].nip = leases[i].nip
    <3>1. n + 1 >= 1 BY <1>0, SMTT(30)
    <3> QED BY <3>1, <1>1, <1>u, SMTT(30) DEF LoadInv, Slots, Empty
  <2>1. /\ i >= n => leases[i].expires = 0
        /\ \/ leases[i] = Empty
           \/ \E k \in Slots : /\ k < n /\ file.recs[k].mac = leases[i].mac
                               /\ file.recs[k].nip = leases[i].nip
    BY <1>r, <1>u DEF LeaseInv, LoadInv
  <2>2. i \in Nat /\ \A k \in Slots : k \in Nat BY SMTT(30) DEF Slots
  <2>3. (i >= n + 1 => i >= n) /\ \A k \in Slots : k < n => k < n + 1 BY <2>2, <1>0, SMTT(30)
  <2> QED BY <2>1, <2>3
<1>8. Unique(leases)' /\ Unique(file.recs)' BY <1>1, <1>u, SMTT(30) DEF LeaseInv, Unique
<1>9. Dynamic' BY <1>u DEF LeaseInv, Dynamic
<1>10. ScanInv' /\ Down' BY <1>u DEF ScanInv, Down
<1> QED BY <1>3, <1>4, <1>5, <1>6, <1>7, <1>8, <1>9, <1>10 DEF LeaseInv

\* The loop of read_leases.
LEMMA LoadStep == ASSUME LeastNumber, LeaseInv, Load PROVE LeaseInv'
<1>0. /\ leases \in Table /\ now \in Nat \ {0} /\ file \in [at : Nat, recs : Table, next : Nat, passed : Nat]
      /\ pc = "load" /\ file.next <= MaxLeases /\ MaxLeases \in Nat
      /\ UNCHANGED << static, now, pc, scan, net, client, excused, reserved, stops, faults >>
  BY UdhcpdAssumption DEF LeaseInv, TypeOK, Load
<1>o. Others BY <1>0 DEF Others
<1>1. file.next \in Slots
  <2>1. file.next >= 1 BY <1>0 DEF LeaseInv, LoadInv
  <2>2. file.next \in Nat BY <1>0
  <2> QED BY <2>1, <2>2, <1>0, SMTT(30) DEF Slots
<1>2. PICK n \in Slots : n = file.next BY <1>1
<1>3. file.recs[n] \in Record BY <1>0 DEF Table
<1>4. PICK r \in Record : r = file.recs[n] BY <1>3
<1> DEFINE left == r.expires - file.passed
<1>5. /\ r.expires \in Nat /\ file.passed \in Nat /\ r.nip \in Nat
      /\ r.mac \in Clients \cup {NoMac, Null}
  BY <1>0 DEF Record
<1>6. IF r.nip \in Addrs /\ left > 0
        THEN /\ leases' = add_lease(leases, r.mac, r.nip, left)
             /\ file' = [file EXCEPT !.next = IF slot_for(leases, r.mac, r.nip) = 0
                                                THEN MaxLeases + 1 ELSE n + 1]
        ELSE file' = [file EXCEPT !.next = n + 1] /\ UNCHANGED leases
  BY <1>2, <1>4 DEF Load
<1>7. ASSUME file' = [file EXCEPT !.next = n + 1] PROVE NextRecord
  <2>1. n + 1 \in Nat BY SMTT(30) DEF Slots
  <2> QED BY <2>1, <1>0, <1>2, <1>7 DEF NextRecord
<1>8. CASE r.nip \in Addrs /\ left > 0
  <2>1. left \in Nat /\ r.nip \in Nat \ {0} BY <1>5, <1>8, SMTT(30) DEF Addrs
  <2>2. Reading(n, r, left) BY <1>2, <1>4 DEF Reading
  <2>3. leases[n].expires = 0
    <3>1. n >= file.next BY <1>2, SMTT(30) DEF Slots
    <3> QED BY <3>1, <1>0 DEF LeaseInv, LoadInv
  <2>4. slot_for(leases, r.mac, r.nip) \in Slots BY <2>1, <2>3, <1>0, <1>5, LoadSlot
  <2>5. slot_for(leases, r.mac, r.nip) # 0 BY <2>4, SMTT(30) DEF Slots
  <2>6. file' = [file EXCEPT !.next = n + 1] /\ leases' = add_lease(leases, r.mac, r.nip, left)
    BY <2>5, <1>6, <1>8
  <2>7. NextRecord BY <2>6, <1>7
  <2> HIDE DEF left
  <2>8. Adding(r, left) BY <2>6, <1>0, <1>8 DEF Adding
  <2> QED BY <2>1, <2>2, <2>7, <2>8, <1>o, LoadAdd
<1>9. CASE ~(r.nip \in Addrs /\ left > 0)
  <2>1. file' = [file EXCEPT !.next = n + 1] /\ leases' = leases BY <1>6, <1>9
  <2>2. NextRecord BY <2>1, <1>7
  <2>3. ~(file.recs[file.next].nip \in Addrs /\ file.recs[file.next].expires - file.passed > 0)
    BY <1>2, <1>4, <1>9
  <2>4. Skipping BY <2>1, <2>3, <1>0, <1>1 DEF Skipping
  <2> QED BY <2>2, <2>4, <1>o, LoadSkip
<1> QED BY <1>8, <1>9

\* The end of read_leases: every lease that a client relies on is in the table.
LEMMA LoadedStep == ASSUME LeaseInv, Loaded PROVE LeaseInv'
<1>0. /\ TypeOK /\ now \in Nat /\ file \in [at : Nat, recs : Table, next : Nat, passed : Nat]
      /\ MaxLeases \in Nat
  BY UdhcpdAssumption DEF LeaseInv, TypeOK
<1>1. /\ pc = "load" /\ file.next > MaxLeases /\ pc' = "idle"
      /\ file' = [file EXCEPT !.next = 0, !.passed = 0]
      /\ UNCHANGED << leases, static, now, scan, net, client, excused, reserved, stops, faults >>
  BY DEF Loaded
<1>2. /\ file' \in [at : Nat, recs : Table, next : Nat, passed : Nat]
      /\ file'.recs = file.recs /\ file'.at = file.at
  BY <1>0, <1>1
<1>3. LosesNone BY <1>0, <1>1, SMTT(30) DEF LosesNone
<1>4. TypeOK' BY <1>0, <1>1 DEF TypeOK
<1>5. InBlock' /\ StaticHold' /\ UntilBound' BY <1>3, LosesClientSide
<1>6. FileBacked' BY <1>2, <1>3, LosesFileBacked
<1>7. TableBacked'
  <2> SUFFICES ASSUME NEW d \in Clients, Entitled(d)' PROVE InTable(d)' BY DEF TableBacked
  <2>1. Entitled(d) /\ client'[d] = client[d] BY <1>0, <1>3, LosesEntitled
  <2>2. ~ToLoad(d)
    <3>1. \A i \in Slots : ~(i >= file.next) BY <1>0, <1>1, SMTT(30) DEF Slots
    <3> QED BY <3>1 DEF ToLoad
  <2>3. InTable(d) BY <2>1, <2>2, <1>1 DEF LeaseInv, TableBacked
  <2> QED BY <2>3, <1>1 DEF InTable, Holds
<1>8. Unique(leases)' /\ Unique(file.recs)' BY <1>1, <1>2 DEF LeaseInv
<1>9. Dynamic' BY <1>1 DEF LeaseInv, Dynamic
<1>10. ScanInv' /\ LoadInv' /\ Down' BY <1>1 DEF ScanInv, LoadInv, Down
<1> QED BY <1>4, <1>5, <1>6, <1>7, <1>8, <1>9, <1>10 DEF LeaseInv

\* While the server runs, an entitled client's lease is in the table.
LEMMA Backing ==
  ASSUME LeaseInv, Running, NEW d \in Clients, Entitled(d), client'[d] = client[d]
  PROVE  \E i \in Slots : /\ leases[i].mac = d /\ leases[i].nip = client'[d].ip
                          /\ leases[i].expires >= client'[d].until
BY DEF LeaseInv, TableBacked, InTable, Holds, Running

\* write_leases on SIGUSR1 or by auto_time.
LEMMA WriteLeasesStep == ASSUME LeaseInv, WriteLeases PROVE LeaseInv'
<1>0. TypeOK /\ leases \in Table /\ now \in Nat \ {0} /\ client \in ClientType /\ Unique(leases)
  BY DEF LeaseInv, TypeOK, ClientType
<1>1. /\ pc = "idle" /\ file' = write_leases(leases)
      /\ UNCHANGED << leases, static, now, pc, scan, net, client, excused, reserved, stops, faults >>
  BY DEF WriteLeases
<1>2. LosesNone /\ Running /\ Running' /\ client' \in ClientType
  BY <1>0, <1>1, SMTT(30) DEF LosesNone, Running
<1>3. ASSUME NEW d \in Clients, Entitled(d)'
      PROVE  \E i \in Slots : /\ leases[i].mac = d /\ leases[i].nip = client'[d].ip
                              /\ leases[i].expires >= client'[d].until
  <2>1. Entitled(d) /\ client'[d] = client[d] BY <1>0, <1>2, <1>3, LosesEntitled
  <2> QED BY <2>1, <1>2, Backing
<1>4. /\ FileBacked' /\ Unique(file.recs)'
      /\ file' \in [at : Nat, recs : Table, next : Nat, passed : Nat]
  BY <1>0, <1>1, <1>3, WriteBacked
<1>5. TypeOK' BY <1>0, <1>1, <1>4 DEF TypeOK
<1>6. InBlock' /\ StaticHold' /\ UntilBound' BY <1>2, LosesClientSide
<1>7. TableBacked' BY <1>1, <1>2, LosesTableBacked
<1>t. leases' = leases /\ static' = static /\ Dynamic BY <1>1 DEF LeaseInv
<1>8. Unique(leases)' BY <1>0, <1>t
<1>9. Dynamic' BY <1>t DEF Dynamic
<1>10. ScanInv' /\ LoadInv' /\ Down' BY <1>1 DEF ScanInv, LoadInv, Down
<1> QED BY <1>4, <1>5, <1>6, <1>7, <1>8, <1>9, <1>10 DEF LeaseInv

\* The table of a new process, zeroed by xzalloc.
LEMMA EmptyTable ==
  LET t == [i \in Slots |-> Empty] IN
  t \in Table /\ Unique(t) /\ \A i \in Slots : t[i] = Empty /\ t[i].mac = NoMac /\ t[i].expires = 0
BY DEF Table, Record, Empty, Unique

\* A server that has stopped has nothing to keep.
LEMMA EmptyStep ==
  ASSUME leases' = [i \in Slots |-> Empty], pc' = "down"
  PROVE  Unique(leases)' /\ TableBacked' /\ Dynamic' /\ ScanInv' /\ LoadInv' /\ Down'
<1>1. /\ leases' \in Table /\ Unique(leases')
      /\ \A i \in Slots : leases'[i].mac = NoMac
  BY EmptyTable
<1>2. Unique(leases)' BY <1>1
<1>3. Dynamic' BY <1>1 DEF Dynamic
<1>4. TableBacked' /\ ScanInv' /\ LoadInv' BY DEF TableBacked, ScanInv, LoadInv
<1>5. Down' BY DEF Down
<1> QED BY <1>2, <1>3, <1>4, <1>5

\* A restart: the file has the leases whether or not the old server wrote it last.
LEMMA StopStep == ASSUME LeaseInv, Stop PROVE LeaseInv'
<1>0. TypeOK /\ leases \in Table /\ now \in Nat \ {0} /\ client \in ClientType /\ Unique(leases)
  BY DEF LeaseInv, TypeOK, ClientType
<1>1. /\ Running /\ pc' = "down" /\ scan' = NoScan /\ leases' = [i \in Slots |-> Empty]
      /\ file' = write_leases(leases) \/ file' = file
      /\ static' \in StaticConfigs \cup {static} /\ stops' = stops + 1
      /\ excused' = excused \cup DOMAIN static \cup DOMAIN static'
                           \cup {c \in Clients : client[c].ip \in StaticAddrs}
      /\ UNCHANGED << now, net, client, reserved, faults >>
  BY DEF Stop, Running
<1>2. ASSUME NEW d \in Clients, Live(d)' PROVE Live(d) BY <1>1, <1>2 DEF Live, Bound
<1>3. ASSUME NEW d \in Clients, Entitled(d)' PROVE Entitled(d) BY <1>1, <1>2, <1>3 DEF Entitled
<1>4. /\ FileBacked' /\ Unique(file.recs)'
      /\ file' \in [at : Nat, recs : Table, next : Nat, passed : Nat]
  <2>1. CASE file' = write_leases(leases)
    <3>1. ASSUME NEW d \in Clients, Entitled(d)'
          PROVE  \E i \in Slots : /\ leases[i].mac = d /\ leases[i].nip = client'[d].ip
                                  /\ leases[i].expires >= client'[d].until
      BY <3>1, <1>1, <1>3, Backing
    <3>2. client' \in ClientType BY <1>0, <1>1
    <3> QED BY <2>1, <3>1, <3>2, <1>0, WriteBacked
  <2>2. CASE file' = file
    <3>1. FileBacked'
      <4> SUFFICES ASSUME NEW d \in Clients, Entitled(d)'
                   PROVE  \E i \in Slots : /\ file.recs[i].mac = d /\ file.recs[i].nip = client[d].ip
                                           /\ file.at + file.recs[i].expires >= client[d].until
        BY <2>2, <1>1 DEF FileBacked, Holds
      <4> QED BY <1>3 DEF LeaseInv, FileBacked, Holds
    <3>2. Unique(file.recs)' BY <2>2 DEF LeaseInv
    <3> QED BY <3>1, <3>2, <2>2, <1>0 DEF TypeOK
  <2> QED BY <2>1, <2>2, <1>1
<1>5. TypeOK'
  <2>1. static' \in StaticConfigs \cup {NoStatic} BY <1>0, <1>1 DEF TypeOK
  <2>2. DOMAIN static \subseteq Clients BY <1>0, StaticType DEF TypeOK
  <2>3. DOMAIN static' \subseteq Clients BY <2>1, UdhcpdAssumption DEF NoStatic
  <2>4. excused' \subseteq Clients BY <2>2, <2>3, <1>0, <1>1 DEF TypeOK
  <2>5. leases' \in Table BY <1>1, EmptyTable
  <2>6. scan' \in [mac : Clients \cup {Null}, addr : Nat, oldest : 0..MaxLeases]
    BY <1>1, UdhcpdAssumption, SMTT(30) DEF NoScan
  <2>7. stops' \in Nat BY <1>0, <1>1, SMTT(30) DEF TypeOK
  <2> QED BY <2>1, <2>4, <2>5, <2>6, <2>7, <1>0, <1>1, <1>4 DEF TypeOK
<1>6. InBlock'
  <2> SUFFICES ASSUME NEW d \in Clients, Entitled(d)' PROVE client[d].ip \in Addrs
    BY <1>1 DEF InBlock
  <2> QED BY <1>3 DEF LeaseInv, InBlock
<1>7. StaticHold' BY <1>1 DEF StaticHold
<1>8. UntilBound'
  <2> SUFFICES ASSUME NEW d \in Clients, Live(d)' PROVE client[d].until <= now + select_lease_time(d)
    BY <1>1 DEF UntilBound
  <2> QED BY <1>2 DEF LeaseInv, UntilBound
<1>9. Unique(leases)' /\ TableBacked' /\ Dynamic' /\ ScanInv' /\ LoadInv' /\ Down'
  BY <1>1, EmptyStep
<1> QED BY <1>4, <1>5, <1>6, <1>7, <1>8, <1>9 DEF LeaseInv

\* A power cut loses every lease, and excuses every client.
LEMMA PowerCutStep == ASSUME LeaseInv, PowerCut PROVE LeaseInv'
<1>0. TypeOK BY DEF LeaseInv
<1>1. /\ pc' = "down" /\ scan' = NoScan /\ leases' = [i \in Slots |-> Empty] /\ file' = NoFile
      /\ excused' = excused \cup {c \in Clients : Live(c)} /\ reserved' = [a \in Addrs |-> 0]
      /\ UNCHANGED << static, now, net, client, stops >> /\ faults' = faults + 1
  BY DEF PowerCut
<1>2. LosesNone BY <1>0, <1>1, SMTT(30) DEF LosesNone, TypeOK
<1>3. ASSUME NEW d \in Clients, Entitled(d)' PROVE FALSE
  BY <1>0, <1>1, <1>2, <1>3, LosesEntitled DEF Entitled
<1>4. FileBacked' BY <1>3 DEF FileBacked
<1>5. [i \in Slots |-> Empty] \in Table /\ Unique([i \in Slots |-> Empty]) BY EmptyTable
<1>6. Unique(file.recs)'
  <2>1. file'.recs = [i \in Slots |-> Empty] BY <1>1 DEF NoFile
  <2> QED BY <2>1, <1>5
<1>7. InBlock' /\ StaticHold' /\ UntilBound' BY <1>2, LosesClientSide
<1>8. Unique(leases)' /\ TableBacked' /\ Dynamic' /\ ScanInv' /\ LoadInv' /\ Down'
  BY <1>1, EmptyStep
<1>9. TypeOK'
  <2>1. file' \in [at : Nat, recs : Table, next : Nat, passed : Nat] BY <1>1, <1>5 DEF NoFile
  <2>2. scan' \in [mac : Clients \cup {Null}, addr : Nat, oldest : 0..MaxLeases]
    BY <1>1, UdhcpdAssumption, SMTT(30) DEF NoScan
  <2>3. leases' \in Table BY <1>1, <1>5
  <2>4. excused' \subseteq Clients BY <1>0, <1>1 DEF TypeOK
  <2>5. reserved' \in [Addrs -> Nat] /\ faults' \in Nat BY <1>0, <1>1, SMTT(30) DEF TypeOK
  <2> QED BY <2>1, <2>2, <2>3, <2>5, <1>0, <1>1 DEF TypeOK
<1> QED BY <1>4, <1>6, <1>7, <1>8, <1>9 DEF LeaseInv

\* read_leases up to its loop: what is to be loaded is what clients rely on.
LEMMA StartStep == ASSUME LeaseInv, Start PROVE LeaseInv'
<1> DEFINE age == now - file.at
           trusted == age \in 0..FileTrust
<1>0. TypeOK /\ leases = [i \in Slots |-> Empty] BY DEF LeaseInv, Down, Start
<1>1. /\ pc' = "load"
      /\ file' = IF ~trusted THEN [file EXCEPT !.next = MaxLeases + 1]
                 ELSE [file EXCEPT !.next = 1, !.passed = age]
      /\ excused' = IF ~trusted THEN excused \cup {c \in Clients : Live(c)} ELSE excused
      /\ reserved' = IF ~trusted THEN [a \in Addrs |-> 0] ELSE reserved
      /\ UNCHANGED << leases, static, now, scan, net, client, stops, faults >>
  BY DEF Start
<1>2. /\ file \in [at : Nat, recs : Table, next : Nat, passed : Nat]
      /\ MaxLeases \in Nat /\ FileTrust \in Nat /\ now \in Nat /\ client \in ClientType
  BY <1>0, UdhcpdAssumption DEF TypeOK, ClientType
<1>3. trusted => age \in Nat BY <1>2, SMTT(30)
<1> HIDE DEF age, trusted
<1>4. /\ file' \in [at : Nat, recs : Table, next : Nat, passed : Nat]
      /\ file'.at = file.at /\ file'.recs = file.recs /\ (trusted => file'.next = 1 /\ file'.passed = age)
  <2>1. CASE trusted
    <3>1. file' = [file EXCEPT !.next = 1, !.passed = age] BY <2>1, <1>1
    <3> QED BY <3>1, <2>1, <1>2, <1>3
  <2>2. CASE ~trusted
    <3>1. file' = [file EXCEPT !.next = MaxLeases + 1] BY <2>2, <1>1
    <3> QED BY <3>1, <2>2, <1>2, SMTT(30)
  <2> QED BY <2>1, <2>2
<1>5. LosesNone BY <1>0, <1>1, <1>2, SMTT(30) DEF LosesNone
<1>6. TypeOK'
  <2>1. excused' \subseteq Clients /\ reserved' \in [Addrs -> Nat] BY <1>0, <1>1 DEF TypeOK
  <2> QED BY <1>0, <1>1, <1>4 DEF TypeOK
<1>7. FileBacked' BY <1>4, <1>5, LosesFileBacked
<1>8. InBlock' /\ StaticHold' /\ UntilBound' BY <1>5, LosesClientSide
<1>9. TableBacked'
  <2> SUFFICES ASSUME NEW d \in Clients, Entitled(d)' PROVE ToLoad(d)' BY <1>1 DEF TableBacked
  <2>1. Entitled(d) BY <1>0, <1>5, LosesEntitled
  <2>2. trusted BY <2>1, <1>1 DEF Entitled
  <2>3. PICK i \in Slots : Holds(file.recs[i], d) /\ file.at + file.recs[i].expires >= client[d].until
    BY <2>1 DEF LeaseInv, FileBacked
  <2>4. file.recs[i].expires \in Nat /\ client[d].until \in Nat
    BY <1>2 DEF Table, Record, ClientType
  <2>5. now + file.recs[i].expires - age >= client[d].until BY <2>3, <2>4, <1>2, SMTT(30) DEF age
  <2>6. i >= 1 BY SMTT(30) DEF Slots
  <2>7. /\ file'.recs[i].mac = d /\ file'.recs[i].nip = client'[d].ip /\ i >= file'.next
        /\ now' + file'.recs[i].expires - file'.passed >= client'[d].until
    BY <2>2, <2>3, <2>5, <2>6, <1>1, <1>4 DEF Holds
  <2> QED BY <2>7 DEF ToLoad, Holds
<1>10. \A i \in Slots : leases'[i] = Empty /\ leases'[i].expires = 0
  BY <1>0, <1>1 DEF Empty
<1>11. LoadInv'
  <2>1. file'.next >= 1
    <3>1. CASE trusted BY <3>1, <1>4, SMTT(30)
    <3>2. CASE ~trusted
      <4>1. file'.next = MaxLeases + 1 BY <3>2, <1>1, <1>2
      <4> QED BY <4>1, <1>2, SMTT(30)
    <3> QED BY <3>1, <3>2
  <2> QED BY <2>1, <1>10 DEF LoadInv
<1>12. Unique(leases)' /\ Unique(file.recs)' BY <1>1, <1>4 DEF LeaseInv
<1>13. Dynamic' BY <1>1 DEF LeaseInv, Dynamic
<1>14. ScanInv' /\ Down' BY <1>1 DEF ScanInv, Down
<1> QED BY <1>6, <1>7, <1>8, <1>9, <1>11, <1>12, <1>13, <1>14 DEF LeaseInv

----------------------------------------------------------------------------
\* The first start of the device.
LEMMA LeaseInvInit == Init => LeaseInv
<1> SUFFICES ASSUME Init PROVE LeaseInv OBVIOUS
<1>1. [i \in Slots |-> Empty] \in Table /\ Unique([i \in Slots |-> Empty])
      /\ \A i \in Slots : [k \in Slots |-> Empty][i].mac = NoMac
  BY EmptyTable
<1>2. TypeOK
  <2>1. scan \in [mac : Clients \cup {Null}, addr : Nat, oldest : 0..MaxLeases]
    BY UdhcpdAssumption, SMTT(30) DEF Init, NoScan
  <2>2. file \in [at : Nat, recs : Table, next : Nat, passed : Nat] BY <1>1 DEF Init, NoFile
  <2>3. client \in [Clients -> [st : {"init", "requesting", "bound"}, ip : Nat, until : Nat]]
    BY DEF Init, Unbound
  <2>4. leases \in Table BY <1>1 DEF Init
  <2>5. reserved \in [Addrs -> Nat] BY DEF Init
  <2> QED BY <2>1, <2>2, <2>3, <2>4, <2>5, SMTT(30) DEF Init, TypeOK
<1>3. ASSUME NEW c \in Clients PROVE ~Live(c) BY DEF Init, Live, Bound, Unbound
<1>4. FileBacked /\ TableBacked /\ InBlock /\ StaticHold /\ UntilBound
  BY <1>3 DEF FileBacked, TableBacked, InBlock, StaticHold, UntilBound, Entitled
<1>5. Unique(leases) /\ Unique(file.recs) BY <1>1 DEF Init, NoFile
<1>6. Dynamic BY <1>1 DEF Init, Dynamic
<1>7. ScanInv /\ LoadInv /\ Down BY DEF Init, ScanInv, LoadInv, Down
<1> QED BY <1>2, <1>4, <1>5, <1>6, <1>7 DEF LeaseInv

\* Nothing happens.
LEMMA StutterStep == ASSUME LeaseInv, UNCHANGED vars PROVE LeaseInv'
<1>0. TypeOK BY DEF LeaseInv
<1>1. UNCHANGED << leases, static, now, pc, scan, file, net, client, excused, reserved, stops, faults >>
  BY DEF vars
<1>2. LosesNone BY <1>0, <1>1, SMTT(30) DEF LosesNone, TypeOK
<1>3. TypeOK' BY <1>0, <1>1 DEF TypeOK
<1>4. InBlock' /\ StaticHold' /\ UntilBound' BY <1>2, LosesClientSide
<1>5. FileBacked' BY <1>1, <1>2, LosesFileBacked
<1>6. TableBacked' BY <1>1, <1>2, SameTableBacked
<1>7. Unique(leases)' /\ Unique(file.recs)' /\ Dynamic' /\ ScanInv' /\ LoadInv' /\ Down'
  BY <1>1, ServerSame
<1> QED BY <1>3, <1>4, <1>5, <1>6, <1>7 DEF LeaseInv

\* The invariant is inductive, action by action.
LEMMA LeaseInvNext == ASSUME LeastNumber, LeaseInv, [Next]_vars PROVE LeaseInv'
<1>1. ASSUME NEW c \in Clients, Discover(c) \/ Renew(c) \/ Reboot(c) \/ Release(c) \/ Decline(c)
      PROVE  LeaseInv'
  BY <1>1, ClientSteps
<1>2. CASE Tick BY <1>2, TickStep
<1>3. CASE SetClock BY <1>3, SetClockStep
<1>4. ASSUME NEW m \in net, RecvDiscover(m) PROVE LeaseInv' BY <1>4, RecvDiscoverStep
<1>5. ASSUME NEW m \in net, RecvRequest(m) PROVE LeaseInv' BY <1>5, RecvRequestStep
<1>6. ASSUME NEW m \in net, RecvDecline(m) PROVE LeaseInv' BY <1>6, RecvDeclineStep
<1>7. ASSUME NEW m \in net, RecvRelease(m) PROVE LeaseInv' BY <1>7, RecvReleaseStep
<1>8. CASE Scan BY <1>8, ScanStep
<1>9. CASE ScanEnd BY <1>9, ScanEndStep
<1>10. CASE WriteLeases BY <1>10, WriteLeasesStep
<1>11. CASE Stop BY <1>11, StopStep
<1>12. CASE PowerCut BY <1>12, PowerCutStep
<1>13. CASE Start BY <1>13, StartStep
<1>14. CASE Load BY <1>14, LoadStep
<1>15. CASE Loaded BY <1>15, LoadedStep
<1>16. CASE UNCHANGED vars BY <1>16, StutterStep
<1> QED
  BY <1>1, <1>2, <1>3, <1>4, <1>5, <1>6, <1>7, <1>8, <1>9, <1>10, <1>11, <1>12, <1>13, <1>14, <1>15,
     <1>16
  DEF Next

\* A client that is not excused holds its static address or a lease that the file records, and
\* the file records each address once.
LEMMA LeaseInvExcludes == LeaseInv => NoDoubleLease
<1> SUFFICES ASSUME LeaseInv, NEW c \in Clients \ excused, NEW d \in Clients \ excused, c # d,
                    Live(c), Live(d), client[c].ip = client[d].ip, client[c].ip \notin StaticAddrs
             PROVE  FALSE
  BY DEF NoDoubleLease
<1>1. c \notin DOMAIN static /\ d \notin DOMAIN static BY DEF LeaseInv, StaticHold, StaticAddrs
<1>2. Entitled(c) /\ Entitled(d) BY <1>1 DEF Entitled
<1>3. PICK i \in Slots : Holds(file.recs[i], c) BY <1>2 DEF LeaseInv, FileBacked
<1>4. PICK j \in Slots : Holds(file.recs[j], d) BY <1>2 DEF LeaseInv, FileBacked
<1>5. file.recs[i].mac # file.recs[j].mac /\ file.recs[i].nip = file.recs[j].nip
  BY <1>3, <1>4 DEF Holds
<1>6. i # j BY <1>5
<1>7. file.recs[i].nip = 0 BY <1>5 DEF LeaseInv, Unique
<1>8. client[c].ip \in Addrs BY <1>2 DEF LeaseInv, InBlock
<1> QED BY <1>3, <1>7, <1>8, SMTT(30) DEF Holds, Addrs

----------------------------------------------------------------------------
LOCAL INSTANCE WellFoundedInduction

\* A nonempty set of numbers has a least one: < is well founded on Nat.
LEMMA LeastNumberExists == LeastNumber
<1> SUFFICES ASSUME NEW T \in SUBSET Nat, T # {} PROVE \E x \in T : \A y \in T : x <= y
  BY DEF LeastNumber
<1> DEFINE R == {p \in Nat \X Nat : p[1] < p[2]}
<1>1. IsWellFoundedOn(R, Nat) BY NatLessThanWellFounded DEF OpToRel
<1>2. PICK x \in T : \A y \in T : ~(<<y, x>> \in R)
  <2>1. T \subseteq Nat OBVIOUS
  <2> HIDE DEF R
  <2> QED BY <1>1, WFMin
<1>3. ASSUME NEW y \in T PROVE x <= y
  <2>1. <<y, x>> \in Nat \X Nat /\ x \in Nat /\ y \in Nat OBVIOUS
  <2>2. ~(y < x) BY <1>2
  <2> QED BY <2>1, <2>2, SMTT(30)
<1> QED BY <1>3

\* LeaseInv holds in every behaviour.
LEMMA LeaseInvAlways == Spec => []LeaseInv
<1>1. LeaseInv /\ [Next]_vars => LeaseInv' BY LeaseInvNext, LeastNumberExists
<1> QED BY <1>1, LeaseInvInit, PTL DEF Spec

\* Every record of the table, the file, the search and the clients keeps its type.
THEOREM LeaseTypeCorrect == Spec => []TypeOK
<1>1. LeaseInv => TypeOK BY DEF LeaseInv
<1> QED BY <1>1, LeaseInvAlways, PTL

\* add_lease and the handlers never leave two slots for one address or one client.
THEOREM LeaseTableUnique == Spec => []TableUnique
<1>1. LeaseInv => TableUnique BY DEF LeaseInv, Unique, TableUnique
<1> QED BY <1>1, LeaseInvAlways, PTL

\* No two clients hold an address at once: for every block, table size, lease time, set of
\* clients and static leases, with any number of messages, expiries, restarts and power cuts.
THEOREM LeaseExclusive == Spec => []NoDoubleLease
BY LeaseInvExcludes, LeaseInvAlways, PTL

\* A declined or conflicting address stays reserved for its whole time, whatever is searched,
\* offered or acknowledged, until the server restarts.
THEOREM ReservationsAreKept == Spec => []ReservationKept
<1>1. Init => Reservations
  <2> SUFFICES ASSUME Init PROVE Reservations OBVIOUS
  <2>1. pc = "idle" /\ \A a \in Addrs : ~(reserved[a] > now) BY SMTT(30) DEF Init
  <2> QED BY <2>1 DEF Reservations, Reserved, Running
<1>2. LeaseInv /\ Reservations /\ [Next]_vars => Reservations' BY ReservationsNext, LeastNumberExists
<1>3. Reservations => ReservationKept BY DEF Reservations, ReservationKept
<1> QED BY <1>1, <1>2, <1>3, LeaseInvAlways, PTL DEF Spec

=============================================================================
