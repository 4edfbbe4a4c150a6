------------------------------- MODULE Udhcpd -------------------------------
(***************************************************************************)
(* The DHCP server of the router's LAN (busybox udhcpd): its lease table,  *)
(* the search for a free address with its ARP probes, the handlers of the  *)
(* five messages, and the leases file through SIGTERM, restart and power   *)
(* cuts (the file is on the ramdisk).  The server is single-threaded; the  *)
(* search and the loading of the file are taken in steps, one address or   *)
(* record at a time, because time passes and clients act while it probes.  *)
(*                                                                         *)
(* The clients are external: they follow RFC 2131.  The server may receive *)
(* a message of theirs at any moment after its sending, several times or   *)
(* never; an answer arrives or is lost.                                    *)
(***************************************************************************)
EXTENDS Integers, FiniteSets

CONSTANTS Clients,       \* hardware addresses of the clients
          NoMac, Null,   \* six zero bytes; no pointer
          Last,          \* the lease block is 1..Last
          MaxLeases,     \* max_leases
          Unusable,      \* addresses ending in 0 or 255, the server's own
          StaticConfigs, \* static_lease lines: functions from some clients to addresses
          Foreign,       \* addresses that other stations have without asking
          Wishes,        \* the addresses a DISCOVER may ask for, 0 for no option
          Asked,         \* the lease time each client asks for, 0 for no option
          MaxLease, MinLease, OfferTime, DeclineTime, ConflictTime,
          FileTrust,     \* a leases file older than this is not read (12 hours)
          MaxTime, MaxNet, MaxFaults   \* bounds

ASSUME UdhcpdAssumption ==
  /\ Last \in Nat /\ MaxLeases \in Nat /\ NoMac \notin Clients /\ Null \notin Clients \cup {NoMac}
  /\ Asked \in [Clients -> Nat] /\ MaxLease \in Nat /\ MinLease \in Nat
  /\ Wishes \subseteq Nat /\ OfferTime \in Nat /\ DeclineTime \in Nat /\ ConflictTime \in Nat
  /\ FileTrust \in Nat /\ MaxTime \in Nat /\ MaxFaults \in Nat
  /\ \A f \in StaticConfigs : DOMAIN f \subseteq Clients /\ \A c \in DOMAIN f : f[c] \in Nat \ {0}

VARIABLES leases,    \* g_leases
          static,    \* the static leases of the running server
          now,       \* time(NULL)
          pc,        \* idle, scan, load, down
          scan,      \* the search: for whom, the next address, oldest_lease
          file,      \* the leases file, and how much of it is loaded
          net,       \* requests on their way to the server
          client,    \* what each client believes
          excused,   \* clients whose lease the server cannot be expected to know
          reserved,  \* until when an address was declined or in conflict
          stops, faults
vars == << leases, static, now, pc, scan, file, net, client, excused, reserved, stops, faults >>

Slots == 1..MaxLeases
Addrs == 1..Last
Empty == [mac |-> NoMac, nip |-> 0, expires |-> 0]
NoScan == [mac |-> Null, addr |-> 0, oldest |-> 0]
NoFile == [at |-> 0, recs |-> [i \in Slots |-> Empty], next |-> 0, passed |-> 0]
NoStatic == [c \in {} |-> 0]   \* as shipped
Unbound == [st |-> "init", ip |-> 0, until |-> 0]
StaticAddrs == {static[c] : c \in DOMAIN static}

----------------------------------------------------------------------------
\* leases.c

is_expired_lease(l) == l.expires < now

\* Mutant: another client's lease of the address stays.
clear_leasesOfMac(t, mac, nip) == [i \in Slots |-> IF mac # Null /\ t[i].mac = mac THEN Empty ELSE t[i]]

clear_leases(t, mac, nip) ==
  [i \in Slots |-> IF (mac # Null /\ t[i].mac = mac) \/ (nip # 0 /\ t[i].nip = nip)
                     THEN Empty ELSE t[i]]

\* The first of the slots that expired longest ago; 0 for NULL.
oldest_expired_lease(t) ==
  LET old == {i \in Slots : is_expired_lease(t[i])}
  IN IF old = {} THEN 0
     ELSE CHOOSE i \in old : \A j \in old : \/ t[i].expires < t[j].expires
                                            \/ t[i].expires = t[j].expires /\ i <= j

\* The slot add_lease fills, 0 when every one is in use, and the table it leaves.
slot_for(t, mac, nip) == oldest_expired_lease(clear_leases(t, mac, nip))
add_lease(t, mac, nip, time) ==
  LET c == clear_leases(t, mac, nip)
      s == slot_for(t, mac, nip)
  IN IF s = 0 THEN c
     ELSE [c EXCEPT ![s] = [mac |-> IF mac = Null THEN NoMac ELSE mac,
                            nip |-> nip, expires |-> now + time]]

\* find_lease_by_mac and find_lease_by_nip: the first slot, 0 for NULL.
First(S) == IF S = {} THEN 0 ELSE CHOOSE i \in S : \A j \in S : i <= j
find_lease_by_mac(mac) == First({i \in Slots : leases[i].mac = mac})
find_lease_by_nip(nip) == First({i \in Slots : leases[i].nip = nip})

\* write_leases: what is left of each lease.  The file has no records for empty slots; here
\* Load passes over them.
write_leases(t) ==
  [at |-> now, next |-> 0, passed |-> 0,
   recs |-> [i \in Slots |-> [t[i] EXCEPT !.expires = IF @ < now THEN 0 ELSE @ - now]]]

----------------------------------------------------------------------------
\* The clients and the network.

Bound(c) == client[c].st = "bound"
Live(c) == Bound(c) /\ now < client[c].until

\* Who may answer an ARP probe for nip: not the client it is meant for.
Occupied(nip, mac) == nip \in Foreign \/ \E c \in Clients \ {mac} : Live(c) /\ client[c].ip = nip

\* The requested-IP option and ciaddr, 0 for none.  Only a REQUEST without the option comes
\* without a server identifier that matters.
Msg(type, c, req, ci) == [type |-> type, mac |-> c, req |-> req, ci |-> ci]

Init ==
  /\ leases = [i \in Slots |-> Empty] /\ static = NoStatic /\ now = 1 /\ pc = "idle"
  /\ scan = NoScan /\ file = NoFile /\ net = {}
  /\ client = [c \in Clients |-> Unbound]
  /\ excused = {} /\ reserved = [a \in Addrs |-> 0]
  /\ stops = 0 /\ faults = 0

Post(m) == Cardinality(net \cup {m}) <= MaxNet /\ net' = net \cup {m}
Send(m) ==
  /\ Post(m)
  /\ UNCHANGED << leases, static, now, pc, scan, file, excused, reserved, stops, faults >>

\* A client starts over, and may ask for the address it had, here or elsewhere.
Discover(c) ==
  /\ ~Live(c)
  /\ \E a \in Wishes : Send(Msg("DISCOVER", c, a, 0))
  /\ client' = [client EXCEPT ![c] = Unbound]
\* RENEWING or REBINDING
Renew(c) ==
  /\ Live(c)
  /\ Send(Msg("REQUEST", c, 0, client[c].ip))
  /\ UNCHANGED client
\* INIT-REBOOT
Reboot(c) ==
  /\ Bound(c)
  /\ Send(Msg("REQUEST", c, client[c].ip, 0))
  /\ client' = [client EXCEPT ![c] = [st |-> "requesting", ip |-> @.ip, until |-> 0]]
Release(c) ==
  /\ Live(c)
  /\ Send(Msg("RELEASE", c, 0, client[c].ip))
  /\ client' = [client EXCEPT ![c] = Unbound]
\* The client finds that another station has its new address.
Decline(c) ==
  /\ Live(c) /\ Occupied(client[c].ip, c)
  /\ Send(Msg("DECLINE", c, client[c].ip, 0))
  /\ client' = [client EXCEPT ![c] = Unbound]

Tick ==
  /\ now < MaxTime
  /\ now' = now + 1
  /\ UNCHANGED << leases, static, pc, scan, file, net, client, excused, reserved, stops, faults >>

\* The nightly rdate sets the clock; the clients' clocks are their own.
SetClock ==
  /\ stops + faults < MaxFaults /\ faults' = faults + 1
  /\ \E t \in 1..MaxTime :
       /\ now' = t
       /\ client' = [c \in Clients |->
                       [client[c] EXCEPT !.until = IF @ + t < now THEN 0 ELSE @ + t - now]]
       /\ excused' = IF t > now THEN excused \cup {c \in Clients : Live(c)} ELSE excused
  /\ reserved' = [a \in Addrs |-> IF reserved[a] > now THEN reserved[a] ELSE 0]
  /\ UNCHANGED << leases, static, pc, scan, file, net, stops >>

----------------------------------------------------------------------------
\* dhcpd.c

select_lease_time(c) ==
  LET short == IF Asked[c] > MaxLease THEN MaxLease ELSE Asked[c]
  IN IF Asked[c] = 0 THEN MaxLease ELSE IF short < MinLease THEN MinLease ELSE short

Received(m) == pc = "idle" /\ m \in net /\ UNCHANGED << static, now, stops, faults >>

\* A message that gives up a lease the client has again by now.
Stale(c) == excused' = IF Live(c) THEN excused \cup {c} ELSE excused

\* The OFFER reaches a client that waits for one, which answers at once; or it is lost.
OfferTo(c, ip) ==
  \/ UNCHANGED << net, client >>
  \/ /\ client[c].st = "init"
     /\ client' = [client EXCEPT ![c] = [st |-> "requesting", ip |-> ip, until |-> 0]]
     /\ Post(Msg("REQUEST", c, ip, 0))

\* send_offer once the address is known: a short lease, then the OFFER.
OfferDynamic(c, ip) ==
  /\ leases' = add_lease(leases, c, ip, OfferTime)
  /\ IF slot_for(leases, c, ip) # 0 THEN OfferTo(c, ip)
     ELSE UNCHANGED << net, client >>

\* Mutant: the lease of the requested address is not looked at.
requested_freeInBlock(nip) == nip \in Addrs

\* The address asked for is in the block and has no lease, or an expired one.
requested_free(nip) ==
  LET other == find_lease_by_nip(nip)
  IN nip \in Addrs /\ (other # 0 => is_expired_lease(leases[other]))

\* send_offer up to the search.
RecvDiscover(m) ==
  LET c == m.mac
      mine == find_lease_by_mac(c)
      wish == requested_free(m.req)
  IN /\ m.type = "DISCOVER" /\ Received(m)
     /\ \/ /\ c \in DOMAIN static
           /\ OfferTo(c, static[c]) /\ UNCHANGED << leases, pc, scan >>
        \/ /\ c \notin DOMAIN static /\ mine # 0
           /\ OfferDynamic(c, leases[mine].nip) /\ UNCHANGED << pc, scan >>
        \/ /\ c \notin DOMAIN static /\ mine = 0 /\ wish
           /\ OfferDynamic(c, m.req) /\ UNCHANGED << pc, scan >>
        \/ /\ c \notin DOMAIN static /\ mine = 0 /\ ~wish
           /\ pc' = "scan" /\ scan' = [mac |-> c, addr |-> 1, oldest |-> 0]
           /\ UNCHANGED << leases, net, client >>
     /\ Stale(c)
     /\ UNCHANGED << file, reserved >>

\* Mutant: the reservation has no duration.
ConflictUntimed(nip) ==
  /\ leases' = add_lease(leases, Null, nip, 0)
  /\ reserved' = [reserved EXCEPT ![nip] = now + ConflictTime]

\* nobody_responds_to_arp found somebody: the address is reserved.
Conflict(nip) ==
  /\ leases' = add_lease(leases, Null, nip, ConflictTime)
  /\ reserved' = IF slot_for(leases, Null, nip) = 0 THEN reserved
                 ELSE [reserved EXCEPT ![nip] = now + ConflictTime]

\* find_free_or_expired_nip, one address.
Scan ==
  LET a == scan.addr
      s == find_lease_by_nip(a)
      better == scan.oldest = 0 \/ leases[s].expires < leases[scan.oldest].expires
      onward == scan' = [scan EXCEPT !.addr = @ + 1] /\ UNCHANGED << pc, net, client >>
  IN /\ pc = "scan" /\ a <= Last
     /\ \/ /\ a \in Unusable \cup StaticAddrs
           /\ onward /\ UNCHANGED << leases, reserved >>
        \/ /\ a \notin Unusable \cup StaticAddrs /\ s # 0
           /\ scan' = [scan EXCEPT !.addr = @ + 1, !.oldest = IF better THEN s ELSE @]
           /\ UNCHANGED << leases, reserved, pc, net, client >>
        \/ /\ a \notin Unusable \cup StaticAddrs /\ s = 0
           /\ \/ Occupied(a, scan.mac) /\ Conflict(a) /\ onward
              \/ /\ OfferDynamic(scan.mac, a)
                 /\ pc' = "idle" /\ scan' = NoScan /\ UNCHANGED reserved
     /\ UNCHANGED << static, now, file, excused, stops, faults >>

\* Every address has a lease: the oldest is taken if it has expired.
ScanEnd ==
  LET l == leases[scan.oldest]
  IN /\ pc = "scan" /\ scan.addr > Last
     /\ pc' = "idle" /\ scan' = NoScan
     /\ \/ /\ scan.oldest # 0 => ~is_expired_lease(l)
           /\ UNCHANGED << leases, reserved, net, client >>
        \/ /\ scan.oldest # 0 /\ is_expired_lease(l)
           /\ \/ Occupied(l.nip, scan.mac) /\ Conflict(l.nip) /\ UNCHANGED << net, client >>
              \/ OfferDynamic(scan.mac, l.nip) /\ UNCHANGED reserved
     /\ UNCHANGED << static, now, file, excused, stops, faults >>

\* The lease of the message's sender: a static one is a record of its own.
HasLease(c) == c \in DOMAIN static \/ find_lease_by_mac(c) # 0
LeaseNip(c) == IF c \in DOMAIN static THEN static[c] ELSE leases[find_lease_by_mac(c)].nip

\* An ACK or NAK counts for a client that has asked for that address.
Waiting(c, nip) ==
  \/ client[c].st = "requesting" /\ client[c].ip = nip
  \/ Live(c) /\ client[c].ip = nip

\* send_ACK: the answer first, then the table and the file.
RecvRequest(m) ==
  LET c == m.mac
      nip == IF m.req # 0 THEN m.req ELSE m.ci
  IN /\ m.type = "REQUEST" /\ Received(m)
     /\ IF HasLease(c) /\ LeaseNip(c) = nip
          THEN /\ leases' = add_lease(leases, c, nip, select_lease_time(c))
               /\ file' = write_leases(leases')
               /\ \/ /\ Waiting(c, nip)
                     /\ client' = [client EXCEPT ![c] = [st |-> "bound", ip |-> nip,
                                                        until |-> now + select_lease_time(c)]]
                     /\ excused' = excused \ {c}
                  \/ UNCHANGED << client, excused >>
          ELSE /\ \/ /\ m.req # 0
                     /\ Waiting(c, nip)
                     /\ client' = [client EXCEPT ![c] = Unbound]
                  \/ UNCHANGED client
               /\ UNCHANGED << leases, file, excused >>
     /\ UNCHANGED << pc, scan, net, reserved >>

RecvDecline(m) ==
  LET s == find_lease_by_mac(m.mac)
  IN /\ m.type = "DECLINE" /\ Received(m)
     /\ IF m.mac \notin DOMAIN static /\ s # 0 /\ leases[s].nip = m.req
          THEN /\ leases' = [leases EXCEPT ![s].mac = NoMac, ![s].expires = now + DeclineTime]
               /\ reserved' = [reserved EXCEPT ![m.req] = now + DeclineTime]
               /\ Stale(m.mac)
          ELSE UNCHANGED << leases, reserved, excused >>
     /\ UNCHANGED << pc, scan, file, net, client >>

RecvRelease(m) ==
  LET s == find_lease_by_mac(m.mac)
  IN /\ m.type = "RELEASE" /\ Received(m)
     /\ IF m.mac \notin DOMAIN static /\ s # 0 /\ leases[s].nip = m.ci
          THEN leases' = [leases EXCEPT ![s].expires = now] /\ Stale(m.mac)
          ELSE UNCHANGED << leases, excused >>
     /\ UNCHANGED << pc, scan, file, net, client, reserved >>

\* SIGUSR1, or auto_time has passed.
WriteLeases ==
  /\ pc = "idle" /\ stops + faults < MaxFaults   \* bound: a file nobody will read is left alone
  /\ file' = write_leases(leases)
  /\ UNCHANGED << leases, static, now, pc, scan, net, client, excused, reserved, stops, faults >>

\* The web page restarts the server after every change: pkill, and the new one is started
\* at once.  It reads the file before or after the old one, which may be probing, writes it.
Stop ==
  /\ pc \in {"idle", "scan"} /\ stops + faults < MaxFaults
  /\ stops' = stops + 1
  /\ \/ pc = "idle" /\ file' = write_leases(leases)
     \/ UNCHANGED file
  /\ pc' = "down" /\ scan' = NoScan /\ leases' = [i \in Slots |-> Empty]
  /\ static' \in StaticConfigs \cup {static}
  /\ excused' = excused \cup DOMAIN static \cup DOMAIN static'
                       \cup {c \in Clients : client[c].ip \in StaticAddrs}
  /\ UNCHANGED << now, net, client, reserved, faults >>

\* Power is lost: the ramdisk goes with it, and every lease is forgotten.
PowerCut ==
  /\ stops + faults < MaxFaults
  /\ faults' = faults + 1
  /\ pc' = "down" /\ scan' = NoScan /\ file' = NoFile
  /\ leases' = [i \in Slots |-> Empty]
  /\ excused' = excused \cup {c \in Clients : Live(c)}
  /\ reserved' = [a \in Addrs |-> 0]
  /\ UNCHANGED << static, now, net, client, stops >>

\* read_leases up to its loop: an old file is not read.
Start ==
  LET age == now - file.at
  IN /\ pc = "down"
     /\ pc' = "load"
     /\ IF age \notin 0..FileTrust
          THEN /\ file' = [file EXCEPT !.next = MaxLeases + 1]
               /\ excused' = excused \cup {c \in Clients : Live(c)}
               /\ reserved' = [a \in Addrs |-> 0]
          ELSE /\ file' = [file EXCEPT !.next = 1, !.passed = age]
               /\ UNCHANGED << excused, reserved >>
     /\ UNCHANGED << leases, static, now, scan, net, client, stops, faults >>

\* The loop of read_leases; add_lease is given the record's six bytes, zero or not.
Load ==
  LET r == file.recs[file.next]
      left == r.expires - file.passed
  IN /\ pc = "load" /\ file.next <= MaxLeases
     /\ IF r.nip \in Addrs /\ left > 0
          THEN /\ leases' = add_lease(leases, r.mac, r.nip, left)
               /\ file' = [file EXCEPT !.next = IF slot_for(leases, r.mac, r.nip) = 0
                                                  THEN MaxLeases + 1 ELSE @ + 1]
          ELSE file' = [file EXCEPT !.next = @ + 1] /\ UNCHANGED leases
     /\ UNCHANGED << static, now, pc, scan, net, client, excused, reserved, stops, faults >>
Loaded ==
  /\ pc = "load" /\ file.next > MaxLeases
  /\ pc' = "idle" /\ file' = [file EXCEPT !.next = 0, !.passed = 0]
  /\ UNCHANGED << leases, static, now, scan, net, client, excused, reserved, stops, faults >>

Next ==
  \/ \E c \in Clients : Discover(c) \/ Renew(c) \/ Reboot(c) \/ Release(c) \/ Decline(c)
  \/ Tick \/ SetClock
  \/ \E m \in net : RecvDiscover(m) \/ RecvRequest(m) \/ RecvDecline(m) \/ RecvRelease(m)
  \/ Scan \/ ScanEnd \/ WriteLeases \/ Stop \/ PowerCut \/ Start \/ Load \/ Loaded

Spec == Init /\ [][Next]_vars

----------------------------------------------------------------------------
Record == [mac : Clients \cup {NoMac}, nip : Nat, expires : Nat]
Table == [Slots -> Record]
\* Types of all variables; times never become negative (leasetime_t is unsigned, and
\* write_leases stores 0 for a lease that has expired).
TypeOK ==
  /\ leases \in Table /\ now \in Nat \ {0} /\ pc \in {"idle", "scan", "load", "down"}
  /\ static \in StaticConfigs \cup {NoStatic}
  /\ scan \in [mac : Clients \cup {Null}, addr : Nat, oldest : 0..MaxLeases]
  /\ file \in [at : Nat, recs : Table, next : Nat, passed : Nat]
  /\ net \subseteq [type : {"DISCOVER", "REQUEST", "DECLINE", "RELEASE"}, mac : Clients, req : Nat, ci : Nat]
  /\ client \in [Clients -> [st : {"init", "requesting", "bound"}, ip : Nat, until : Nat]]
  /\ excused \subseteq Clients /\ reserved \in [Addrs -> Nat] /\ stops \in Nat /\ faults \in Nat

\* No two slots are for the same address or for the same client: the first match that
\* find_lease_by_mac and find_lease_by_nip return is the only one.
TableUnique ==
  \A i, j \in Slots : i # j =>
    /\ leases[i].nip = leases[j].nip => leases[i].nip = 0
    /\ leases[i].mac = leases[j].mac => leases[i].mac = NoMac

\* Two clients never hold the same address at once, through expiries, searches with their
\* ARP probes, lost ACKs, repeated and late messages, and restarts.  Excused is a client
\* whose late DISCOVER, RELEASE or DECLINE arrived while it held a lease again, or whose
\* lease went with the ramdisk, with a leap of the clock or with a static_lease line; an
\* address the running configuration gives to a static client is not the table's to keep.
NoDoubleLease ==
  \A c, d \in Clients \ excused :
    c # d /\ Live(c) /\ Live(d) /\ client[c].ip = client[d].ip => client[c].ip \in StaticAddrs

Reserved ==
  pc \in {"idle", "scan"} =>
    \A a \in Addrs \ StaticAddrs : reserved[a] > now =>
      \E i \in Slots : /\ leases[i].nip = a /\ leases[i].mac = NoMac
                       /\ leases[i].expires >= reserved[a]

\* Until the server restarts, an address that was declined, or that answered a probe, is
\* kept for its whole time for nobody, whatever is searched, offered or asked for.
ReservationKept == stops = 0 => Reserved

=============================================================================
