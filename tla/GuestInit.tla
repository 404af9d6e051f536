----------------------------- MODULE GuestInit -----------------------------
(***************************************************************************)
(* firestone-init, the first process of an OCI guest: the boot sequence    *)
(* with its one-shot DHCP client, and the supervision of the entrypoint.   *)
(*                                                                         *)
(* DHCP servers, other hosts on the link, the kernel (signals, processes,  *)
(* the clock) and power cuts are external.  Signals are not queued: a      *)
(* second one of a kind is merged with a pending first.                    *)
(***************************************************************************)
EXTENDS Integers, FiniteSets, TLC

CONSTANTS
    Servers,    \* DHCP servers on the link
    Orphans,    \* processes the entrypoint leaves behind
    Budget,     \* DHCP_BUDGET, in clock ticks
    BlockSize,  \* of the root file system
    Sizes,      \* disk sizes, as configured and as attached
    MaxBoots,   \* bound on the boots followed
    Faults      \* whether system calls of the boot sequence may fail

None == [none |-> TRUE]
Signals == {"TERM", "INT"}
Own == "own"
Other == "other"

VARIABLES
    pc,       \* the step of the boot sequence
    conf,     \* the decoded config document: network, requested size
    device,   \* the bytes /dev/vda offers
    fs,       \* blocks of the root file system; kept across boots
    files,    \* hosts and resolv.conf; kept across boots
    write,    \* the file being written, its text and the step after it
    now,      \* ticks since the exchange began
    net,      \* packets on the link
    asked,    \* the server the DHCPREQUEST names
    offer,    \* the accepted offer
    lease,    \* the lease, None before it is complete
    acked,    \* servers that acknowledged this boot's request
    pend,     \* signals pending at the signalfd
    masked,   \* whether the supervision signals are blocked
    proc,     \* each process: none, alive, zombie or reaped
    got,      \* signals sent to the entrypoint's group
    childMask, \* signals the entrypoint was started with blocked
    boots

bootVars == <<conf, device, fs, files, write>>
netVars == <<now, net, asked, offer, lease, acked>>
procVars == <<pend, masked, proc, got, childMask>>
vars == <<pc, bootVars, netVars, procVars, boots>>

Entrypoint == "entrypoint"
Procs == Orphans \cup {Entrypoint}
Packets ==
    [xid : {Own, Other}, type : {"OFFER", "ACK"}, from : Servers] \cup [xid : {Own}, type : {"NAK", "junk"}, from : Servers]
Texts == {"absent", "image", "torn", "static"} \cup Servers

-----------------------------------------------------------------------------
(* The steps before the network.                                           *)

\* Pseudo file systems that fail to mount only warn; run goes on.
MountPseudoFilesystems ==
    /\ pc = "mount"
    /\ pc' = "config"
    /\ UNCHANGED <<bootVars, netVars, procVars, boots>>

\* A config disk that cannot be decoded ends the boot.
ReadConfig(c) ==
    /\ pc = "config"
    /\ \/ conf' = c /\ pc' = "grow"
       \/ Faults /\ conf' = conf /\ pc' = "power_off"
    /\ UNCHANGED <<device, fs, files, write, netVars, procVars, boots>>

\* resize_target_blocks; the current size where there is nothing to do.
ResizeTarget(requested, attached, current) ==
    LET capped == IF requested < attached THEN requested ELSE attached
        target == capped \div BlockSize
    IN  IF target > current THEN target ELSE current

\* Errors only warn.  The hostname is set after it.
GrowRootFilesystem ==
    /\ pc = "grow"
    /\ \/ fs' = ResizeTarget(conf.size, device, fs)
       \/ Faults /\ fs' = fs
    /\ pc' = "network"
    /\ UNCHANGED <<conf, device, files, write, netVars, procVars, boots>>

-----------------------------------------------------------------------------
(* The network.                                                            *)

\* The socket is closed when the exchange is over.
EndExchange == now' = 0 /\ net' = {} /\ asked' = None /\ offer' = None

\* Without a readable MAC the step ends at once.  The DISCOVER goes to every
\* server; sockets that cannot be opened end the exchange.
ConfigureNetwork ==
    /\ pc = "network"
    /\ \/ conf.network = "none" /\ pc' = "static_hosts"
       \/ conf.network = "dhcp" /\ pc' = "offer"
       \/ Faults /\ conf.network = "dhcp" /\ pc' \in {"plan", "static_hosts"}
    /\ UNCHANGED <<bootVars, netVars, procVars, boots>>

\* Budget left, a packet that parses, for this exchange.
Heard(p) == now < Budget /\ p \in net /\ p.type # "junk" /\ p.xid = Own

\* Mutant: wait_for, when it takes any reply of the exchange.
AwaitsAnyReply(p, expected) == Heard(p) /\ p.type # "NAK"

\* wait_for: other packets are skipped, whatever they are.
Awaits(p, expected) == Heard(p) /\ p.type = expected

TakeOffer(p) ==
    /\ pc = "offer" /\ Awaits(p, "OFFER")
    /\ offer' = p.from
    /\ asked' = p.from
    /\ pc' = "ack"
    /\ UNCHANGED <<bootVars, now, net, lease, acked, procVars, boots>>

\* What the ACK leaves out is taken from the offer.
TakeAck(p) ==
    /\ pc = "ack" /\ Awaits(p, "ACK")
    /\ lease' = [address |-> p.from, rest |-> {p.from, offer}]
    /\ pc' = "apply"
    /\ EndExchange
    /\ UNCHANGED <<bootVars, acked, procVars, boots>>

\* A NAK, a socket error, or the budget spent.
GiveUp ==
    /\ pc \in {"offer", "ack"}
    /\ \/ now >= Budget
       \/ \E p \in net : Heard(p) /\ p.type = "NAK"
       \/ Faults
    /\ pc' = "static_hosts"
    /\ EndExchange
    /\ UNCHANGED <<bootVars, lease, acked, procVars, boots>>

\* The address and the route; an error leaves the files alone.
ApplyLease ==
    /\ pc = "apply"
    /\ \/ pc' = "resolv"
       \/ Faults /\ pc' = "plan"
    /\ UNCHANGED <<bootVars, netVars, procVars, boots>>

\* The file is created first and its text written after.
BeginWrite(f, text, next) ==
    /\ files' = [files EXCEPT ![f] = "torn"]
    /\ write' = [file |-> f, text |-> text, next |-> next]
    /\ pc' = "write"

\* Nothing is done when the file exists.
WriteIfAbsent(f, text, next) ==
    \/ files[f] = "absent" /\ BeginWrite(f, text, next)
    \/ files[f] # "absent" /\ pc' = next /\ UNCHANGED <<files, write>>

WriteText ==
    /\ pc = "write"
    /\ files' = [files EXCEPT ![write.file] = write.text]
    /\ pc' = write.next
    /\ write' = None
    /\ UNCHANGED <<conf, device, fs, netVars, procVars, boots>>

WriteResolv ==
    /\ pc = "resolv"
    /\ WriteIfAbsent("resolv", lease.address, "hosts")
    /\ UNCHANGED <<conf, device, fs, netVars, procVars, boots>>
WriteHosts ==
    /\ pc = "hosts"
    /\ WriteIfAbsent("hosts", lease.address, "plan")
    /\ UNCHANGED <<conf, device, fs, netVars, procVars, boots>>
WriteStaticHosts ==
    /\ pc = "static_hosts"
    /\ WriteIfAbsent("hosts", "static", "plan")
    /\ UNCHANGED <<conf, device, fs, netVars, procVars, boots>>

-----------------------------------------------------------------------------
(* Supervision.                                                            *)

\* No command or an unknown user ends the boot.
Plan ==
    /\ pc = "plan"
    /\ pc' = "mask" \/ (Faults /\ pc' = "power_off")
    /\ UNCHANGED <<bootVars, netVars, procVars, boots>>

\* Signals are blocked and read from a descriptor from here on.  (The lease
\* is not looked at again.)
BlockSignals ==
    /\ pc = "mask"
    /\ masked' = TRUE
    /\ lease' = None /\ acked' = {}
    /\ pc' = "spawn" \/ (Faults /\ pc' = "power_off")
    /\ UNCHANGED <<bootVars, now, net, asked, offer, pend, proc, got, childMask, boots>>

\* In a process group of its own, after the signals are blocked; the child
\* inherits the mask.
SpawnChild ==
    /\ pc = "spawn"
    /\ childMask' = IF masked THEN Signals ELSE {}
    /\ \/ proc' = [proc EXCEPT ![Entrypoint] = "alive"] /\ pc' = "loop"
       \/ Faults /\ proc' = proc /\ pc' = "power_off"
    /\ UNCHANGED <<bootVars, netVars, pend, masked, got, boots>>

Zombies == {p \in Procs : proc[p] = "zombie"}

\* Mutant: waitpid once for each SIGCHLD.
ReapOne ==
    \E z \in Zombies :
      /\ proc' = [proc EXCEPT ![z] = "reaped"]
      /\ pc' = IF z = Entrypoint THEN "power_off" ELSE "loop"

\* Everything that has ended; the entrypoint's end ends the machine.
Reap ==
    /\ proc' = [p \in Procs |-> IF p \in Zombies THEN "reaped" ELSE proc[p]]
    /\ pc' = IF Entrypoint \in Zombies THEN "power_off" ELSE "loop"

ReadChild ==
    /\ pc = "loop" /\ "CHLD" \in pend
    /\ pend' = pend \ {"CHLD"}
    /\ Reap
    /\ UNCHANGED <<bootVars, netVars, masked, got, childMask, boots>>

\* The group, never -1.
Forward(sig) ==
    /\ pc = "loop" /\ sig \in pend
    /\ pend' = pend \ {sig}
    /\ got' = got \cup {sig}
    /\ UNCHANGED <<pc, bootVars, netVars, masked, proc, childMask, boots>>

\* sync and reboot; if that fails PID 1 sleeps for ever, since it must not exit.
PowerOff ==
    /\ pc = "power_off"
    /\ pc' = "off" \/ (Faults /\ pc' = "parked")
    /\ UNCHANGED <<bootVars, netVars, procVars, boots>>

-----------------------------------------------------------------------------
(* Outside.                                                                *)

Running == pc \notin {"off", "parked"}

Tick ==
    /\ pc \in {"offer", "ack"} /\ now < Budget
    /\ now' = now + 1
    /\ UNCHANGED <<pc, bootVars, net, asked, offer, lease, acked, procVars, boots>>

\* A server answers, late or again; strangers' traffic is seen too.  Only the
\* server the request names acknowledges or refuses it.
Deliver(p) ==
    /\ pc \in {"offer", "ack"} /\ p \notin net
    /\ p.xid = Own /\ p.type = "ACK" => asked = p.from
    /\ p.xid = Own /\ p.type = "NAK" => asked = p.from
    /\ net' = net \cup {p}
    /\ acked' = IF p.xid = Own /\ p.type = "ACK" THEN acked \cup {p.from} ELSE acked
    /\ UNCHANGED <<pc, bootVars, now, asked, offer, lease, procVars, boots>>

\* Once each; what arrives before the mask is discarded by the kernel, since
\* PID 1 has no handler.
Send(sig) ==
    /\ Running /\ masked /\ sig \notin got
    /\ pend' = pend \cup {sig}
    /\ UNCHANGED <<pc, bootVars, netVars, masked, proc, got, childMask, boots>>

\* The entrypoint leaves a process behind, or one ends.
Leave(o) ==
    /\ Running /\ proc[Entrypoint] = "alive" /\ proc[o] = "none"
    /\ proc' = [proc EXCEPT ![o] = "alive"]
    /\ UNCHANGED <<pc, bootVars, netVars, pend, masked, got, childMask, boots>>
End(p) ==
    /\ Running /\ proc[p] = "alive"
    /\ proc' = [proc EXCEPT ![p] = "zombie"]
    /\ pend' = pend \cup {"CHLD"}
    /\ UNCHANGED <<pc, bootVars, netVars, masked, got, childMask, boots>>

NoProcs == [p \in Procs |-> "none"]

\* The machine is started again, after an orderly end or a power cut.
Boot(size) ==
    /\ boots < MaxBoots
    /\ boots' = boots + 1
    /\ pc' = "mount"
    /\ device' = size /\ size >= device
    /\ now' = 0 /\ net' = {} /\ asked' = None /\ offer' = None /\ lease' = None /\ acked' = {}
    /\ pend' = {} /\ masked' = FALSE /\ got' = {} /\ childMask' = {} /\ write' = None /\ proc' = NoProcs
    /\ conf' = None
    /\ UNCHANGED <<fs, files>>

Configs == [network : {"dhcp", "none"}, size : Sizes]
Init ==
    /\ pc = "mount" /\ boots = 1
    /\ conf = None
    /\ device \in Sizes /\ fs = 0
    /\ files \in [{"hosts", "resolv"} -> {"absent", "image"}]
    /\ now = 0 /\ net = {} /\ asked = None /\ offer = None /\ lease = None /\ acked = {}
    /\ pend = {} /\ masked = FALSE /\ got = {} /\ childMask = {} /\ write = None /\ proc = NoProcs

Step ==
    \/ MountPseudoFilesystems \/ (\E c \in Configs : ReadConfig(c)) \/ GrowRootFilesystem \/ ConfigureNetwork
    \/ \E p \in net : TakeOffer(p) \/ TakeAck(p)
    \/ GiveUp \/ ApplyLease \/ WriteResolv \/ WriteHosts \/ WriteStaticHosts \/ WriteText
    \/ Plan \/ BlockSignals \/ SpawnChild \/ PowerOff
Supervise == ReadChild \/ \E sig \in Signals : Forward(sig)
Environment ==
    \/ \E p \in Packets : Deliver(p)
    \/ \E sig \in Signals : Send(sig)
    \/ \E o \in Orphans : Leave(o)
    \/ \E p \in Procs : End(p)
    \/ \E size \in Sizes : Boot(size)
Next == Step \/ Supervise \/ Tick \/ Environment

Spec == Init /\ [][Next]_vars

-----------------------------------------------------------------------------

\* The steps of PID 1, its clock within the DHCP budget, its processes and pending signals;
\* a lease that is applied names a server (run, acquire_lease).
TypeOK ==
    /\ pc \in {"mount", "config", "grow", "network", "offer", "ack", "apply", "resolv", "hosts", "static_hosts", "write",
              "plan", "mask", "spawn", "loop", "power_off", "off", "parked"}
    /\ conf \in Configs \cup {None} /\ device \in Sizes /\ fs \in Nat
    /\ files \in [{"hosts", "resolv"} -> Texts]
    /\ now \in 0..Budget /\ net \subseteq Packets /\ asked \in Servers \cup {None}
    /\ pend \subseteq Signals \cup {"CHLD"} /\ got \subseteq Signals
    /\ proc \in [Procs -> {"none", "alive", "zombie", "reaped"}]
    /\ lease = None \/ lease.address \in Servers

\* The lease the guest applies is one a server granted to it, and all of it
\* comes from that server: a late offer of another one, or an answer to
\* another client, is not taken for the acknowledgement (wait_for).  Only the
\* server that was asked answers in its name: nobody forges its identifier.
LeaseIsGranted == lease # None => lease.address \in acked /\ lease.rest = {lease.address}

\* Whatever size the config document names and however the disk grew, the
\* root file system is not grown past the end of the device.
FsFitsDevice == fs * BlockSize <= device

\* An image that ships its own hosts or resolv.conf keeps it over all boots.
ImageKeepsItsOwn == \A f \in DOMAIN files : files[f] = "image" => files'[f] = "image"

\* A signal that PID 1 reads goes on to the entrypoint's group.
SignalsGoOn == \A sig \in Signals : sig \in pend \ pend' => sig \in got' \/ pc' = "mount"

\* The boot has neither started the entrypoint nor ended; the entrypoint has ended and
\* the machine has not; an orphan waits to be reaped; a signal waits for PID 1.
Booting == Running /\ proc[Entrypoint] = "none"
Outliving == Running /\ proc[Entrypoint] \in {"zombie", "reaped"}
Unreaped(o) == Running /\ proc[o] = "zombie"
Pending(sig) == Running /\ sig \in pend

-----------------------------------------------------------------------------
(* The inductive invariants behind the properties.                         *)

\* The exchange is over unless it is under way, an acknowledgement in it answers
\* the request, and the request went to the server of the offer.
LeaseInv ==
    /\ net \subseteq Packets
    /\ pc = "offer" => asked = None
    /\ pc = "ack" => asked = offer
    /\ pc \notin {"offer", "ack"} => net = {} /\ asked = None
    /\ \A p \in net : p.xid = Own /\ p.type = "ACK" => p.from \in acked /\ p.from = asked /\ asked # None
    /\ LeaseIsGranted

\* A file is written to only if it was absent, and what follows is known.
WriteInv ==
    /\ files \in [{"hosts", "resolv"} -> Texts]
    /\ pc = "write" =>
         /\ write \in [file : {"hosts", "resolv"}, text : Texts, next : {"hosts", "plan"}]
         /\ files[write.file] = "torn"
    /\ pc \in {"apply", "resolv", "hosts"} => lease.address \in Servers
    /\ pc = "write" /\ write.next = "hosts" => lease.address \in Servers

\* The size that is asked for is known when the file system is grown.
DiskInv ==
    /\ device \in Nat /\ fs \in Nat
    /\ pc \in {"grow", "network"} => conf \in Configs
    /\ FsFitsDevice

Inv == LeaseInv /\ WriteInv /\ DiskInv
Never == ImageKeepsItsOwn /\ SignalsGoOn

=============================================================================
