----------------------------- MODULE VirtioNet -----------------------------
(***************************************************************************)
(* The virtio network driver (kernel/virtio_net.h), on the card that the   *)
(* PCI scan (kernel/pci.h) finds: two virtqueues shared with a device that *)
(* works concurrently, the polling receive path, and the replies to ARP    *)
(* and ping requests (kernel/net.h).                                       *)
(*                                                                         *)
(* virtio_net_init leaves the queues out ("skip queue setup for now");     *)
(* SetUpQueues stands for the missing calls: virtq_init on both queues and *)
(* all receive buffers posted.  The device is external.  It takes buffers  *)
(* and gives them back in order, and reads a transmit buffer as late as it *)
(* likes.  Ring indices count modulo IdxMod (2^16).                        *)
(***************************************************************************)
EXTENDS Integers, Sequences, SequencesExt, FiniteSets, FiniteSetsExt

CONSTANTS
    Size,        \* descriptors per queue, a power of two
    IdxMod,      \* range of the ring indices, a multiple of Size
    RxBuffers,   \* VIRTIO_NET_RX_BUFFERS
    TxBuffers,   \* VIRTIO_NET_TX_BUFFERS
    Buses,       \* PCI buses the machine may have
    NDevices,    \* slots of a bus (32)
    NFunctions,  \* functions of a slot (8)
    MaxDevices,  \* PCI_MAX_DEVICES
    Kinds,       \* kinds of frames on the wire: type, request or not, destination,
                 \* and whether a reply of the length it claims fits a frame
    MaxFrames    \* bound on frames received

Desc == 0..(Size - 1)

ASSUME VirtioAssumption ==
    /\ {Size, IdxMod, RxBuffers, TxBuffers, NDevices, NFunctions, MaxDevices} \subseteq Nat \ {0}
    /\ IdxMod % Size = 0 /\ IdxMod > Size /\ RxBuffers <= Size /\ MaxFrames \in Nat

VARIABLES
    status,     \* "off", "ready" (initialised), "up" (queues in place), or an error
    bus,        \* the PCI bus
    rx, tx,     \* virtqueues
    rxbuf,      \* contents of the receive buffers
    txbuf,      \* contents of the transmit buffers
    tx_buf_idx, \* next transmit buffer
    pc,         \* step of net_poll; "wild" after an access out of bounds
    packet,     \* its local buffer
    arrived,    \* history: frames the device has received
    received,   \* history: frames net_poll has processed
    sent,       \* history: frames virtio_net_send has accepted
    wire        \* history: frames the device has transmitted

queues == <<rx, tx, rxbuf, txbuf, tx_buf_idx>>
driver == <<pc, packet, received, sent>>
vars == <<status, bus, queues, driver, arrived, wire>>

-----------------------------------------------------------------------------
(***************************************************************************)
(* Finding the card.                                                       *)
(***************************************************************************)

\* pci_enumerate: functions in order, those of slots without function 0 and
\* the further ones of single-function slots left out, as many as the table
\* holds.
Enumerate(b) ==
    LET slot(i) == <<(i - 1) \div NFunctions, (i - 1) % NFunctions>>
        listed(s) == /\ <<s[1], 0>> \in DOMAIN b.functions /\ s \in DOMAIN b.functions
                     /\ s[2] = 0 \/ s[1] \in b.multi
        found == SelectSeq([i \in 1..(NDevices * NFunctions) |-> slot(i)], listed)
    IN SubSeq(found, 1, Min({MaxDevices, Len(found)}))

\* pci_find_device: the cards found, in order.
Cards(b) == SelectSeq(Enumerate(b), LAMBDA s : b.functions[s].card)

\* virtio_net_init.
VirtioNetInit ==
    /\ status = "off"
    /\ status' = IF Cards(bus) = <<>> THEN "no device"
                 ELSE LET card == bus.functions[Cards(bus)[1]]
                      IN IF ~card.io THEN "no io bar" ELSE IF card.base = 0 THEN "no base" ELSE "ready"
    /\ UNCHANGED <<bus, queues, driver, arrived, wire>>

-----------------------------------------------------------------------------
(***************************************************************************)
(* Virtqueues.                                                             *)
(***************************************************************************)

\* virtq_init.  (The last next field keeps the zero of the BSS.)
VirtqInit ==
    [desc |-> [d \in Desc |-> [buf |-> 0, next |-> IF d < Size - 1 THEN d + 1 ELSE 0]],
     avail |-> [s \in Desc |-> 0], avail_idx |-> 0, seen |-> 0,
     used |-> [s \in Desc |-> 0], used_idx |-> 0, last_used |-> 0,
     free_head |-> 0, num_free |-> Size]

\* virtq_add_buffer up to the barrier: descriptor and ring slot are written.
AddBuffer(q, b) ==
    LET head == q.free_head
    IN [q EXCEPT !.free_head = q.desc[head].next,
                 !.num_free = @ - 1,
                 !.desc[head] = [buf |-> b, next |-> 0],
                 !.avail[q.avail_idx % Size] = head]

\* Fault: the index wraps around at the size of the ring.
PublishWrapped(q) == [q EXCEPT !.avail_idx = (@ + 1) % Size]

\* The rest of it: the device may now see the slot.
Publish(q) == [q EXCEPT !.avail_idx = (@ + 1) % IdxMod]

\* Fault: the descriptor goes to the end of the list, where nobody looks.
GetUsedNotLinked(q) ==
    [q EXCEPT !.last_used = (@ + 1) % IdxMod, !.num_free = @ + 1]

\* virtq_get_used: the descriptor is put at the head of the free list.
GetUsed(q) ==
    LET d == q.used[q.last_used % Size]
    IN [q EXCEPT !.last_used = (@ + 1) % IdxMod,
                 !.desc[d].next = q.free_head,
                 !.free_head = d,
                 !.num_free = @ + 1]

\* External: the queues as the driver's receive and send paths expect them.
SetUpQueues ==
    LET posted[n \in 0..RxBuffers] ==
          IF n = 0 THEN VirtqInit ELSE Publish(AddBuffer(posted[n - 1], n - 1))
    IN /\ status = "ready" /\ pc = "poll"
       /\ status' = "up"
       /\ rx' = posted[RxBuffers]
       /\ tx' = VirtqInit
       /\ UNCHANGED <<bus, rxbuf, txbuf, tx_buf_idx, driver, arrived, wire>>

-----------------------------------------------------------------------------
(***************************************************************************)
(* The device.                                                             *)
(***************************************************************************)

NoFrame == [id |-> 0, kind |-> [type |-> "none", request |-> FALSE, dest |-> "none",
                                fits |-> TRUE]]

\* A frame arrives, is put into the next buffer and the buffer given back.
\* (Without a buffer the device drops the frame.)
DeviceReceive(kind) ==
    /\ status = "up" /\ Len(arrived) < MaxFrames
    /\ rx.seen # rx.avail_idx
    /\ LET d == rx.avail[rx.seen % Size]
           frame == [id |-> Len(arrived) + 1, kind |-> kind]
       IN /\ rxbuf' = [rxbuf EXCEPT ![rx.desc[d].buf] = frame]
          /\ rx' = [rx EXCEPT !.seen = (@ + 1) % IdxMod,
                              !.used[rx.used_idx % Size] = d,
                              !.used_idx = (@ + 1) % IdxMod]
          /\ arrived' = Append(arrived, frame)
    /\ UNCHANGED <<status, bus, tx, txbuf, tx_buf_idx, driver, wire>>

\* The next buffer is transmitted and given back.
DeviceTransmit ==
    /\ status = "up" /\ tx.seen # tx.avail_idx
    /\ LET d == tx.avail[tx.seen % Size]
       IN /\ wire' = Append(wire, txbuf[tx.desc[d].buf])
          /\ tx' = [tx EXCEPT !.seen = (@ + 1) % IdxMod,
                              !.used[tx.used_idx % Size] = d,
                              !.used_idx = (@ + 1) % IdxMod]
    /\ UNCHANGED <<status, bus, rx, rxbuf, txbuf, tx_buf_idx, driver, arrived>>

-----------------------------------------------------------------------------
(***************************************************************************)
(* net_poll.                                                               *)
(***************************************************************************)

\* virtio_net_recv up to the barrier of virtq_add_buffer: the frame is copied
\* out of the receive buffer with the descriptor's number, and the buffer is
\* queued again.
Recv ==
    /\ status = "up" /\ pc = "poll" /\ rx.last_used # rx.used_idx
    /\ LET d == rx.used[rx.last_used % Size]
       IN /\ packet' = rxbuf[d]
          /\ rx' = AddBuffer(GetUsed(rx), d)
    /\ pc' = "requeue"
    /\ UNCHANGED <<status, bus, tx, rxbuf, txbuf, tx_buf_idx, received, sent, arrived, wire>>

\* virtio_net_recv finds nothing, or no card.
RecvNothing ==
    /\ status # "ready" /\ pc = "poll" /\ rx.last_used = rx.used_idx
    /\ UNCHANGED vars

\* virtio_net_recv on a card without queues: the index of the used ring is
\* read through a null pointer.  It may look like that of an empty ring.
RecvTooEarly ==
    /\ status = "ready" /\ pc = "poll"
    /\ pc' \in {"poll", "wild"}
    /\ UNCHANGED <<status, bus, queues, packet, received, sent, arrived, wire>>

\* What net_poll does after an access out of bounds is not followed.
Wild == pc = "wild" /\ UNCHANGED vars

RecvPublish ==
    /\ pc = "requeue"
    /\ rx' = Publish(rx)
    /\ pc' = "process"
    /\ UNCHANGED <<status, bus, tx, rxbuf, txbuf, tx_buf_idx, packet, received, sent, arrived, wire>>

\* net_send_arp_reply, net_send_ping_reply: the frame built.
ReplyTo(f) == [id |-> f.id, kind |-> [f.kind EXCEPT !.request = FALSE, !.dest = "sender"]]

\* What net_process_packet answers: ARP requests for this machine's address,
\* and pings to it or to everybody.
Answered(f) ==
    /\ f.kind.request
    /\ \/ f.kind.type = "arp" /\ f.kind.dest = "us"
       \/ f.kind.type = "ping" /\ f.kind.dest \in {"us", "all"}

\* Fault: one transmit buffer is used for all frames.
NextBufferSame(b) == b

NextBuffer(b) == (b + 1) % TxBuffers

\* virtio_net_send takes a frame unless it is too long or fewer than two
\* descriptors are free.
Sendable(f) == f.kind.fits /\ tx.num_free >= 2

\* A reply that is not taken is dropped.  One that is too long has been put
\* together in a local array of the length of a frame before that.
AfterDrop(f) == IF Answered(f) /\ ~f.kind.fits THEN {"poll", "wild"} ELSE {"poll"}

\* net_process_packet, and virtio_net_send up to the barrier.
Process ==
    /\ pc = "process"
    /\ received' = Append(received, packet)
    /\ IF Answered(packet) /\ Sendable(ReplyTo(packet))
       THEN /\ txbuf' = [txbuf EXCEPT ![tx_buf_idx] = ReplyTo(packet)]
            /\ tx_buf_idx' = NextBuffer(tx_buf_idx)
            /\ tx' = AddBuffer(tx, tx_buf_idx)
            /\ sent' = Append(sent, ReplyTo(packet))
            /\ pc' = "notify"
       ELSE pc' \in AfterDrop(packet) /\ UNCHANGED <<tx, txbuf, tx_buf_idx, sent>>
    /\ UNCHANGED <<status, bus, rx, rxbuf, packet, arrived, wire>>

SendPublish ==
    /\ pc = "notify"
    /\ tx' = Publish(tx)
    /\ pc' = "poll"
    /\ UNCHANGED <<status, bus, rx, rxbuf, txbuf, tx_buf_idx, packet, received, sent, arrived, wire>>

Init ==
    /\ status = "off" /\ bus \in Buses
    /\ rx = VirtqInit /\ tx = VirtqInit
    /\ rxbuf = [b \in 0..(RxBuffers - 1) |-> NoFrame]
    /\ txbuf = [b \in 0..(TxBuffers - 1) |-> NoFrame]
    /\ tx_buf_idx = 0 /\ pc = "poll" /\ packet = NoFrame
    /\ arrived = <<>> /\ received = <<>> /\ sent = <<>> /\ wire = <<>>

Driver == Recv \/ RecvPublish \/ Process \/ SendPublish

Next ==
    \/ VirtioNetInit \/ SetUpQueues
    \/ \E kind \in Kinds : DeviceReceive(kind)
    \/ DeviceTransmit
    \/ Driver \/ RecvNothing \/ RecvTooEarly \/ Wild

\* Fairness (only TxReclaimed needs it): somebody goes on calling net_poll.
Spec == Init /\ [][Next]_vars /\ WF_vars(Driver)

-----------------------------------------------------------------------------
(***************************************************************************)
(* Properties.                                                             *)
(***************************************************************************)

\* The ring slots from one index up to another.
Window(from, to) == [i \in 1..((to - from) % IdxMod) |-> (from + i - 1) % Size]

FreeList(q) ==
    LET node[k \in 1..q.num_free] == IF k = 1 THEN q.free_head ELSE q.desc[node[k - 1]].next
    IN {node[k] : k \in 1..q.num_free}

\* Descriptors the device has or gives back, and the one being added.
InUse(q, adding) ==
    {q.avail[s] : s \in Range(Window(q.last_used, (q.avail_idx + IF adding THEN 1 ELSE 0)))}

\* Free list and rings share out the descriptors: num_free different ones are
\* on the free list and all others in use, past the wrap of the receive indices
\* and with the device at work between the driver's steps.
FreeListSound ==
    status = "up" =>
      \A q \in {<<rx, pc = "requeue">>, <<tx, pc = "notify">>} :
         /\ FreeList(q[1]) = Desc \ InUse(q[1], q[2])
         /\ Cardinality(FreeList(q[1])) = q[1].num_free

Waiting == [i \in 1..Len(Window(rx.last_used, rx.used_idx)) |->
              rxbuf[rx.desc[rx.used[Window(rx.last_used, rx.used_idx)[i]]].buf]]

\* Frames are processed in the order the device received them, none lost,
\* repeated or overwritten in its buffer before it was copied out.
RxLossless ==
    arrived = received \o (IF pc \in {"requeue", "process"} THEN <<packet>> ELSE <<>>) \o Waiting

\* A transmit buffer is filled again when as many frames as there are buffers
\* have been sent after it, whether the device has read it or not.  So a frame
\* may be replaced by a later one, but what is transmitted is never empty, an
\* old frame or one whose turn has passed, and the last TxBuffers frames that
\* wait for the device are intact.
TxRecent ==
    /\ \A i \in 1..Len(wire) : \E j \in i..Len(sent) : wire[i] = sent[j]
    /\ \A i \in (Len(wire) + 1)..Len(sent) :
          Len(sent) - i < TxBuffers => txbuf[tx.desc[tx.avail[(i - 1) % Size]].buf] = sent[i]

\* The device transmits what virtio_net_send was given, in that order: no
\* buffer is filled again before the device has read it.  It fails when the
\* queue has more descriptors than there are buffers.
TxIntact == IsPrefix(wire, sent)

\* "No free buffers" is a passing state: descriptors that the device has given
\* back are free again when the driver has nothing else to do.
TxReclaimed ==
    [](tx.num_free < 2 /\ tx.seen = tx.avail_idx => <>(tx.num_free >= 2))
=============================================================================
