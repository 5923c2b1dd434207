# Formal models of arduino_ipv6

arduino_ipv6 is a small IPv6 stack in C for an Arduino: CoAP over UDP over IPv6 (with enough
of neighbor discovery to be reachable) over Ethernet frames, which travel through a W5500
chip or, for the tests, as lines of text over the serial port. There is no operating system:
one thread, no interrupts, no callbacks, one buffer that every frame is received into and
sent from. The difficulty is elsewhere: a chip and a network that do as they like between
two calls, state kept from one call to the next, and offsets and lengths counted by hand.

This directory holds TLA+ models of it, the configurations that model-check them with TLC,
and proofs checked by TLAPS. `PROJECT.json` maps every definition to its source lines.

## The system

| component | state it keeps | operations | talks to |
|---|---|---|---|
| CoAP client, `proto_coap.c` | type, code, token, path, query, content type, kept header size, `last_messageid`, `response_code` | setters, `net_coap_connect`, `net_coap_pload_pos`, `net_coap_send`, `net_coap_recv`, `net_coap_get_responsecode` | calls UDP; a CoAP server beyond the network |
| UDP, `proto_udp.c` | ports, the pre-computed sum | setters, `net_udp_connect`, `net_udp_send`, `net_udp_recv` | calls IPv6 |
| IPv6 and neighbor discovery, `proto_ip6.c` | source, destination, next header | setters, `net_ip6_send`, `net_ip6_recv`, which answers neighbor solicitations by itself | calls the MAC layer |
| MAC, `proto_mac.c` | own and peer station, ethertype, multicast suffixes | setters, `net_mac_send`, `net_mac_recv` | calls a hardware driver |
| W5500 driver, `hw_w5500.c` | none of its own; the chip's registers and ring memories, and whether the SPI bus is taken | init, open, send, receive, PHY and address registers | the chip, byte by byte over SPI |
| Serial driver, `hw_serial.c`, `platform.cpp` | none between calls; the characters not yet read | `serial_read`, `serial_write`, `serial_wait_for_signal`, `serial_signal` | the serial port, shared with the test protocol |
| Buffer macros and checksum, `net_utils.h` | none | `NET_CHECK_BUFLEN`, `NET_GET_*`, `NET_PUT_*`, the one's complement sum | used by every layer |
| Stub, configuration, tests, samples | - | a layer that does nothing; macros that stack the layers; the test programs on either side of the serial line | - |

Layers call downwards only. A receive goes down to the driver and comes back up, each layer
looking at its header and passing on an offset and a length; a send starts at the payload
position that `*_pload_pos` named and each layer writes its header in front. Nothing is
queued between layers: what a receive does not accept is gone, with `NET_EAGAIN`.

What is hard, and what makes each part correct:

* **CoAP exchange** - answers that are lost, late, repeated or overtaken, matched with the
  request by a 16-bit identifier that wraps and by a token. Correct if what is reported, and
  the response code shown, belong to the request sent last.
* **CoAP parser** - two counts kept by hand, of which only one is checked; extended forms of
  option numbers and lengths. Correct if nothing is read behind the message, the walk ends,
  and a response is delivered exactly when it is well formed, from where its payload starts.
* **CoAP builder** - a header size computed in advance and kept over setters, while the
  payload already lies in the buffer. Correct if the header ends where the payload starts.
* **IPv6, UDP, MAC** - state that is stale when it is used (a sum computed at connect, a
  multicast list that does not follow the address), an answer written over the question,
  frames with padding or wrong lengths. Correct if what is delivered is the payload of a
  datagram for us from the peer, advertisements tell the truth, nothing is written behind
  the buffer, and solicitations are answered as long as the application polls.
* **W5500 reception and transmission** - registers read byte by byte while the chip goes on
  storing and sending frames, 16-bit pointers over ring memories. Correct if frames come out,
  and go out, whole, once and in order, come out in the end, and are refused only for want
  of room.
* **W5500 configuration** - waits that are given up after a while, an SPI transfer that
  overwrites what it sends, early returns. Correct if every call returns and releases the
  bus, and what is reported or kept agrees with what was asked for.
* **Checksum** - a sum of 16 bits taken up again over several calls, some at connect and some
  at send, with odd lengths and a carry. Correct if a receiver, who adds up everything at
  once, accepts it, and it is never zero.
* **Serial line** - calls that give up in the middle of a line and two kinds of line on one
  port. Correct if nothing but a whole line is ever taken for a frame or a signal.

## Modules

| module | models | instance for TLC |
|---|---|---|
| `CoapExchange` | application, network and server around `net_coap_send` and `net_coap_recv` | `MCCoapExchange` |
| `CoapParse` | the walk of `net_coap_recv` over one message | `MCCoapParse` |
| `CoapOptions` | the header that `net_coap_send` writes, and its size | `MCCoapOptions` |
| `FrameQueue` | abstract: what an interface promises to the layer above | - |
| `W5500Spi` | what the parts of the driver share: a transfer over the bus, ring pointers | - |
| `W5500Rx`, `W5500Tx` | `hw_w5500_recv` and `hw_w5500_send` against the chip; each implements `FrameQueue` | - |
| `W5500Ctl` | init, PHY, MAC address and open | - |
| `W5500` | the three of them and the chip over one bus, called by one thread | `MCW5500` |
| `Cksum` | `_net_cksum_sum` and its callers | `MCCksum` |
| `Stack` | MAC, IPv6 with neighbor discovery, UDP, over an instance of `FrameQueue` | `MCStack` |
| `SerialLine` | the line reader and writer of `platform.cpp` | `MCSerialLine` |
| `Arithmetic` | theorems about `%`, induction over the naturals, and recursive functions, used by the proofs | - |
| `CoapExchange_proofs`, `CoapParse_proofs`, `CoapOptions_proofs`, `Stack_proofs`, `SerialLine_proofs`, `Cksum_proofs`, `W5500_proofs` | the theorems | - |

`FrameQueue` is where the two halves meet: `W5500Rx` is shown, and proved, to implement it,
and `Stack` is built on it (`Nic == INSTANCE FrameQueue`), so that the layers need not know
of SPI. `W5500Tx` implements it in the other direction: what a send accepts goes out.

### CoapExchange

`coap` is the part of `struct net_coap_ctx` that decides what a received header means;
`status` is what the last `net_coap_recv` returned. `requests` and `answers` are the
datagrams handed to the network, each stamped with the number of the send it belongs to
(the stamp is history: no guard of the code's actions uses it). `SetMethod`, `SetToken` and
`Send` are the application; `RecvAckOrReset`, `RecvResponse` and `RecvConfirmable` are the
three branches of the `switch` in `net_coap_recv`, `RecvError` its other returns; `Server*`
is what `tester.py` answers. A datagram in a set may be taken again, or never: duplication
and loss. With `reorder` false, a datagram older than one already taken is not delivered.

Two assumptions make the identifier and the token meaningful, and both are the
application's, not the code's: a datagram does not outlive one turn of the identifier
(`Lifetime <= MidMod`), and a token is not set again while an answer to a request that
had it may come (`Unused`; the tests use a new token each time). `MidMod` is 65536 in the
code. The token of a request may not be changed and set back in between: `SetToken` keeps
the present one or takes an unused one.

### CoapParse

One action per stage of the loop and per exit, so that the cursor (which every `NET_GET` and
`NET_SKIP` macro advances) and `*datalen` (which every branch decreases by hand) can be
compared between two reads. Bytes behind the message read as 0; `NoOverread` says none is
read. `*datalen` is kept modulo 65536. The reference for `DeliversPayload` is a recursive
function over the message (`PayloadStart`), written from the format diagram in `proto_coap.c`.
The property goes both ways, with one exception: an announced length of 65536 or more wraps the
16-bit `optlen`, and such a message, which ends too early by its own account, may be delivered
(`WideLength`). `StagesLeft` is the measure that `Progress` says every stage decreases.

### CoapOptions

Strings are their lengths. `Put` is the macro `NET_COAP_PUT_OPTION` (the two halves of the
first byte, and how many bytes are written), `OptionsDelta` the variable it updates,
`ComputeHdrSize` the size foreseen. `coap.hdrsize` is 0 when it has to be computed again, as
in the code. `placed` remembers what the application was told by `net_coap_pload_pos`; a
setter makes it ask again. `sizedFor` remembers the token length the kept size counts, and
`Uncounted` the bytes that the size misses, in the two ways it can: the token has grown since
(`net_coap_set_token` does not make it be computed again), and a string of 269 bytes or more
is foreseen one byte short. `PayloadInPlace` says in every state that these bytes, and no
others, lie between the header and the place it was meant for. `FitAssumption` says that a
message fits in a buffer whose length has 16 bits: the code leaves that to its caller, for
`net_coap_send` does not use the result of its own check.

### W5500

Every action is one SPI transfer, from chip select to release: `pc` names the transfer that
comes next, and the locals of the call are variables. `Transfer` takes the bus with the first
transfer of a call and releases it with the last; `held` counts. Between any two transfers
the chip may store a frame (`Arrive`), send one (`Transmit`), or change a register
(`ChipChanges`): complete a reset, open the socket, bring the link up or down.

*Reception* (`W5500Rx`). `ring`, `wr`, `rd` and `snrxrd` are the chip's memory and registers,
all pointers modulo `Base * Base` (65536 in the chip). `log` and `taken` are history and
carry the refinement: `Received == INSTANCE FrameQueue WITH log <- ...` maps a stored frame
to its bytes, and only `CommandRecv` hands over.

*Transmission* (`W5500Tx`). `ends` are the ends of the frames that wait in the chip; `txlog`
and `sent` are history and carry the refinement `Sending`. The caller's frame is fixed when
the call starts; that `SPI.transfer` leaves in the caller's buffer what came back while it
was sent is not shown, for the driver does not look at it again.

*Configuration* (`W5500Ctl`). `chip` are the registers, `app` what the application has in
hand, `lost` the number of calls that returned with the bus taken. `_hw_w5500_spi_wait` sends
the same array at every turn, but `SPI.transfer` has written over it: the first turn reads
the register that is asked for, every later one whatever the garbage names. `Seen` lets a
later turn see anything. So `hw_w5500_open` may report a socket that is not open, or that one
is not that is; the model has it, and no property denies it.

`W5500` lets the application configure first and then receive and send, as `test_eth.ino`
does. `Fresh` and `Ready` are bounds: traffic is explored behind one configuration.

### Cksum

One turn of the loop of `_net_cksum_sum` is one action. `total` adds the same words without
a carry and in full, `preTotal` is what it was at connect, and `covered` what it was when the
checksum was written. `Start` names the pieces that a caller sums one after the other:
`net_udp_connect` the two addresses and the next header, `net_udp_send` the length and the
packet on top of that, `_net_icmpv6_fix_cksum` everything.

### Stack

The layers call one another and nothing calls back, so a whole receive is one step: `Recv`
takes the next frame off the interface, `MacRecv`, `Ip6Recv` and `UdpRecv` are the layers'
checks in their order with the offset and length each passes on, and a solicitation that
`Solicits` accepts is answered in the same step by `Advertisement`, which is written field
by field over the frame it answers. A frame is a record of the fields looked at and three
lengths; an address is a scope and a host. A checksum is known by what it was computed over:
`Sum(src, dst, nh)`. `high` is how far the last receive wrote into the buffer, `buflen` its
length. The setters change one field at a time, in any order, between any two receives.
`layers` are those the application calls, chosen once: `net_mac_recv` alone answers nobody,
`net_ip6_recv` and what is above it do. `Cksum` is the arithmetic behind `Sum`.

### SerialLine

`lines` are the lines written at the other end, `line` and `column` where the next character
to be read is; the locals of a call are `state`, `current_byte`, `buffer` and `elapsed`, and
`FrameState` and `SignalState` are the two `switch` statements. A character may be late at
every poll (`Wait`). Characters are ASCII codes, and frames are encoded as `serial_write`
does it, so that `FrameRight` is also the round trip of the encoding.

## What is checked

Every run finishes in about two minutes or less with two workers; the largest have 452,000
(`stack`) and 153,000 (`w5500`) states.

| run | properties | what it shows |
|---|---|---|
| `coap` | `StatusSound`, `ResponseSound`, `ResponseKept` | what is reported, and the code shown, belong to the last request, over a network that loses, repeats and reorders, while the identifier wraps; a code once received is never replaced before the next send, and lost only to the acknowledgement it overtook |
| `coap_piggyback` | `PiggybackTaken` (violated) | a response inside an acknowledgement is refused |
| `parse` | `NoOverread`, `DeliversPayload`, `Terminates`, `Progress` | no read behind the message; delivery exactly of well-formed responses, from the first byte of the payload (a length that wraps set aside); every call returns, because every stage leaves fewer to go |
| `parse_delivered` | `DeliveredInside` (violated) | the region delivered ends one byte behind the message |
| `options` | `PayloadInPlace`, `OptionsReadBack` | the header ends where the payload was put, over any order of setters, but for the bytes of a longer token and of strings from 269 bytes on, which are counted exactly; the first two options of a message are read back as set, unless a query comes first, and the third never |
| `options_reserved` | `MarkerReserved` (violated) | a leading Uri-query has the byte of the payload marker |
| `w5500` | `FramePresent`, `InOrder`, `EachTaken`, `StuckBehindTooLong` | frames come out whole, once, in order and in the end, and what happens behind one that is too long |
| | `RoomThere`, `SentInOrder`, `RefusedRightly`, `RefusedFinitely` | frames go out whole, once and in order; a torn size never admits a frame without room, and refuses one wrongly only for a while |
| | `BusReleased`, `CallReturns`, `SpeedReported`, `AddressKept` | every call returns and releases the bus, but for `hw_w5500_set_phycfg` with a speed it does not take; what was configured is what is read back |
| `stack` | `BufferRespected`, `AdvertisementRight`, `ChecksumRight`, `Delivered`, `SolicitationAnswered` | the promises of the layers for frames that differ from a right one in one field; a station that polls stays reachable |
| `cksum` | `SumRight`, `Completed`, `ReceiverAccepts` | the 16 bits stand for the whole sum at every turn; the checksum is never zero and a receiver accepts it |
| `stack_overrun` | `BufferRespected` (violated) | an advertisement of 86 bytes in a buffer of 82 |
| `stack_coap` | `CoapChecksumRight` (violated) | checksums without addresses after `net_coap_connect` |
| `serial` | `FrameRight`, `SignalRight`, `CallReturns` | only whole lines are taken for frames or signals; every call returns |

Each of the passing runs also checks the type invariant of its module.

### Bounds, and why they are enough

* `coap`: three tokens (symmetric), two codes, three sends, and an identifier of two values,
  so that the third send has the identifier of the first, which is when a late answer could
  be mistaken; `Lifetime` 2 is the longest that the assumption admits. The choice between an
  ordered and a reordering network is made in the initial state.
* `parse`: every body of at most three bytes over twelve, which hold each value of a nibble
  that the parser tells apart (0 to 12, 13, 14, 15) in each half, the marker, and a byte that
  is both; and options of 13, 14, 15, 269 and 270 bytes, whole or one byte short, with every
  body of up to two bytes behind them; options that announce 65536, 65537 and 65804 bytes, of
  which `optlen` keeps 0, 1 and 268, so that the walk goes on inside the value. A stage of the parser looks at three bytes at most.
* `options`: strings on both sides of 13 and 269, where the encoding changes, at most two in
  the path and two in the query, tokens of 0, 1 and 8 bytes, content types none, 40 and 50.
* `w5500`: bytes of two bits, so that pointers wrap at 16 and the ring (8 bytes) goes round;
  received images of 3, 6 and 7 bytes, so that the ring holds one or two frames, frames lie
  across its end, and the size register needs both its bytes; sent frames of 1, 3 and 6 bytes,
  the last of which needs the whole ring empty. Four frames in both directions together. The
  buffer is one byte too short for the longest. A wait has two turns, the one that is right
  and one that is not; the bus is lost at most once; what passes is looked at behind one
  configuration, whose registers play no part in it.
* `stack`: 49 frames, a right datagram and a right solicitation with one field or length
  changed at a time (each length one below and at each header's end, and one too long), then
  one of three right ones (`Later`); three setters, connects and frames in all, at most two of
  a kind, in any order; the two identities the application may take; a third host shares the
  low 24 bits of our address, hence its multicast group. An application calls the MAC layer,
  or the layers above it (`Uses`). Buffers of 1514 (the tests' and the samples') and 81
  bytes, the last length at which the check works.
* `cksum`: bytes of two bits, addresses of zeros, of ones, and between, two heads, and every
  payload of at most three bytes over three values: sums of all ones, carries in each piece,
  odd lengths; any order of connects and sends.
* `serial`: frames of none, one, two bytes and one too long for the buffer, bytes with
  digits and letters in both halves; signals of one, two and three digits around the bound
  of the loop; three lines; calls give up after two polls, at every character.

`MaxSends`, `MaxFrames`, `MaxCalls`, `MaxEvents`, `MaxLines`, `MaxLost` only cut the histories off; the guards they
appear in are marked as bounds where the constants are declared. The proofs hold for every
value of them. `CHECK_DEADLOCK FALSE` is set for `CoapParse` alone: it models one call,
which stops when it returns.

### Fairness

There is nothing in the code that calls by itself, so each liveness property assumes that
the application goes on polling, as the loops of the samples do, and that a call once made
runs on, which is what a single thread does:
`WF(Receive)` in `Stack`, `WF(Next)` in `CoapParse` (one call), `WF(Read)` in `SerialLine`
(a call runs on; nothing is assumed of the writer, and not that anything is called). In
`W5500` a call runs on (`WF`), the application receives again and again although it sends and
configures in between (`SF`, for a call in progress makes the start of another impossible for
a while), and the chip sends what waits (`WF`), which is what a link that is up does. Nothing
else is assumed of the chip, and nothing of the network, the server or the other end of the
line. `Stack`'s fairness says that a poll finds a frame that is there: that is `EachTaken` of
`W5500Rx`, and it fails behind a frame that is too long for the buffer, which is
`StuckBehindTooLong`. `SolicitationAnswered` is about an application that polls above the MAC
layer with a buffer that the advertisement fits, and asks that the advertisement is handed to
the interface: the code tries once, and whether the interface takes it is left open.

## Where code and documentation disagree

* **Piggybacked responses** (`proto_coap.c:215`). Only an empty acknowledgement is taken;
  test 0x67 sends one that carries the response and expects its code to be kept.
* **Payload length** (`proto_coap.c:254`). The loop leaves with its cursor behind the marker
  and `*datalen` still counting it: the application is handed one byte more than there is.
* **Buffer check of the advertisement** (`proto_ip6.c:527`). The sum forgets the ICMPv6
  header: buffers of 82 to 85 bytes are overrun by up to four.
* **`net_coap_connect`** (`proto_coap.c:151`). It does not call `net_udp_connect`, so the sum
  over the addresses is never computed.
* **Uri-query alone** (`proto_coap.c:25`). The option's delta, 15, is written into four bits
  without an extended form: it is the reserved value that `net_coap_recv` itself refuses.

Known limits, which the models contain and no property contradicts: confirmable responses
are refused (`RecvConfirmable`; `TODO.md` says so); requests are never sent again; an
advertisement goes to the configured peer's station, whoever asked (`Transmit`; a TODO in
the code); `net_coap_set_token` keeps a size that counted another token (`Uncounted`); the
third option of a message has a wrong delta (`OptionsDelta` takes the previous delta for the
previous number; `OptionsReadBack` says so); strings of 269 bytes and more are counted one byte
short (`Uncounted`);
`_hw_w5500_spi_wait` waits for the right register in its first turn only (`Seen`);
`hw_w5500_set_phycfg` returns without releasing the bus for a speed it does not know, and for
10 Mbps with negotiation (`ReturnHolding`); `hw_w5500_get_phycfg` reports half duplex at 100
Mbps as full (`ReadPhycfg`), although the samples set that speed; a frame that exactly fills
the room left is refused for two bytes that are no longer written (`NoRoom`);
an acknowledgement that its response overtook writes EMPTY over the response code
(`ResponseKept` says that this is the only way a code is lost); a datagram whose UDP length is
below what the IPv6 length leaves is delivered with the bytes behind it (`proto_udp.c:137-143`;
`Delivered` states the region); a setter of the IPv6 layer after `net_udp_connect` leaves the sum
of the old addresses (`ChecksumRight` asks for none of them in between); after a change of
address the multicast list is the old one until the application changes it
(`SolicitationAnswered` asks that it is the address's own); a message that announces an option
of 65536 bytes or more may be delivered (`WideLength`); the serial driver cuts a frame that does not
fit its buffer where the W5500 driver returns nothing (`FirstBytes`).

## What is proved

For every value of the constants that satisfies the named assumptions:

| theorem | statement |
|---|---|
| `CoapExchange_proofs`: `TypeCorrect`, `StatusIsSound`, `ResponseIsSound`, `ResponseIsKept` | the properties of run `coap`, for every identifier width, lifetime up to one turn of it, sets of tokens and codes, either network |
| `CoapParse_proofs`: `TypeCorrect`, `NeverOverreads`, `DeliveryIsRight`, `MakesProgress` | no read behind the message, delivery exactly of what the recursive reference finds well formed (lengths that wrap set aside), and a count of stages that every stage decreases, for every message of at most 65535 bytes and every token |
| `CoapOptions_proofs`: `TypeCorrect`, `PayloadIsInPlace`, `OptionsAreReadBack` | the invariants of run `options`, for any lists of strings that fit in a message, any tokens and content types, and any order of setters |
| `Stack_proofs`: `TypeCorrect`, `AdvertisementIsRight`, `ChecksumIsRight`, `DeliveredIsRight`, `BufferIsRespected` | the properties of run `stack`, for every set of hosts, frames and ports; the last one for every buffer but 82 to 85 bytes, which the assumption of the theorem excludes and run `stack_overrun` shows to be needed |
| `W5500_proofs`: `TypeCorrect`, `FrameIsPresent`, `RoomIsThere`, `DeliversInOrder`, `SendsInOrder`, `StuckForGood`, `RefusalIsRight`, `BusIsReleased`, `AddressIsKept`, `SpeedIsReported` | every safety property of run `w5500`, with both refinements of `FrameQueue`, for every width of a byte, every ring whose size divides the pointers' range, every set of frames, buffer length and number of frames |
| `Cksum_proofs`: `TypeCorrect`, `SumIsRight`, `ChecksumCompletes`, `ReceiverAcceptsIt` | the sum agrees with the full one at every turn, over any calls; a checksum is not zero and completes its words; a receiver, who adds up pseudo header and packet in one go, accepts it; for every width of a byte and every content |
| `SerialLine_proofs`: `TypeCorrect`, `FrameIsRight`, `SignalIsRight` | a frame is returned exactly when its whole line was read, with the bytes that `serial_write` was given, and a signal exactly when its whole line was read, with its number; for every frame, signal, buffer length and timeout |
| `Arithmetic`: `Induction`, `BoundedInduction`, `RecursionUp`, `RecursionDown` | induction stated with a set in place of a predicate; a function defined by recursion over `0 .. n`, upwards or downwards, satisfies its equation |

The arguments:

* **CoapExchange.** That an answer with the current identifier belongs to the last request is
  not inductive. `MidInv` says that the identifier is the number of sends modulo its width,
  `RequestInv` that a request carries that of its own send, `AnswerInv` that an answer
  carries what its request did and that the server heard it. A live answer is less than one
  turn old, so equal identifiers mean equal sends (`CurrentIdentifier`, on `ModEq` of
  `Arithmetic`). For tokens, `TokenInv`: no live request but the last has the current token,
  which `SetToken` and `Send` keep because tokens are not set again too early. A code is never
  replaced by another because a request has one answer that is not an acknowledgement
  (`OneResponse`). Over an ordered network it is not lost either (`Ordered`): that answer is
  younger than the acknowledgement (`Stamped`), and what gave the code lies behind the cursor
  (`CodeTaken`), so nothing that may still come can take the code away.
* **CoapParse.** `NoOverread` only bounds the two counts; `InSync` says what relates them:
  cursor and `*datalen` add up to the message at every stage of the loop, and before it
  `*datalen` still counts the header the cursor has passed. Each branch checks `*datalen`
  before it reads, and `Decrease` shows that the subtraction then does not wrap. For the
  delivery, `Walk` says that at each stage the cursor is at, or a known distance behind, an
  index from which the reference finds the same payload as from the start (`OnTheWay`); that
  the reference satisfies its own recursion is `RecursionDown`, and a step of the loop then
  unfolds it once (`PayloadStep`). `Astray` sets aside the lengths that wrap. `Progress`
  follows from `InSync`: without it the measure could fall below zero.
* **CoapOptions.** `Kept`: the size in the context, when there is one, is that of the present
  strings and content type and of the token length `sizedFor` (`SizeFor`). The difference to
  the header written is then the difference of two sums over the same list (`UriSize` and the
  options of `UriOptions`), which an induction over the list gives. For `OptionsReadBack` the
  first three values of `OptionsDelta` and of `NumberRead` are unfolded (`DeltasDefined`,
  `NumbersDefined`).
* **Stack.** What a layer returns is bounded by what the layer below returned (`MacReturns`,
  `Ip6Returns`, `UdpReturns`), from which half of `Delivered` follows for the step; the other
  half is `NoneRefuses`: no layer refuses a datagram for us. Only the checksum needs an
  invariant: `SumFresh`, the kept sum is that of the present addresses as long as no setter of
  the IPv6 layer was called since `net_udp_connect`.
* **W5500.** The driver only sees pointers modulo 65536 and the chip only positions modulo the
  ring. `RxInv` and `TxInv` relate both to positions that never wrap: `Chained` says that
  frames lie one behind the other, a register is the position of a frame modulo `PtrMod`, the
  frames that wait span at most the ring (which is why writing one leaves the others alone:
  `DistanceOfPositions`, `StoredOld`), and they lie in the memory byte by byte (`RxMemory`).
  `RxLocals` says what a call has read so far: between the two bytes of a size, that the high
  byte is at most that of the present size, for it only grows until the call itself changes
  it; that makes a torn size harmless. The refinements follow from the memory and the locals.
  `CtlInv` adds that the link's speed is one that the PHY's mode, set by the last
  `hw_w5500_set_phycfg`, may reach.
* **Cksum.** Modulo 65535 a word and its carry are the same, so each turn keeps `Represents`
  (`CarryRepresents`); that a sum is zero only if all words are is what makes the complement
  safe. `Pieces` says that no piece is empty. That the pieces add up to what a receiver sums
  (`Added`) rests on `WordSumConcat`, an induction over the bytes: sums of words may be
  taken apart where the first part has an even length, which is why only the last piece may be
  odd.
* **SerialLine.** `Reading` relates the column to the state and to the bytes stored: of a
  frame read from its start, all bytes up to the column, and a high digit in between; of a
  line whose rest is read, none, because no character after the first is a P (`LineChars`).
  `HighDigit` keeps the byte within its width. `Counting` does the same for a signal: the
  number so far is the one that the leading digits read make (`LeadingDigits`), and the layout
  of the line (`SignalLayout`) says which digit comes next.

The provers cannot instantiate a theorem that takes a predicate. Where an argument is by
induction over data, the predicate is turned into the set of numbers that satisfy it, and
`Induction` or `BoundedInduction` of `Arithmetic` is cited for that set; the recursive
functions of the models (`TotalUpTo`, `OptionsDelta`, `NumberRead`, `WordsUpTo`, `Payload` of
`PayloadStart`) get their
defining equations from `RecursionUp` and `RecursionDown`.

Only model-checked: liveness (`EachTaken`, `RefusedFinitely`, `CallReturns` of `W5500` and of
`SerialLine`, `Terminates`, `SolicitationAnswered`), which needs fairness and `ENABLED`; of
`Terminates` the safety half is proved, as `Progress`. Every invariant and every action
property of a passing run is stated by a theorem.

## What is not modelled

* What a garbage command of `_hw_w5500_spi_wait` may write: whether it is a write, and of
  what, depends on the bits that the chip shifts out while it is sent. `hw_w5500_destroy`,
  which nothing calls. The status and interrupt registers the driver does not use.
* The arithmetic of the checksum within `Stack`: there a sum is known by what it was computed
  over, and the arithmetic is that of `Cksum`.
* Contents of frames beyond the fields the code looks at, and of strings beyond their
  lengths; in `Stack` the bytes of the buffer are lengths.
* Loss of characters on the serial line: the format has nothing to detect it with.
* `spi_init` beyond the idle bus it leaves, `spi_destroy`, `msleep`, the stub layer, the compile-time chain of layers, the samples, and the
  test programs, which were read for what they expect and for the states a test starts from.

## Plan

1. The builder's message read by the parser: `CoapOptions` into `CoapParse`, so that what one
   end sets is what the other end's walk skips.
2. The test protocol over `SerialLine`: `tester.py` and `test_net.ino` waiting for each
   other's signals, with verdicts that come late.
3. `CoapExchange` over `Stack`: which datagrams of the peer the layers below leave for it.
