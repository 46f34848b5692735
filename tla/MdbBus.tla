------------------------------ MODULE MdbBus -------------------------------
(***************************************************************************)
(* The MDB bus of vending peripherals as rk_devices frames it (mdb.rs): a  *)
(* master's frame opens with a word that carries the mode bit, a           *)
(* peripheral's closes with one, and a sum of bytes ends both.  The        *)
(* bridge, which may spoil a byte of a transmission, the peripherals and   *)
(* the caller that asks again are external.                                *)
(*                                                                         *)
(* A word is [byte, mode].                                                 *)
(***************************************************************************)
EXTENDS Integers, Sequences, SequencesExt, FiniteSetsExt

CONSTANTS
    Asks,     \* what callers ask for: [address, command, data]
    Blocks,   \* data blocks peripherals answer with; the empty one is an ACK
    Flips,    \* what a spoilt byte is off by
    MaxAsks, MaxFaults \* bounds

VARIABLES
    asked,     \* history: frames sent, as asked
    bus,       \* the frame on its way to the peripherals, <<>> for none
    executed,  \* history: what peripherals did, [address, low, data]
    answers,   \* history: data blocks answered
    line,      \* words of replies, not read yet
    buffer,    \* words read and not dropped
    accepted,  \* history: blocks decode called good
    faults

busVars == <<asked, bus, executed, answers, line, buffer, accepted, faults>>

\* Address::base and COMMANDS: a command is its place in its row, and a place
\* with no name is none the table holds.
Base == [coinChanger |-> 8, cashless1 |-> 16, commsGateway |-> 24,
         billValidator |-> 48, cashless2 |-> 96]
CashlessCommands == <<"reset", "setup", "poll", "vend", "reader", "revalue", "", "expansion">>
Commands == [
    coinChanger |-> <<"reset", "setup", "tubeStatus", "poll", "coinType", "dispense">>,
    billValidator |-> <<"reset", "setup", "security", "poll", "billType", "escrow",
                        "stacker", "expansion">>,
    cashless1 |-> CashlessCommands, cashless2 |-> CashlessCommands,
    commsGateway |-> <<>>]
\* Mutant: the neighbour's row answers for a peripheral.
LowCoin(address, command) ==
    {k - 1 : k \in {k \in DOMAIN Commands["coinChanger"] : Commands["coinChanger"][k] = command}}
Low(address, command) ==
    {k - 1 : k \in {k \in DOMAIN Commands[address] :
                        Commands[address][k] = command /\ command # ""}}

\* Mutant: the command byte is not summed.
ChecksumData(bytes) == FoldLeft(LAMBDA n, b : (n + b) % 256, 0, Tail(bytes))
Checksum(bytes) == FoldLeft(LAMBDA n, b : (n + b) % 256, 0, bytes)
MaxData == 254

\* Of the constants: bytes, and a spoilt byte is another one.
BusAssumption ==
    /\ \A a \in Asks : a.address \in DOMAIN Base /\ a.data \in Seq(0..255)
    /\ Blocks \subseteq Seq(0..255)
    /\ Flips \subseteq 1..255
    /\ MaxAsks \in Nat /\ MaxFaults \in Nat

\* encode, of a command the table knows; encode_raw.
EncodeRaw(command, data) ==
    LET bytes == <<command>> \o data IN
    [k \in 1..Len(bytes) + 1 |->
        [byte |-> IF k > Len(bytes) THEN Checksum(bytes) ELSE bytes[k], mode |-> k = 1]]
Encode(a) ==
    IF Low(a.address, a.command) = {} \/ Len(a.data) > MaxData THEN <<>>
    ELSE EncodeRaw(Base[a.address] + Min(Low(a.address, a.command)), a.data)

\* decode: the mode bit ends the frame.
BytesOf(words) == [k \in DOMAIN words |-> words[k].byte]
\* Mutant: the sum is not looked at.
GoodAlways(words) == TRUE
Good(words) == Checksum(BytesOf(Front(words))) = Last(words).byte
ModeEnds == {k \in DOMAIN buffer : buffer[k].mode}
Decode ==
    LET end == Min(ModeEnds)
        words == SubSeq(buffer, 1, end)
    IN  IF end = 1 THEN
            [kind |-> CASE buffer[1].byte = 0 -> "ack" [] buffer[1].byte = 255 -> "nak"
                        [] buffer[1].byte = 170 -> "ret" [] OTHER -> "badChecksum",
             payload |-> <<>>, consumed |-> 1]
        ELSE IF Good(words)
        THEN [kind |-> "block", payload |-> BytesOf(Front(words)), consumed |-> end]
        ELSE [kind |-> "badChecksum", payload |-> <<>>, consumed |-> end]

----------------------------------------------------------------------------
BusInit ==
    /\ asked = <<>> /\ bus = <<>> /\ executed = <<>> /\ answers = <<>>
    /\ line = <<>> /\ buffer = <<>> /\ accepted = <<>> /\ faults = 0

\* A caller puts a frame on the bus, if its command has one.
MasterAsks ==
    /\ bus = <<>> /\ Len(asked) < MaxAsks
    /\ \E a \in Asks :
         /\ Encode(a) # <<>>
         /\ bus' = Encode(a)
         /\ asked' = Append(asked, a)
    /\ UNCHANGED <<executed, answers, line, buffer, accepted, faults>>

\* One byte of a transmission may be spoilt; the mode bit is not, and neither
\* is a lone word, which no sum protects.
Spoilt(words) ==
    {[words EXCEPT ![k].byte = (@ + d) % 256] : k \in DOMAIN words, d \in Flips}
Arrivals(words) == {words} \cup (IF Len(words) > 1 THEN Spoilt(words) ELSE {})
Noise(words, came) == IF came = words THEN 0 ELSE 1
Reply(block) ==
    IF block = <<>> THEN <<[byte |-> 0, mode |-> TRUE]>>
    ELSE Append([k \in DOMAIN block |-> [byte |-> block[k], mode |-> FALSE]],
                [byte |-> Checksum(block), mode |-> TRUE])

\* Who takes a frame for his: a wrong sum is answered by nobody.
Addressed(words) ==
    {a \in DOMAIN Base : /\ Checksum(BytesOf(Front(words))) = Last(words).byte
                         /\ Base[a] = 8 * (words[1].byte \div 8)}

\* The peripherals hear the frame; the one addressed executes it and answers.
PeripheralsHear ==
    /\ bus # <<>>
    /\ \E words \in Arrivals(bus) :
         \/ /\ Addressed(words) = {}
            /\ faults' = faults + Noise(bus, words)
            /\ UNCHANGED <<executed, answers, line>>
         \/ \E a \in Addressed(words), block \in Blocks : \E reply \in Arrivals(Reply(block)) :
              /\ faults' = faults + Noise(bus, words) + Noise(Reply(block), reply)
              /\ executed' = Append(executed, [address |-> a,
                     low |-> words[1].byte % 8, data |-> Tail(BytesOf(Front(words)))])
              /\ answers' = Append(answers, block)
              /\ line' = line \o reply
    /\ faults' <= MaxFaults
    /\ bus' = <<>>
    /\ UNCHANGED <<asked, buffer, accepted>>

\* The bridge hands a word over.
WordArrives ==
    /\ line # <<>>
    /\ buffer' = Append(buffer, Head(line))
    /\ line' = Tail(line)
    /\ UNCHANGED <<asked, bus, executed, answers, accepted, faults>>

\* The caller decodes what it has: a finished frame is dropped, a block kept.
TakeFrame ==
    /\ ModeEnds # {}
    /\ buffer' = SubSeq(buffer, Decode.consumed + 1, Len(buffer))
    /\ accepted' = IF Decode.kind \in {"block", "ack"} THEN Append(accepted, Decode.payload)
                   ELSE accepted
    /\ UNCHANGED <<asked, bus, executed, answers, line, faults>>

BusNext == MasterAsks \/ PeripheralsHear \/ WordArrives \/ TakeFrame
BusSpec == BusInit /\ [][BusNext]_busVars

----------------------------------------------------------------------------
(* Properties.                                                             *)
BusTypeOK ==
    /\ Len(asked) <= MaxAsks /\ faults \in 0..MaxFaults
    /\ \A words \in {bus, line, buffer} : \A k \in DOMAIN words : words[k].byte \in 0..255

\* A peripheral executes only what it was asked for, by its command and its
\* data: a frame with a spoilt byte moves nobody, and the table gives no two
\* commands one byte.
Means(a, e) ==
    /\ e.address = a.address /\ e.data = a.data
    /\ Commands[e.address][e.low + 1] = a.command
ExecutesWhatWasAsked ==
    \A k \in DOMAIN executed : \E j \in DOMAIN asked : Means(asked[j], executed[k])

\* The blocks a caller is given are blocks that were answered, whole, in
\* their order, wherever the bridge pauses; a spoilt one is not among them,
\* and any other that is missing still waits to be read.
GivenAsAnswered ==
    /\ \E from \in [DOMAIN accepted -> DOMAIN answers] :
         /\ \A j, k \in DOMAIN accepted : j < k => from[j] < from[k]
         /\ \A k \in DOMAIN accepted : accepted[k] = answers[from[k]]
    /\ Len(answers) - Len(accepted) <=
          faults + Cardinality({k \in DOMAIN (buffer \o line) : (buffer \o line)[k].mode})

\* A peripheral executes what was asked of it and nothing else, and an answer
\* spoilt on the way is never taken for a good one (mdb.rs).
BusSaysWhatWasMeant == BusTypeOK /\ ExecutesWhatWasAsked /\ GivenAsAnswered
============================================================================
