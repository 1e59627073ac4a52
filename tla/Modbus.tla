------------------------------- MODULE Modbus -------------------------------
(***************************************************************************)
(* The Modbus TCP collector (internal/collector/modbus.go): one persistent *)
(* connection, read as a stream of bytes.  The gateway is external.  It    *)
(* answers as the protocol says, in the layout the two clients of this     *)
(* repository give their own requests: transaction(2) protocol(2) length(2)*)
(* unit(1), then the PDU, for a read function(1) byteCount(1) registers.   *)
(* It may also answer with an exception, stay silent until the deadline,   *)
(* refuse the connection or reset it.                                      *)
(***************************************************************************)
EXTENDS Integers, Sequences

CONSTANTS Polls,        \* the configured blocks, a sequence of [addr, count]
          RegisterMaps, \* contents of the gateway's registers that are tried
          UnitID, MaxPolls

VARIABLES registers, \* the gateway's holding registers
          conn,      \* is m.conn non-nil
          stream,    \* bytes received on it and not read yet
          txn,       \* m.txn
          block,     \* index in Polls of the block Poll reads next, 0 between polls
          out,       \* registers read so far by this Poll
          result,    \* what the last Poll returned
          polls      \* polls begun

vars == <<registers, conn, stream, txn, block, out, result, polls>>

FunctionReadHoldingRegisters == 3
HeaderLen == 10
NoResult == [ok |-> FALSE, regs |-> <<>>]

Bytes16(v) == <<v \div 256, v % 256>>

Init ==
  /\ registers \in RegisterMaps
  /\ conn = FALSE /\ stream = <<>> /\ txn = 0
  /\ block = 0 /\ out = <<>> /\ result = NoResult /\ polls = 0

(***************************************************************************)
(* The gateway's answers to a request for a block.                         *)
(***************************************************************************)
Mbap(id, length) == Bytes16(id) \o <<0, 0>> \o Bytes16(length) \o <<UnitID>>

Held(b) == [i \in 1 .. b.count |-> registers[b.addr + i - 1]]

Response(id, b) ==
  Mbap(id, 3 + 2 * b.count) \o <<FunctionReadHoldingRegisters, 2 * b.count>>
    \o [k \in 1 .. 2 * b.count |-> Bytes16(Held(b)[(k + 1) \div 2])[1 + ((k + 1) % 2)]]

Exception(id) == Mbap(id, 3) \o <<128 + FunctionReadHoldingRegisters, 2>>

(***************************************************************************)
(* The collector.                                                          *)
(***************************************************************************)
PollBegins ==
  /\ block = 0 /\ polls < MaxPolls
  /\ block' = 1 /\ out' = <<>> /\ polls' = polls + 1
  /\ UNCHANGED <<registers, conn, stream, txn, result>>

\* readRegisters returned an error: Poll returns nil and the error.
PollFails ==
  /\ block' = 0 /\ out' = <<>> /\ result' = NoResult

\* readRegisters returned regs: Poll goes on to the next block or returns.
PollGoesOn(regs) ==
  IF block = Len(Polls)
  THEN block' = 0 /\ out' = <<>> /\ result' = [ok |-> TRUE, regs |-> Append(out, regs)]
  ELSE block' = block + 1 /\ out' = Append(out, regs) /\ UNCHANGED result

\* dial is refused.
DialFails ==
  /\ block # 0 /\ ~conn
  /\ PollFails
  /\ UNCHANGED <<registers, conn, stream, txn, polls>>

\* The write fails, or the connection is reset: m.conn = nil.
WriteFails ==
  /\ block # 0
  /\ txn' = (txn + 1) % 65536
  /\ conn' = FALSE /\ stream' = <<>>
  /\ PollFails
  /\ UNCHANGED <<registers, polls>>

Registers(body) ==
  [i \in 1 .. Len(body) \div 2 |-> body[2 * i - 1] * 256 + body[2 * i]]

\* The request is written and buf is what the connection delivers before the
\* deadline; header[i] of the code is buf[i + 1].  The transaction and the
\* length in the header are not looked at.
ReadRegisters(reply) ==
  LET buf       == stream \o reply
      byteCount == buf[HeaderLen]
      short     == Len(buf) < HeaderLen \/ Len(buf) < HeaderLen + byteCount
      body      == SubSeq(buf, HeaderLen + 1, HeaderLen + byteCount)
  IN  /\ txn' = (txn + 1) % 65536
      /\ IF short
         THEN conn' = FALSE /\ stream' = <<>> /\ PollFails
         ELSE /\ conn' = TRUE
              /\ stream' = SubSeq(buf, HeaderLen + byteCount + 1, Len(buf))
              /\ IF buf[HeaderLen - 1] # FunctionReadHoldingRegisters
                 THEN PollFails
                 ELSE PollGoesOn(Registers(body))
      /\ UNCHANGED <<registers, polls>>

GatewayAnswers ==
  block # 0 /\ ReadRegisters(Response((txn + 1) % 65536, Polls[block]))

GatewayRejects == block # 0 /\ ReadRegisters(Exception((txn + 1) % 65536))

GatewaySilent == block # 0 /\ ReadRegisters(<<>>)

Next ==
  \/ PollBegins \/ DialFails \/ WriteFails
  \/ GatewayAnswers \/ GatewayRejects \/ GatewaySilent

Spec == Init /\ [][Next]_vars

\* A poll that returns points returns one per configured register, with the
\* value the gateway holds: "Poll reads every configured register block and
\* emits one point per register" (modbus.go:74), over a collector said to
\* "implement real wire protocols" (go-telemetry/README.md:77).
PollsReadRegisters ==
  result.ok => result.regs = [i \in 1 .. Len(Polls) |-> Held(Polls[i])]

=============================================================================
