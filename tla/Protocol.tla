------------------------------ MODULE Protocol ------------------------------
(***************************************************************************)
(* The bytes that device and service exchange: the packed structs of the   *)
(* firmware (device/protocol.h, little-endian) and the struct formats with *)
(* which the service packs and unpacks them (device/protocol.py), written  *)
(* down apart from each other as in the code.                              *)
(*                                                                         *)
(* An integer is kept as what it is the value of, e.g.                     *)
(* <<"Sample", <<"temperature", "core">>, 7>>: of sample 7.  A byte string *)
(* is its size and the integers that were written into it, each at its     *)
(* offset with its type; to read at another offset, or another type, is to *)
(* read garbage.                                                           *)
(***************************************************************************)
EXTENDS Integers, Sequences, SequencesExt

Garbage == <<"Garbage", <<>>, 0>>

Width == [uint8 |-> 1, uint16 |-> 2, int16 |-> 2, uint32 |-> 4, uint64 |-> 8]

Field(name, type) == [name |-> <<name>>, type |-> type]

(* The fields of a struct that is a field itself.                          *)
Inner(name, struct) ==
  [i \in DOMAIN struct |-> [name |-> <<name>> \o struct[i].name, type |-> struct[i].type]]

(* Structs are packed: a field lies behind those before it.  The offset    *)
(* after the last one is the size.                                         *)
Offsets(fields) ==
  LET at[i \in 1 .. Len(fields) + 1] ==
        IF i = 1 THEN 0 ELSE at[i - 1] + Width[fields[i - 1].type]
  IN  at

Packed(fields) ==
  [size |-> Offsets(fields)[Len(fields) + 1],
   ints |-> {[name |-> fields[i].name, type |-> fields[i].type, at |-> Offsets(fields)[i]] :
             i \in DOMAIN fields}]

(* A struct as bytes, with fields of the values Value(name).               *)
Written(struct, Value(_)) ==
  [size |-> struct.size,
   ints |-> {[at |-> f.at, type |-> f.type, value |-> Value(f.name)] : f \in struct.ints}]

(* Bytes behind `size` others, one byte string behind another, and         *)
(* bytes[from:to].                                                         *)
Behind(ints, size) ==
  {[at |-> x.at + size, type |-> x.type, value |-> x.value] : x \in ints}

Empty == [size |-> 0, ints |-> {}]

Concat(a, b) == [size |-> a.size + b.size, ints |-> a.ints \union Behind(b.ints, a.size)]

Slice(bytes, from, to) ==
  LET whole == {x \in bytes.ints : x.at >= from /\ x.at + Width[x.type] <= to}
  IN  [size |-> to - from, ints |-> Behind(whole, -from)]

Read(bytes, at, type) ==
  IF \E x \in bytes.ints : x.at = at /\ x.type = type
  THEN (CHOOSE x \in bytes.ints : x.at = at).value ELSE Garbage

-----------------------------------------------------------------------------
(* MessageType, and the states a device is in.                             *)

MessageType == [START |-> 1, PAUSE |-> 2, RESUME |-> 3, STOP |-> 4,
                SET_TIME |-> 5, SAMPLE_ACK |-> 6, TELEMETRY |-> 7]

StateEnum == {2 ^ bit : bit \in 0 .. 10}

TypeValue(t) == <<"Message", <<"message_type">>, t>>

-----------------------------------------------------------------------------
(* device/protocol.h                                                       *)

CMemory ==
  << Field("size", "uint32"), Field("heap_free", "uint32"), Field("min_heap_free", "uint32"),
     Field("largest_allocatable", "uint32"), Field("sample_buffer_size", "uint32") >>

CTemperature ==
  << Field("current", "int16"), Field("target", "int16"), Field("cold_junction", "int16"),
     Field("core", "int16") >>

CSampleFields ==
  << Field("timestamp", "uint32"), Field("sample_count", "uint8"), Field("device_state", "uint16") >>
  \o Inner("temperature", CTemperature) \o << Field("duty_cycle", "uint8") >>
  \o Inner("memory", CMemory)

CSample == Packed(CSampleFields)

CType == << Field("type", "uint8") >>

CMessage == Packed(CType)

CTelemetryFields ==
  CType \o << Field("timestamp", "uint64"), Field("uptime", "uint32"),
              Field("state", "uint16"), Field("sample_count", "uint16") >>

CTelemetry == Packed(CTelemetryFields)

CSetTime == Packed(CType \o << Field("timestamp", "uint64") >>)

CSampleAck == Packed(CType \o << Field("timestamp", "uint32") >>)

-----------------------------------------------------------------------------
(* device/protocol.py                                                      *)

PyMemory ==
  << Field("size", "uint32"), Field("heap_free", "uint32"), Field("min_heap_free", "uint32"),
     Field("largest_allocatable", "uint32"), Field("sample_buffer_size", "uint32") >>

PyTemperature ==
  << Field("current", "int16"), Field("target", "int16"), Field("cold_junction", "int16"),
     Field("core", "int16") >>

PySampleFields ==
  << Field("timestamp", "uint32"), Field("sub_sample_count", "uint8"), Field("state", "uint16") >>
  \o Inner("temperature", PyTemperature) \o << Field("duty_cycle", "uint8") >>
  \o Inner("memory", PyMemory)

PySample == Packed(PySampleFields)

PyType == << Field("message_type", "uint8") >>

PyMessage == Packed(PyType)

PyTelemetryFields ==
  PyType \o << Field("timestamp_ms", "uint64"), Field("uptime", "uint32") >>
  \o Inner("state", << Field("state", "uint16") >>)
  \o << Field("sample_count", "uint16") >>

PyTelemetry == Packed(PyTelemetryFields)

PySetTime == Packed(PyType \o << Field("timestamp", "uint64") >>)

PySampleAck == Packed(PyType \o << Field("timestamp", "uint32") >>)

(* Struct.unpack takes as many bytes as the struct has, or raises; the     *)
(* object it makes is its fields and their values.                         *)
Unpackable(struct, bytes) == bytes.size = struct.size

Unpack(struct, bytes) ==
  {[name |-> f.name, value |-> Read(bytes, f.at, f.type)] : f \in struct.ints}

Get(object, name) == (CHOOSE f \in object : f.name = name).value

(* Pages of `size` bytes from `offset`: what is left of the last is none.  *)
\* Mutant: range(offset, len(buffer), size) ends before the last page.
PagesShort(buffer, offset, size) ==
  [p \in 1 .. (buffer.size - offset - 1) \div size |->
    Slice(buffer, offset + (p - 1) * size, offset + p * size)]

Pages(buffer, offset, size) ==
  [p \in 1 .. (buffer.size - offset) \div size |->
    Slice(buffer, offset + (p - 1) * size, offset + p * size)]

(* MessageType.unpack: the first byte says which class unpacks the rest,   *)
(* and that is Message itself for commands that carry nothing.             *)
Type(bytes) == Read(bytes, 0, "uint8")

Struct(type) ==
  CASE type = TypeValue(MessageType.SET_TIME)   -> PySetTime
    [] type = TypeValue(MessageType.SAMPLE_ACK) -> PySampleAck
    [] type = TypeValue(MessageType.TELEMETRY)  -> PyTelemetry
    [] OTHER                                    -> PyMessage

(* Telemetry unpacks its head, with a state of StateEnum, and its samples. *)
TelemetryHead(bytes) == Slice(bytes, 0, PyTelemetry.size)

Readable(bytes) ==
  /\ Type(bytes) \in {TypeValue(t) : t \in Range(MessageType)}
  /\ IF Type(bytes) # TypeValue(MessageType.TELEMETRY)
     THEN Unpackable(Struct(Type(bytes)), bytes)
     ELSE /\ bytes.size >= PyTelemetry.size
          /\ Get(Unpack(PyTelemetry, TelemetryHead(bytes)), <<"state", "state">>)[3] \in StateEnum

Samples(bytes) ==
  LET pages == Pages(bytes, PyTelemetry.size, PySample.size)
  IN  [i \in DOMAIN pages |-> Unpack(PySample, pages[i])]
=============================================================================
