---------------------------- MODULE TensorFrames ----------------------------
(***************************************************************************)
(* Tensor contracts and the frame that carries a tensor bundle            *)
(* (_black_hole_spec): what is encoded, what a receiver of the whole frame *)
(* accepts, and what a receiver of a live stream accepts of its header.    *)
(*                                                                         *)
(* A frame is a sequence of cells: the magic prefix, the envelope, the     *)
(* cells of the metadata, one cell for the safetensors header, and the     *)
(* cells of the tensors' data.  Truncation, prefixes and chunks are those  *)
(* of sequences; a hash is the value it is the hash of.  Tensor names are  *)
(* numbers, which stand for them in alphabetical order, and dtypes have a  *)
(* rank in safetensors' order and a width in cells.  Every cell is a       *)
(* record, told apart by its fields.                                       *)
(***************************************************************************)
EXTENDS Integers, Sequences, FiniteSets, SequencesExt

Dtypes == [U8 |-> [rank |-> 1, width |-> 1], U32 |-> [rank |-> 2, width |-> 2], F32 |-> [rank |-> 3, width |-> 2]]

-----------------------------------------------------------------------------
(* Contracts *)

\* A zero in a type-level shape is a dynamic dimension.
DimensionDescriptor(n) == [rule |-> IF n = 0 THEN "dynamic" ELSE "static", of |-> n]
Symbolic(label)        == [rule |-> "symbolic", of |-> label]

PortDescriptor(name, shape, dtypes) ==
  [name |-> name, dtypes |-> dtypes, dims |-> [i \in DOMAIN shape |-> DimensionDescriptor(shape[i])]]

ContractDescriptor(id, version, inputs, outputs) ==
  [id |-> id, version |-> version, input |-> inputs, output |-> outputs]

Sides == {"input", "output"}

ValidSchema(ports) == \A i, j \in DOMAIN ports : ports[i].name = ports[j].name => i = j

Named(tensors, name) == CHOOSE t \in Range(tensors) : t.name = name

FitsPort(t, port) ==
  /\ t.dtype \in port.dtypes
  /\ Len(t.shape) = Len(port.dims)
  /\ \A a \in DOMAIN port.dims : port.dims[a].rule = "static" => t.shape[a] = port.dims[a].of

ValidTensors(ports, tensors) ==
  /\ \A i, j \in DOMAIN tensors : tensors[i].name = tensors[j].name => i = j
  /\ {t.name : t \in Range(tensors)} = {p.name : p \in Range(ports)}
  /\ \A p \in Range(ports) : FitsPort(Named(tensors, p.name), p)
  /\ \A p, q \in Range(ports) : \A a \in DOMAIN p.dims, b \in DOMAIN q.dims :
       p.dims[a].rule = "symbolic" /\ q.dims[b] = p.dims[a]
         => Named(tensors, p.name).shape[a] = Named(tensors, q.name).shape[b]

ValidPorts(ports, tensors) == ValidSchema(ports) /\ ValidTensors(ports, tensors)

-----------------------------------------------------------------------------
(* Raw tensors *)

Elements(shape) ==
  LET upto[a \in 0 .. Len(shape)] == IF a = 0 THEN 1 ELSE upto[a - 1] * shape[a]
  IN  upto[Len(shape)]
DataLen(t) == Elements(t.shape) * Dtypes[t.dtype].width

\* RawTensor::f32 and to_f32, for any element type.
RawTensor(name, dtype, shape, values) ==
  LET w == Dtypes[dtype].width
  IN  [name |-> name, dtype |-> dtype, shape |-> shape,
       data |-> [i \in 1 .. Len(values) * w |-> [value |-> values[(i - 1) \div w + 1], byte |-> (i - 1) % w]]]
Values(t) ==
  LET w == Dtypes[t.dtype].width
  IN  [i \in 1 .. Len(t.data) \div w |-> t.data[(i - 1) * w + 1].value]

\* Lists of what they hold, whatever that is: an operation's answer, and what an
\* engine may predict.
IsTensor(t) ==
  /\ t = [name |-> t.name, dtype |-> t.dtype, shape |-> t.shape, data |-> t.data]
  /\ t.name \in Nat /\ t.dtype \in DOMAIN Dtypes
  /\ t.shape \in Seq(Nat) /\ t.data \in Seq(Range(t.data))
IsBundle(bundle) ==
  /\ bundle.tensors \in Seq(Range(bundle.tensors)) /\ \A t \in Range(bundle.tensors) : IsTensor(t)
  /\ bundle.metadata \in Seq(Range(bundle.metadata))

\* TensorView::new
ValidView(t) == Len(t.data) = DataLen(t)

-----------------------------------------------------------------------------
(* The safetensors library *)

\* Contiguous from offset zero, each ending after its start and as long as its
\* shape says (Metadata::new).
Contiguous(infos) ==
  \A i \in DOMAIN infos :
    /\ infos[i].start = IF i = 1 THEN 0 ELSE infos[i - 1].end
    /\ infos[i].end >= infos[i].start
    /\ infos[i].end - infos[i].start = DataLen(infos[i])

BodyLen(infos) == IF infos = <<>> THEN 0 ELSE Last(infos).end

\* A sorted list, each at the place that the number of those before it gives it.
Sorted(infos, Before(_, _)) ==
  [i \in 1 .. Cardinality(infos) |-> CHOOSE a \in infos : Cardinality({b \in infos : Before(b, a)}) = i - 1]

SpanBefore(a, b) ==
  \/ a.start < b.start
  \/ a.start = b.start /\ a.end < b.end
  \/ a.start = b.start /\ a.end = b.end /\ a.name < b.name
ByOffsets(infos) == Sorted(infos, SpanBefore)

\* serialize: the widest dtype first, then by name.
DtypeBefore(a, b) ==
  \/ Dtypes[a.dtype].rank > Dtypes[b.dtype].rank
  \/ a.dtype = b.dtype /\ a.name < b.name
Serialized(tensors) ==
  LET order   == Sorted(Range(tensors), DtypeBefore)
      Body(n) == FlattenSeq([i \in 1 .. n |-> order[i].data])
      Info(i) == [name |-> order[i].name, dtype |-> order[i].dtype, shape |-> order[i].shape,
                  start |-> Len(Body(i - 1)), end |-> Len(Body(i))]
  IN  <<[header |-> {Info(i) : i \in DOMAIN order}]>> \o Body(Len(order))

IsHeader(cell) == DOMAIN cell = {"header"}

Deserializes(bytes) ==
  /\ bytes # <<>> /\ IsHeader(Head(bytes))
  /\ LET infos == ByOffsets(Head(bytes).header)
     IN  Contiguous(infos) /\ Len(bytes) = 1 + BodyLen(infos)

-----------------------------------------------------------------------------
(* Frames *)

Magic == [magic |-> "BHSTEN01"]

Envelope(contract, side, metadata, bytes) ==
  [envelope_version |-> 1, contract_id |-> contract.id, contract_version |-> contract.version,
   contract_hash |-> contract, side |-> side, tensor_encoding |-> "safetensors",
   metadata_encoding |-> "postcard", metadata_len |-> Len(metadata), tensor_len |-> Len(bytes)]

Encodable(contract, side, tensors) ==
  ValidPorts(contract[side], tensors) /\ \A t \in Range(tensors) : ValidView(t)

EncodeFrame(contract, side, tensors, metadata) ==
  LET bytes == Serialized(tensors)
  IN  <<Magic, Envelope(contract, side, metadata, bytes)>> \o metadata \o bytes

HasEnvelope(frame) == Len(frame) >= 2 /\ frame[1] = Magic /\ "tensor_len" \in DOMAIN frame[2]

TensorStart(frame) == 2 + frame[2].metadata_len

\* A sequence of cells, as reading them gives: lengths and offsets are unsigned,
\* and the header is an object, with one entry for a name.
IsFrame(cells) ==
  /\ cells \in Seq(Range(cells))
  /\ \A c \in Range(cells) :
       /\ "tensor_len" \in DOMAIN c => {c.metadata_len, c.tensor_len} \subseteq Nat
       /\ IsHeader(c) => /\ IsFiniteSet(c.header)
                         /\ \A a \in c.header : {a.name, a.start, a.end} \subseteq Nat
                         /\ \A a, b \in c.header : a.name = b.name => a = b

ValidEnvelope(e, contract, side) ==
  /\ e.envelope_version = 1 /\ e.tensor_encoding = "safetensors" /\ e.metadata_encoding = "postcard"
  /\ e.contract_id = contract.id /\ e.contract_version = contract.version
  /\ e.contract_hash = contract /\ e.side = side

TensorBytes(frame) == SubSeq(frame, TensorStart(frame) + 1, Len(frame))

ValidArtifact(contract, side, frame) ==
  /\ HasEnvelope(frame) /\ ValidEnvelope(frame[2], contract, side)
  /\ Len(frame) = TensorStart(frame) + frame[2].tensor_len
  /\ Deserializes(TensorBytes(frame))
  /\ ValidPorts(contract[side], ByOffsets(Head(TensorBytes(frame)).header))

\* decode_descriptor: the tensors in the order of the ports, and the metadata.
DecodeFrame(contract, side, frame) ==
  LET bytes == TensorBytes(frame)
      View(i) == [name |-> i.name, dtype |-> i.dtype, shape |-> i.shape,
                  data |-> SubSeq(bytes, 2 + i.start, 1 + i.end)]
      ports == contract[side]
  IN  [metadata |-> SubSeq(frame, 3, TensorStart(frame)),
       tensors  |-> [p \in DOMAIN ports |-> View(Named(ByOffsets(Head(bytes).header), ports[p].name))]]

-----------------------------------------------------------------------------
(* Headers of live streams *)

HasHeader(frame) ==
  HasEnvelope(frame) /\ Len(frame) > TensorStart(frame) /\ IsHeader(frame[TensorStart(frame) + 1])

TensorStreamHeader(frame) == SubSeq(frame, 1, TensorStart(frame) + 1)

\* The header lists its tensors by start offset, and alphabetically where two
\* start at one offset.
StartBefore(a, b) == a.start < b.start \/ (a.start = b.start /\ a.name < b.name)
ByStart(infos) == Sorted(infos, StartBefore)

\* Mutant of ValidStreamHeader: trusts the offsets it is given.
ValidStreamHeaderLoosely(contract, side, header) ==
  /\ HasHeader(header) /\ ValidEnvelope(header[2], contract, side)
  /\ Len(header) = TensorStart(header) + 1
  /\ LET infos == ByStart(Last(header).header)
     IN  /\ header[2].tensor_len = 1 + BodyLen(infos)
         /\ ValidPorts(contract[side], infos)

ValidStreamHeader(contract, side, header) ==
  /\ HasHeader(header) /\ ValidEnvelope(header[2], contract, side)
  /\ Len(header) = TensorStart(header) + 1
  /\ LET infos == ByStart(Last(header).header)
     IN  /\ Contiguous(infos)
         /\ header[2].tensor_len = 1 + BodyLen(infos)
         /\ ValidPorts(contract[side], infos)

DeclaredLen(header) == TensorStart(header) + header[2].tensor_len

-----------------------------------------------------------------------------
(* The Qwen dark-token bundle *)

DarkLogProbs == 1
DarkTokenIds == 2
Predictions  == 3

QwenPorts ==
  <<PortDescriptor(Predictions, <<0, 0>>, {"U32"}), PortDescriptor(DarkTokenIds, <<0, 0, 0>>, {"U32"}),
    PortDescriptor(DarkLogProbs, <<0, 0, 0>>, {"F32"})>>
QwenDarkInference == ContractDescriptor("qwen", 1, QwenPorts, QwenPorts)

\* encode_qwen_request: the request is metadata, the bundle is empty.
QwenRequest(request) ==
  EncodeFrame(QwenDarkInference, "input",
    <<RawTensor(Predictions, "U32", <<0, 0>>, <<>>), RawTensor(DarkTokenIds, "U32", <<0, 0, 0>>, <<>>),
      RawTensor(DarkLogProbs, "F32", <<0, 0, 0>>, <<>>)>>, <<request>>)

\* Results are sequences of dark tokens [predicted, dark], dark a sequence of
\* entries <<token_id, log_prob>>.
AreResults(results) ==
  /\ results \in Seq(Range(results))
  /\ \A s \in Range(results) :
       /\ s \in Seq(Range(s))
       /\ \A t \in Range(s) :
            /\ t = [predicted |-> t.predicted, dark |-> t.dark] /\ t.dark \in Seq(Range(t.dark))
            /\ \A entry \in Range(t.dark) : entry = <<entry[1], entry[2]>>

\* A dense bundle needs them all of one size.
FirstLen(s)     == IF s = <<>> THEN 0 ELSE Len(s[1])
TopK(results)   == IF results = <<>> \/ results[1] = <<>> THEN 0 ELSE Len(results[1][1].dark)
Ragged(results) ==
  \E s \in Range(results) : Len(s) # FirstLen(results) \/ \E t \in Range(s) : Len(t.dark) # TopK(results)

\* Mutant of DenseBundle: sequence and batch change places.
DenseBundleTransposed(results) ==
  LET tokens  == FlattenSeq(results)
      entries == FlattenSeq([i \in DOMAIN tokens |-> tokens[i].dark])
      shape   == <<FirstLen(results), Len(results)>>
      wide    == <<FirstLen(results), Len(results), TopK(results)>>
  IN  <<RawTensor(Predictions, "U32", shape, [i \in DOMAIN tokens |-> tokens[i].predicted]),
        RawTensor(DarkTokenIds, "U32", wide, [i \in DOMAIN entries |-> entries[i][1]]),
        RawTensor(DarkLogProbs, "F32", wide, [i \in DOMAIN entries |-> entries[i][2]])>>

DenseBundle(results) ==
  LET tokens  == FlattenSeq(results)
      entries == FlattenSeq([i \in DOMAIN tokens |-> tokens[i].dark])
      shape   == <<Len(results), FirstLen(results)>>
      wide    == <<Len(results), FirstLen(results), TopK(results)>>
  IN  <<RawTensor(Predictions, "U32", shape, [i \in DOMAIN tokens |-> tokens[i].predicted]),
        RawTensor(DarkTokenIds, "U32", wide, [i \in DOMAIN entries |-> entries[i][1]]),
        RawTensor(DarkLogProbs, "F32", wide, [i \in DOMAIN entries |-> entries[i][2]])>>

\* What a Qwen forward answers: QwenInferenceMetadata::Dark without a limit.
QwenBundle(results) == [tensors |-> DenseBundle(results), metadata |-> <<[limit |-> "none"]>>]

\* decode_qwen_output, and the dark input of handle_qwen_operation_forward: the
\* sizes are those of the predictions, and the last one of the token ids.
DenseResults(tensors) ==
  LET batch == tensors[1].shape[1]
      sequence == tensors[1].shape[2]
      top_k == tensors[2].shape[3]
      Token(b, s) ==
        LET position == (b - 1) * sequence + s
            start == (position - 1) * top_k
        IN  [predicted |-> Values(tensors[1])[position],
             dark |-> [k \in 1 .. top_k |-> <<Values(tensors[2])[start + k], Values(tensors[3])[start + k]>>]]
  IN  [b \in 1 .. batch |-> [s \in 1 .. sequence |-> Token(b, s)]]
=============================================================================
