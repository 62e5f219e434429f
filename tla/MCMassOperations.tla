-------------------------- MODULE MCMassOperations --------------------------
(* One toy contract beside Qwen's, and the references clients may hand in. *)
EXTENDS MassOperations

MCPorts == <<PortDescriptor(2, <<0>>, {"F32"}), PortDescriptor(1, <<0>>, {"U8"})>>
MCToy   == ContractDescriptor("toy", 1, MCPorts, MCPorts)
MCOffered == Capability(MCToy, {"forward", "perturb", "optimize"}, None)
MCWanted  == {MCOffered, QwenCapability}

\* F32 values, then U8 values.
MCBundle(floats, bytes) ==
  <<RawTensor(2, "F32", <<Len(floats)>>, floats), RawTensor(1, "U8", <<Len(bytes)>>, bytes)>>
MCInput(floats, bytes) == EncodeFrame(MCToy, "input", MCBundle(floats, bytes), <<[meta |-> 1]>>)

MCFrame == MCInput(<<7>>, <<1>>)
MCTie   == MCInput(<<>>, <<1>>)

\* A frame whose second tensor starts before the first ends.
MCOverlap ==
  LET k == TensorStart(MCFrame) + 1
      Moved(i) == IF i.start = 0 THEN i ELSE [i EXCEPT !.start = @ - 1]
  IN  [MCFrame EXCEPT ![k] = [header |-> {Moved(i) : i \in MCFrame[k].header}]]

MCTicket(contract, frame) ==
  [contract |-> contract, envelope |-> frame[2], header |-> TensorStreamHeader(frame),
   len |-> Len(frame), hash |-> frame]
MCBegin(t, chunks) ==
  [envelope |-> t.envelope, header |-> t.header, len |-> t.len, hash |-> t.hash, chunks |-> chunks]
MCLive(t, live, durable, policy) ==
  [ticket |-> t, begin |-> MCBegin(t, (Len(live) + ChunkLen - 1) \div ChunkLen),
   live |-> live, durable |-> durable, policy |-> policy]

MCHonest == MCLive(MCTicket(MCToy, MCFrame), MCFrame, MCFrame, "durable")
MCOther  == [MCFrame EXCEPT ![3] = [meta |-> 2]]
MCQwen   == QwenRequest([request |-> 1])

MCInputs ==
  {[stored |-> MCFrame], [stored |-> SubSeq(MCFrame, 1, Len(MCFrame) - 1)], [stored |-> MCQwen],
   MCHonest,
   [MCHonest EXCEPT !.durable = None, !.policy = "ephemeral"],
   [MCHonest EXCEPT !.begin.chunks = @ + 1, !.policy = "ephemeral"],
   \* bytes the ticket's header does not announce, with the hash of these bytes
   MCLive([MCTicket(MCToy, MCFrame) EXCEPT !.hash = MCOther], MCOther, None, "durable"),
   \* bytes the ticket's hash is not of
   MCLive(MCTicket(MCToy, MCFrame), [MCFrame EXCEPT ![Len(MCFrame)] = [value |-> 9, byte |-> 0]], None, "durable"),
   MCLive(MCTicket(MCToy, MCTie), MCTie, MCTie, "durable"),
   MCLive(MCTicket(MCToy, MCOverlap), MCOverlap, None, "durable")}

MCBundles ==
  {[tensors |-> MCBundle(<<5>>, <<1, 2>>), metadata |-> <<[meta |-> 1], [meta |-> 2]>>],
   [tensors |-> MCBundle(<<>>, <<1>>), metadata |-> <<>>],
   [tensors |-> <<RawTensor(1, "U8", <<1>>, <<1>>)>>, metadata |-> <<>>]}

MCToken(t, k) == [predicted |-> t, dark |-> [j \in 1 .. k |-> <<10 * t + j, -j>>]]
MCResults ==
  {<<<<MCToken(1, 2), MCToken(2, 2)>>>>, <<<<MCToken(1, 1)>>, <<MCToken(2, 1)>>, <<MCToken(3, 1)>>>>,
   <<<<MCToken(1, 1)>>, <<>>>>, <<>>}

MCSymmetry == Permutations(Ids) \cup Permutations(Requests)
=============================================================================
