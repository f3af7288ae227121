----------------------------- MODULE RouterAdvert ------------------------------
(***************************************************************************)
(* The router advertisements that netman waits for (radvd.rs): a fixed     *)
(* part, and options that are a type, a length in units of eight bytes and *)
(* the rest of those bytes. Every reading error is the same Error.         *)
(***************************************************************************)
EXTENDS BigEndian, SequencesExt

OptionType == [source |-> 1, target |-> 2, prefix |-> 3, redirect |-> 4, mtu |-> 5]

DnsSearchListType == 31

Error == [is |-> "error"]

\* get_type_len and iter_skip: the options, in the pass that counts them. A
\* length of zero makes the subtraction overflow.
RECURSIVE SplitOptions(_)
SplitOptions(data) ==
  LET end == 8 * data[2]
      others == SplitOptions(SubSeq(data, end + 1, Len(data)))
  IN  IF data = <<>> THEN [is |-> "ok", options |-> <<>>]
      ELSE IF Len(data) < 2 THEN Error
      ELSE IF data[2] = 0 THEN [is |-> "panic"]
      ELSE IF Len(data) < end THEN Error
      ELSE IF others.is # "ok" THEN others
      ELSE [is |-> "ok",
            options |-> <<[type |-> data[1], data |-> SubSeq(data, 3, end)]>> \o others.options]

Option(kind, value) == [is |-> "ok", kind |-> kind, value |-> value]

LinkLayerAddress(d) == SubSeq(d, 1, 6)

Mtu(d) == IF ReadUint(d, 1, 2) # 0 THEN Error ELSE Option("mtu", ReadUint(d, 3, 4))

PrefixInformation(d) ==
  IF Len(d) < 30 THEN Error
  ELSE Option("prefix", [prefix_length |-> d[1], flags1 |-> d[2],
                         valid_lifetime |-> ReadUint(d, 3, 4),
                         preferred_lifetime |-> ReadUint(d, 7, 4),
                         prefix |-> SubSeq(d, 15, 30)])

\* The arms of the match on the type. A target address comes out as a source
\* address (line 100); an option may be longer than what is read of it.
DecodeOption(opt) ==
  LET d == opt.data
  IN  CASE opt.type = OptionType.source -> Option("source", LinkLayerAddress(d))
        [] opt.type = OptionType.target -> Option("source", LinkLayerAddress(d))
        [] opt.type = OptionType.prefix -> PrefixInformation(d)
        [] opt.type = OptionType.redirect -> [is |-> "panic"]
        [] opt.type = OptionType.mtu -> Mtu(d)
        [] opt.type = DnsSearchListType -> Option("dns_search_list", d)
        [] OTHER -> Option("unknown", opt)

FixedLength == 16

\* RouterAdvertisement::read_byte_iter
DecodeAdvert(data) ==
  LET split == SplitOptions(SubSeq(data, FixedLength + 1, Len(data)))
      options == [i \in DOMAIN split.options |-> DecodeOption(split.options[i])]
      bad == SelectInSeq(options, LAMBDA o : o.is # "ok")
  IN  IF Len(data) < FixedLength THEN Error
      ELSE IF split.is # "ok" THEN split
      ELSE IF bad # 0 THEN options[bad]
      ELSE [is |-> "ok",
            advert |-> [type |-> data[1], flags1 |-> data[6],
                        router_lifetime |-> ReadUint(data, 7, 2),
                        options |-> [i \in DOMAIN options |->
                                       <<options[i].kind, options[i].value>>]]]

===============================================================================
