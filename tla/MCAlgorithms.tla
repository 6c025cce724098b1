---------------------------- MODULE MCAlgorithms ----------------------------
(* Inputs of the algorithms: every case of a small instance of each. *)
EXTENDS Algorithms, SequencesExt, TLC

Texts(n, S) == UNION {[1..k -> S] : k \in 0..n}

\* Conversions: flags, width, precision, letters.  A width or a precision is
\* what is written, the number it is, and the argument it takes.
Asked(s, n, args) == [s |-> s, n |-> n, args |-> args]

NoWidth == Asked(<<>>, 0, <<>>)
Three == Asked(<<"3">>, 3, <<>>)
Twelve == Asked(<<"1", "2">>, 12, <<>>)
NoPrecision == Asked(<<>>, -1, <<>>)
Precise(s, n) == Asked(<<".", s>>, n, <<>>)

\* A format without a letter ends there.
Directive(flags, width, precision, letters) ==
  <<"|", "%">> \o flags \o width.s \o precision.s \o letters
    \o (IF letters = <<>> THEN <<>> ELSE <<".">>)

\* The letter that says what is converted; that of a long number is one of its own.
Conv(letters) == CASE letters = <<>> -> "" [] Len(letters) = 2 -> "l" [] OTHER -> letters[1]

\* ints, of which Word has as many.
Ints == {-2048, -123, -10, -1, 0, 1, 9, 10, 42, 255, 2047}

\* The buffers are shorter and longer than the text; a negative number behind a
\* zero flag has its sign among the zeros.
FormatInputs ==
  LET of(flags, width, precision, letters, value) ==
        {[text |-> Directive(flags, width, precision, letters), conv |-> Conv(letters), size |-> size,
          precision |-> precision.n, args |-> width.args \o precision.args \o <<value>>] :
            size \in {1, 2, 4, 7, 20}}
      flags == {<<>>, <<"-">>, <<"0">>, <<"-", "0">>}
      widths == {NoWidth, Three, Asked(<<"*">>, 4, <<4>>)}
      precisions == {NoPrecision, Precise("2", 2), Precise("0", 0), Precise("5", 5), Precise("6", 6),
                     Asked(<<".", "*">>, 6, <<6>>)}
  IN [numbers |->
        UNION {of(f, w, p, <<"d">>, n) : f \in flags, w \in widths, p \in precisions, n \in Ints}
        \cup UNION {of(f, w, p, <<c>>, n) : f \in flags, w \in widths, p \in precisions,
                                            c \in {"x", "X"}, n \in {-1, 0, 10, 255}},
      texts |->
        UNION {of(f, w, p, <<"s">>, s) : f \in {<<>>, <<"-">>}, w \in widths, p \in precisions,
                                       s \in {<<>>, <<"a", "b", "c", "d">>, T!NULL}},
      others |->
        UNION {of(f, w, NoPrecision, <<"c">>, "y") : f \in {<<>>, <<"-">>}, w \in widths}
        \cup UNION {of(f, Three, NoPrecision, c, "y") : f \in {<<>>, <<"-">>}, c \in {<<"%">>, <<"q">>, <<>>}}]

PrintInputs ==
  LET of(flags, width, precision, letters, value) ==
        [text |-> Directive(flags, width, precision, letters), conv |-> Conv(letters), args |-> <<value>>,
         zero |-> flags = <<"0">>, left |-> flags # <<>> /\ flags[Len(flags)] = "-", width |-> width.n, precision |-> precision.n]
      flags == {<<>>, <<"-">>, <<"0">>, <<"0", "-">>}
      widths == {NoWidth, Asked(<<"1">>, 1, <<>>), Three, Twelve}
      precisions == {NoPrecision, Precise("0", 0), Precise("2", 2), Precise("5", 5)}
  IN [numbers |->
        {of(f, w, p, <<c>>, n) : f \in flags, w \in widths, p \in precisions,
                                 c \in {"d", "x", "X", "i", "u", "o", "p"}, n \in Ints \ {-2048}}
        \cup {of(f, w, NoPrecision, <<"l", "d">>, n) : f \in flags, w \in widths, n \in Ints},
      texts |->
        {of(f, w, p, <<"s">>, s) : f \in {<<>>, <<"-">>}, w \in widths, p \in precisions,
                                   s \in {<<>>, <<"a", "b", "c", "d">>, T!NULL}},
      others |-> {of(f, w, NoPrecision, c, "y") : f \in {<<>>, <<"-">>}, w \in widths,
                                                  c \in {<<"c">>, <<"%">>, <<"q">>, <<>>}}]

CompareInputs ==
  {[s |-> s, t |-> t, n |-> n] : s \in Texts(2, {65, 97, 66}), t \in Texts(2, {65, 97, 66}),
                                 n \in 0..3}

\* Volumes whose tables have an entry for every cluster.
Volume(total, fats, size, root, per, narrow) ==
  [TotalSectorsInVolume |-> IF narrow THEN total ELSE 0, ExtendedSectorCount |-> total,
   SectorsPerFAT |-> IF narrow THEN size ELSE 0, SectorsPerFAT32 |-> size,
   RootDirectoryEntries |-> IF narrow THEN root ELSE 0, BytesPerSector |-> 16,
   ReservedSectors |-> 1, FATCount |-> fats, SectorsPerCluster |-> per,
   Signature |-> narrow, Signature32 |-> ~narrow]

Volumes ==
  {bt \in {Volume(total, fats, size, root, per, narrow) :
             total \in {12, 17, 24, 40}, fats \in {1, 2}, size \in 1..4, root \in {1, 2, 3},
             per \in {1, 2}, narrow \in BOOLEAN} :
     /\ FatDataCount(bt) > 0
     /\ (FatClusterCount(bt) + 2) * Width(bt) <= 2 * FatSize(bt) * bt.BytesPerSector}

Disk(k) == [b \in 0..700 |-> (37 * b + k) % 256]

EntryInputs ==
  UNION {{[disk |-> Disk(k), bt |-> bt, cluster |-> c] : c \in 0..FatClusterCount(bt) + 1} :
           k \in {0, 5}, bt \in {v \in Volumes : v.FATCount = 1 /\ v.RootDirectoryEntries < 2}}

\* Names in small and capital letters, that fit and that do not.
Names ==
  {b \o e : b \in (Texts(2, {97, 98}) \ {<<>>})
                   \cup {<<65>>, <<97, 66>>, <<97, 98, 97>>, <<97, 98, 97, 98>>, <<97, 98, 97, 98, 97>>},
            e \in {<<>>, <<46>>, <<46, 97>>, <<46, 66>>, <<46, 97, 98>>, <<46, 97, 98, 97>>, <<46, 97, 46>>}}

\* An entry is found by the 8.3 form of the name it was made with.
E(parent, name, dir, id, size) ==
  [parent |-> parent, name |-> FatConvert83(name), dir |-> dir, id |-> id, size |-> size]

LetterA == <<97>>
LetterB == <<98>>
LetterC == <<99>>
Long == <<97, 98, 97, 98, 46, 99>>     \* "abab.c", which spills

Trees ==
  { {}, {E(0, LetterA, FALSE, 10, 3)},
    {E(0, LetterA, TRUE, 1, 0), E(1, LetterB, FALSE, 11, 5), E(0, LetterB, FALSE, 12, 7)},
    {E(0, LetterA, TRUE, 1, 0), E(1, LetterA, TRUE, 2, 0), E(2, LetterA, FALSE, 13, 9), E(1, LetterB, FALSE, 14, 2)},
    {E(0, LetterA, TRUE, 1, 0), E(0, LetterB, TRUE, 2, 0), E(1, LetterC, FALSE, 15, 4), E(2, LetterC, FALSE, 16, 6)},
    {E(0, <<65>>, TRUE, 1, 0), E(1, <<98, 46, 65>>, FALSE, 17, 8), E(1, Long, FALSE, 18, 1)} }

\* Some go on behind a file, some end in a directory.
PathInputs ==
  {[tree |-> tree, path |-> path] :
     tree \in Trees, path \in Texts(3, {LetterA, LetterB, LetterC, <<66>>, <<98, 46, 97>>, Long}) \ {<<>>}}

Desc(iden, type, version, root) ==
  [iden |-> iden, type |-> type, version |-> version, root |-> root, table |-> 18]

\* "none" is a sector that cannot be read.
DescriptorInputs ==
  LET kinds == {Desc(TRUE, 0, 1, 0), Desc(TRUE, 1, 1, 20), Desc(TRUE, 1, 1, 30),
                Desc(TRUE, 1, 2, 20), Desc(TRUE, 255, 1, 0), Desc(FALSE, 1, 1, 0)}
  IN UNION {[lbas -> kinds] : lbas \in SUBSET (16..18)}

File(name, lba, size) == [name |-> name, lba |-> lba, size |-> size, dir |-> FALSE]
Dir(name, lba) == [name |-> name, lba |-> lba, size |-> 2, dir |-> TRUE]
Records(rs) == [records |-> <<Dir(<<0>>, 20), Dir(<<1>>, 20)>> \o rs]
Data(a, b) == [data |-> <<a, b>>]
PathRecord(name, parent, lba) == [name |-> name, parent |-> parent, lba |-> lba]

\* Two directories, one in the other, a file in each; on one disc the inner
\* directory and the next have names that put the table out of count.
SmallDisc ==
  (18 :> [records |-> <<PathRecord(<<0>>, 1, 20), PathRecord(<<65>>, 1, 21), PathRecord(<<66>>, 2, 22)>>])
  @@ (20 :> Records(<<Dir(<<65>>, 21), File(<<70, 59, 49>>, 30, 3)>>))
  @@ (21 :> Records(<<Dir(<<66>>, 22), File(<<70, 59, 49>>, 32, 2), File(<<71, 32>>, 33, 1)>>))
  @@ (22 :> Records(<<File(<<70>>, 33, 1)>>))
  @@ (30 :> Data(1, 2)) @@ (31 :> Data(3, 4)) @@ (32 :> Data(5, 6)) @@ (33 :> Data(7, 8))

WideDisc ==
  (18 :> [records |-> <<PathRecord(<<0>>, 1, 20), PathRecord(<<65, 65, 65, 65, 65, 65, 65>>, 1, 21), PathRecord(<<66>>, 2, 22)>>])
  @@ (20 :> Records(<<Dir(<<65, 65, 65, 65, 65, 65, 65>>, 21)>>)) @@ SmallDisc

DiscInputs ==
  {[disc |-> disc, primary |-> [root |-> 20, table |-> 18], path |-> path] :
     disc \in {SmallDisc, WideDisc, [lba \in DOMAIN SmallDisc \ {18} |-> SmallDisc[lba]]},
     path \in {p \in Texts(5, {47, 65, 97, 66, 70}) : p # <<>> /\ p[1] # 47 /\ p[Len(p)] # 47
                  /\ \A k \in 1..Len(p) - 1 : (k % 2 = 1) => p[k + 1] = 47}}

Glyphs(bpp, width, n) ==
  [bpp |-> bpp, char_width |-> width, char_height |-> 2, first_char |-> 32, last_char |-> 33,
   bitmap |-> [b \in 0..15 |-> (n * b + 27) % 256]]

Colour(v, opaque) == [r |-> v, g |-> 10, b |-> 255 - v, opaque |-> opaque]

DrawInputs ==
  {[dim |-> <<w, h, scale>>, font |-> font, text |-> text, px |-> px, py |-> py,
    bg |-> Colour(0, o[1]), fg |-> Colour(200, o[2])] :
     w \in {0, 3, 5}, h \in {1, 4}, scale \in {1, 2},
     font \in {Glyphs(1, 3, 89), Glyphs(2, 5, 89), Glyphs(4, 2, 113)},
     text \in {<<33>>, <<33, 99>>}, px \in {0, 2, 4, Word - 1}, py \in {0, 1, 5},
     o \in BOOLEAN \X BOOLEAN}

AlignInputs ==
  {[dim |-> <<w, 9, 1>>, font |-> Glyphs(1, 3, 1), text |-> text, margin |-> margin, how |-> how] :
     w \in {5, 6, 9, 12}, text \in {<<>>, <<33>>, <<33, 33>>, <<33, 33, 33>>}, margin \in 0..3,
     how \in {"CENTER", "RIGHT_BOTTOM", "LEFT_TOP"}}

Function(class, multi) == [class |-> class, subclass |-> 1, multi |-> multi]

PciInputs ==
  UNION {[there -> {Function(c, m) : c \in {1, 3}, m \in BOOLEAN}] :
           there \in SUBSET ({0} \X {0, 1} \X {0, 1})}

Port == [present |-> FALSE, mode |-> "SPP", irq |-> FALSE, control |-> 0, sent |-> <<>>]

Drive == {"none", "disk", "empty", "attention", "ready"}

AllInputs ==
  [format |-> FormatInputs, print |-> PrintInputs, number |-> Ints, clock |-> 0..59,
   tokens |-> Texts(5, {47, 65, 66}), compare |-> CompareInputs,
   entry |-> EntryInputs, layout |-> Volumes,
   slot |-> {0, 2, 15, 16, 17, 255} \X {0, 1, 3} \X {0, 1, 3}, name |-> Names \X Names, path |-> PathInputs,
   descriptors |-> DescriptorInputs, disc |-> DiscInputs,
   drives |-> [{"primary", "secondary"} -> [master: Drive, slave: Drive]],
   draw |-> DrawInputs, align |-> AlignInputs, pci |-> PciInputs,
   printer |-> {[ports |-> [p \in {"LPT1", "LPT2"} |-> Port], hw |-> hw, greeting |-> g, irq |-> irq] :
                  hw \in [{"LPT1", "LPT2"} -> {"none", "spp", "epp", "ecp", "both"}],
                  g \in {<<>>, <<68, 69>>}, irq \in BOOLEAN},
   segment |-> {[base |-> base, limit |-> 1048575, access |-> 154, gran |-> 207] :
                  base \in {0, 1, 65535, 65536, 305419896, 2147483647}},
   lines |-> 0..15]
=============================================================================
