----------------------------- MODULE MCVerify -------------------------------
EXTENDS VerifyImage

Image(bytes) == [p \in 0..(Len(bytes) - 1) |-> bytes[p + 1]]

Config(at, room, end) == [at |-> at, room |-> room, pad |-> 35, end |-> end]

\* Two descriptors, the Ignition area, two configs, the second of which has a
\* terminator of its own, and a tail like what stands a chunk before it.
Usual ==
  [bytes |-> Image(<<50, 51, 0, 0, 0, 52, 52, 7, 10, 35, 35, 35, 53, 53, 7, 3, 35, 35, 35, 35>>),
   ign   |-> [at |-> 2, len |-> 3],
   kargs |-> [size |-> 5, default |-> <<7>>,
              files |-> <<Config(7, 5, 10), Config(14, 6, 3)>>]]

\* The areas closer together than what is merged.
Adjacent ==
  [bytes |-> Image(<<50, 0, 0, 7, 10, 35, 35, 56>>),
   ign   |-> [at |-> 1, len |-> 2],
   kargs |-> [size |-> 4, default |-> <<7>>, files |-> <<Config(3, 4, 10)>>]]

\* The same, with more of them, but no room for the third one; not a whole number
\* of sectors.
Crowded ==
  [bytes |-> Image(<<50, 0, 0, 7, 10, 35, 35, 7, 3, 35, 35, 7, 10, 56, 56>>),
   ign   |-> [at |-> 1, len |-> 2],
   kargs |-> [size |-> 4, default |-> <<7>>,
              files |-> <<Config(3, 4, 10), Config(7, 4, 3), Config(11, 2, 10)>>]]

\* Configs that differ, a blank at the end of the first one's arguments.
Uneven ==
  [bytes |-> Image(<<50, 0, 0, 0, 54, 54, 7, 32, 10, 35, 55, 55, 7, 6, 10, 35>>),
   ign   |-> [at |-> 1, len |-> 3],
   kargs |-> [size |-> 4, default |-> <<7>>,
              files |-> <<Config(6, 4, 10), Config(12, 4, 10)>>]]

\* The first config has a terminator of its own, and a newline behind it.
Foreign ==
  [bytes |-> Image(<<50, 0, 0, 0, 54, 54, 7, 3, 10, 35, 35, 55, 55, 7, 6, 10, 35, 35, 50, 50>>),
   ign   |-> [at |-> 1, len |-> 3],
   kargs |-> [size |-> 5, default |-> <<7>>,
              files |-> <<Config(6, 5, 3), Config(13, 5, 10)>>]]

\* Baked before: a trailer, and a launcher that reads its payload.
Earlier ==
  [bytes |-> Image(<<50, 31, 4, 51, 7, 10, 35, 35, 52, 52, 0, 0, 81, 1, 1, 5, 5, 0, 0, 0>>),
   ign   |-> [at |-> 1, len |-> 2],
   kargs |-> [size |-> 4, default |-> <<7>>, files |-> <<Config(4, 4, 10)>>]]

\* No config to write to, and an Ignition area that is too small.
Bare ==
  [bytes |-> Image(<<50, 51, 0, 0>>),
   ign   |-> [at |-> 2, len |-> 2],
   kargs |-> [size |-> 4, default |-> <<7>>, files |-> <<>>]]

Tight ==
  [bytes |-> Image(<<50, 0>>),
   ign   |-> [at |-> 1, len |-> 1],
   kargs |-> [size |-> 4, default |-> <<7>>, files |-> <<>>]]

MCOriginals == {Usual, Adjacent, Crowded, Uneven, Foreign, Earlier, Bare, Tight}

\* One sector, two, more than the walk back, and one that holds a header.
MCPayloads == {<<4, 5>>, <<4, 5, 6, 4, 5>>, <<4, 5, 6, 4, 5, 6, 4, 5, 6>>, <<4, 5, 6, 4, 81, 1>>}

\* The last two have a newline in them and a blank at their end.
MCExtras == {<<>>, <<5>>, <<5, 32, 6>>, <<10>>, <<5, 32>>}
=============================================================================
