----------------------------- MODULE MCMemoryBus -----------------------------
(* The configurations that MemoryBus is checked with. *)
EXTENDS MemoryBus

Plain == <<"map", "addr", "size">>
WithFile == <<"map", "type", "addr", "size", "file", "boot">>

MemoryConfs == {
  \* RAM and a boot ROM, as in sys.conf.
  << Line(Plain, "ram", 0, 4, <<>>),
     Line(WithFile, "ram", 8, 4, <<0, 1, 1, 0>>) >>,
  \* A file with bytes above 127 and shorter than its bank, loaded into RAM; the
  \* line behind it has type= in front of map=.
  << Line(<<"map", "addr", "size", "file">>, "ram", 4, 4, <<1, 255>>),
     Line(<<"type", "map", "addr", "size", "file">>, "ram", 8, 4, <<1>>) >>,
  \* A line without size ends the table, and the bank behind it is not there.
  << Line(Plain, "ram", 4, 4, <<>>),
     Line(<<"map", "addr">>, "ram", 0, 0, <<>>),
     Line(Plain, "ram", 8, 4, <<>>) >>,
  \* A line without map=; a file that is missing; and one for a bank without size.
  << Line(<<"addr", "size">>, "ram", 4, 4, <<>>), Line(Plain, "ram", 8, 4, <<>>) >>,
  << Line(WithFile, "ram", 8, 4, <<>>) >>,
  << Line(<<"map", "addr", "file">>, "ram", 8, 0, <<1>>) >> }

\* The flash, at the bottom of the address space, and a ROM a buffer's length
\* behind it.
FlashConf == << Line(Plain, "flash", 0, 4 * SECTOR * SECTORS, <<>>),
                Line(WithFile, "ram", 4 * (SECTOR * SECTORS + BUFFER), 4, <<1, 0, 1>>) >>

\* Flashes that are not whole sectors.
PartConfs == {
  \* The last word of a sector, and a ROM that ends where the sector starts.
  << Line(WithFile, "ram", 4, 4, <<1, 0, 1>>), Line(Plain, "flash", 12, 4, <<>>) >>,
  \* A ROM in the sector of the flash.
  << Line(Plain, "flash", 0, 4, <<>>), Line(WithFile, "ram", 4, 4, <<1, 0, 1>>) >>,
  \* Devices in the last sector of the flash.
  << Line(Plain, "flash", 0, 12, <<>>), Line(Plain, "io", 12, 4, <<>>) >> }

MCConfs == (MemoryConfs \X BOOLEAN) \cup (({FlashConf} \cup PartConfs) \X {FALSE})
=============================================================================
