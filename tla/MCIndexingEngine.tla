-------------------------- MODULE MCIndexingEngine --------------------------
(* IndexingEngine over small archives of each format, cut anywhere.        *)
EXTENDS IndexingEngine

MCHeaderSizes == [newc |-> 4, odc |-> 3]

(* Tar *)
Sets(path, link, size) == [path |-> path, linkpath |-> link, size |-> size]

TarMember(type, size, stored, sets) ==
  [type |-> type, size |-> size, path |-> "short", link |-> None, sets |-> sets,
   stored |-> stored]

File(n)   == TarMember("Regular", n, n, NoSettings)
Dir       == [File(0) EXCEPT !.type = "Directory", !.path = "dir"]
Link      == [File(0) EXCEPT !.type = "HardLink", !.path = "link", !.link = Some("to")]
Long(t)   == TarMember(t, 2, 2, Sets(Some("long"), None, None))
Pax(sets) == TarMember("PaxExtended", 3, 3, sets)

Tars == <<
  <<File(4), Dir, File(1)>>,
  <<Pax(Sets(Some("pax"), None, Some(2))), TarMember("Regular", 0, 2, NoSettings)>>,
  <<Pax(Sets(Some("pax"), Some("paxto"), None)), Long("GnuLongName"), Long("GnuLongLink"),
    Link, Link>>,
  <<TarMember("PaxGlobal", 4, 4, Sets(Some("all"), None, None)), Pax(Sets(None, None, None)),
    TarMember("Zeros", 0, 0, NoSettings), File(2)>>,
  <<Dir, TarMember("GnuLongName", 9, 9, NoSettings)>> >>

(* Cpio *)
CpioMember(sub, type, path, namesize, size, inode, nlink) ==
  [sub |-> sub, type |-> type, path |-> path, namesize |-> namesize, size |-> size,
   link |-> IF type = "SymLink" THEN Some("target") ELSE None,
   inode |-> inode, nlink |-> nlink]

Trailer(sub) == CpioMember(sub, "Trailer", "TRAILER!!!", 2, 0, 1, 1)
Hard(sub, path, size, inode) == CpioMember(sub, "Regular", path, 1, size, inode, 2)

CpiosOf(sub) == <<
  <<CpioMember(sub, "Regular", "a", 2, 3, 1, 1), CpioMember(sub, "SymLink", "b", 1, 1, 2, 1),
    CpioMember(sub, "SymLink", "c", 1, 2, 2, 1), Trailer(sub)>>,
  <<Hard(sub, "a", 0, 2), Hard(sub, "b", 0, 2), Hard(sub, "c", 1, 2), Hard(sub, "d", 0, 2),
    Trailer(sub)>>,
  <<CpioMember(sub, "SymLink", "b", 1, 4, 2, 1), Trailer(sub)>> >>

Cpios == CpiosOf("newc") \o CpiosOf("odc")

\* Hard links to empty files: no member carries data.
EmptyLinks(sub) ==
  <<Hard(sub, "a", 0, 2), Hard(sub, "b", 0, 1), Hard(sub, "c", 0, 2), Trailer(sub)>>

(* Ar *)
ArMember(naming, path, namelen, size) ==
  [naming |-> naming, path |-> path, namelen |-> namelen, size |-> size]

Ars == <<
  <<ArMember("short", "a", 0, 1), ArMember("short", "b", 0, 2), ArMember("short", "c", 0, 0)>>,
  <<ArMember("special", "/", 0, 3), ArMember("table", "//", 0, 3), ArMember("long", "d", 0, 1)>>,
  <<ArMember("bsd", "__.SYMDEF", 2, 3), ArMember("bsd", "e", 1, 3), ArMember("bsd", "f", 2, 2)>>,
  <<ArMember("short", "a", 0, 1), ArMember("long", "g", 0, 0)>> >>

(* Archives and where their streams stop *)
Of(format, all, padding) ==
  [i \in 1..Len(all) |-> [format |-> format, members |-> all[i], padding |-> padding]]

MCArchives ==
  Of("Tar", Tars, 1) \o Of("Cpio", Cpios, 1) \o Of("Ar", Ars, 0)
    \o Of("Cpio", <<EmptyLinks("newc"), EmptyLinks("odc")>>, 1)

\* Each archive cut at every byte, by its own end or by its compressed stream.
Cuts == UNION {[of : {i}, end : 0..Len(Contents[i]), cut : BOOLEAN] : i \in DOMAIN Archives}

\* The links that wait at the trailer are lost when the stream ends with its name:
\* such a source is left to the run that shows it.
LostLinks ==
  {s \in Cuts : Archives[s.of].members \in {EmptyLinks("newc"), EmptyLinks("odc")}
                  /\ s.end = LengthOf[s.of]}

CutSources == Cuts \ LostLinks

\* Zero-size extended headers and name tables.
EmptyMetadata ==
  Of("Tar", << <<TarMember("GnuLongName", 0, 0, NoSettings), File(1)>> >>, 0)
    \o Of("Ar", << <<ArMember("table", "//", 0, 0), ArMember("short", "a", 0, 1)>> >>, 0)
=============================================================================
