--------------------------------- MODULE Pkg ---------------------------------
(***************************************************************************)
(* The package manager, pkg.c: the files of a package are copied out one    *)
(* after another, and then a line is appended to the database of installed  *)
(* packages.  Every call of the file system can fail or come short, and the *)
(* power can go between any two steps.  The calls for writing are those     *)
(* that pkg.c makes; fs.c does not have them yet.  Messages are left out.   *)
(*                                                                         *)
(* Definitions named Bad... are seeded faults, as in Tty.                   *)
(***************************************************************************)
EXTENDS Integers, Sequences, Ascending

CONSTANTS
  Packages,        \* records: name, version, files, each a [filename, file_size]
  SECTOR_SIZE,     \* how much is copied at a time
  DB_WINDOW,       \* how much of the database is read, 255 in the code
  BLANK_CHAR, CR_CHAR, LF_CHAR

Files == UNION {{p.files[i].filename : i \in DOMAIN p.files} : p \in Packages}

ASSUME PkgAssumption ==
  /\ SECTOR_SIZE \in Nat \ {0} /\ DB_WINDOW \in Nat
  /\ \A p \in Packages : \A i \in DOMAIN p.files : p.files[i].file_size \in Nat

Characters == UNION {{s[k] : k \in DOMAIN s} : s \in UNION {{p.name, p.version} : p \in Packages}}

(* What pkg.c takes for granted of a package: its name holds no character   *)
(* that ends a name in the database and belongs to it alone, its version    *)
(* none that ends a line, and it has no file twice.                        *)
ASSUME PackagesAssumption ==
  /\ BLANK_CHAR \notin {CR_CHAR, LF_CHAR}
  /\ \A p \in Packages :
       /\ p.name \in Seq(Characters \ {BLANK_CHAR, CR_CHAR, LF_CHAR}) /\ p.name # << >>
       /\ p.version \in Seq(Characters \ {CR_CHAR, LF_CHAR})
       /\ p.files \in Seq([filename : Files, file_size : Nat])
       /\ \A f, g \in DOMAIN p.files : p.files[f].filename = p.files[g].filename => f = g
  /\ \A p, q \in Packages : p.name = q.name => p = q

VARIABLES
  pkg_at,        \* where pkg_install is, "idle" outside
  package,       \* pkg_hdr: the package being installed
  i, copied,     \* the file and how much of it is copied; the parts of the line written
  status,
  files,         \* what each file of the disk holds: who wrote it, how much
  db,            \* the characters of the database
  pkg_handles,   \* how many files are open
  installed,     \* the packages that pkg_install has reported as installed, in order
  trouble        \* an access to the database has failed or been cut short

pkgDisk == <<files, db>>
pkgVars == <<pkg_at, package, i, copied, status, pkgDisk, pkg_handles, installed, trouble>>

NoPackage == [name |-> << >>, version |-> << >>, files |-> << >>]

PkgInit ==
  /\ pkg_at = "idle" /\ package = NoPackage /\ i = 1 /\ copied = 0 /\ status = "error"
  /\ files = [f \in Files |-> [by |-> NoPackage, amount |-> 0]] /\ db = << >>
  /\ pkg_handles = 0 /\ installed = << >> /\ trouble = FALSE

(***************************************************************************)
(* pkg_is_installed and pkg_list_installed over what was read.              *)
(***************************************************************************)
Ended(d, j) == j > Len(d) \/ d[j] \in {CR_CHAR, LF_CHAR}
LineStarts(d) == {j \in DOMAIN d : ~Ended(d, j) /\ (j = 1 \/ Ended(d, j - 1))}
UpTo(d, j, Stop(_)) ==
  SubSeq(d, j, (CHOOSE e \in j..(Len(d) + 1) : Stop(e) /\ \A k \in j..(e - 1) : ~Stop(k)) - 1)
LineAt(d, j) == UpTo(d, j, LAMBDA e : Ended(d, e))

BadNameAt(d, j) == SubSeq(d, j, j)
NameAt(d, j) == UpTo(d, j, LAMBDA e : Ended(d, e) \/ d[e] = BLANK_CHAR)

Window == SubSeq(db, 1, IF Len(db) < DB_WINDOW THEN Len(db) ELSE DB_WINDOW)
pkg_is_installed(name) == \E j \in LineStarts(Window) : NameAt(Window, j) = name
pkg_list_installed ==
  LET starts == InOrder(LineStarts(Window))
  IN  [n \in DOMAIN starts |-> LineAt(Window, starts[n])]

-----------------------------------------------------------------------------
(* pkg_init, at start-up: a database that does not open for reading is     *)
(* created, which empties one that is there.                               *)
pkg_init ==
  /\ pkg_at = "idle"
  /\ db' = << >> /\ trouble' = (trouble \/ db # << >>)
  /\ UNCHANGED <<pkg_at, package, i, copied, status, files, pkg_handles, installed>>

Leave == "cleanup"

pkg_install(p) ==
  /\ pkg_at = "idle"
  /\ pkg_at' = "header" /\ package' = p /\ pkg_handles' = pkg_handles + 1
  /\ i' = 1 /\ copied' = 0 /\ status' = "error"
  /\ UNCHANGED <<pkgDisk, installed, trouble>>

Fail(s) == status' = s /\ pkg_at' = Leave

ReadHeader ==
  /\ pkg_at = "header"
  /\ \/ pkg_at' = "check" /\ UNCHANGED status
     \/ Fail("invalid")
  /\ UNCHANGED <<package, i, copied, pkgDisk, pkg_handles, installed, trouble>>

(* A database that does not open or read counts as one without the name. *)
CheckInstalled ==
  /\ pkg_at = "check"
  /\ \/ pkg_is_installed(package.name) /\ Fail("already") /\ UNCHANGED trouble
     \/ ~pkg_is_installed(package.name) /\ pkg_at' = "entry" /\ UNCHANGED <<status, trouble>>
     \/ pkg_at' = "entry" /\ trouble' = TRUE /\ UNCHANGED status
  /\ UNCHANGED <<package, i, copied, pkgDisk, pkg_handles, installed>>

ReadEntry ==
  /\ pkg_at = "entry"
  /\ \/ i > Len(package.files) /\ pkg_at' = "append" /\ UNCHANGED status
     \/ i <= Len(package.files) /\ pkg_at' = "dest" /\ UNCHANGED status
     \/ i <= Len(package.files) /\ Fail("invalid")
  /\ UNCHANGED <<package, i, copied, pkgDisk, pkg_handles, installed, trouble>>

entry == package.files[i]

OpenDest ==
  /\ pkg_at = "dest"
  /\ \/ /\ pkg_at' = "copy" /\ copied' = 0 /\ pkg_handles' = pkg_handles + 1
        /\ files' = [files EXCEPT ![entry.filename] = [by |-> package, amount |-> 0]]
        /\ UNCHANGED status
     \/ Fail("file") /\ UNCHANGED <<copied, files, pkg_handles>>
  /\ UNCHANGED <<package, i, db, installed, trouble>>

Rest == entry.file_size - copied
ReadLength == IF Rest < SECTOR_SIZE THEN Rest ELSE SECTOR_SIZE

(* fs_read gave n, and fs_write took w of them. *)
BadCopied(n, w) == w > 0
Copied(n, w) == n > 0 /\ w = n
AfterFailure == pkg_handles - 1

CopySector ==
  /\ pkg_at = "copy" /\ Rest > 0
  /\ \E n \in 0..ReadLength : \E w \in 0..n :
       /\ files' = [files EXCEPT ![entry.filename].amount = @ + w]
       /\ \/ /\ Copied(n, w)
             /\ copied' = copied + n /\ UNCHANGED <<pkg_at, status, pkg_handles>>
          \/ /\ ~Copied(n, w)
             /\ Fail(IF n = 0 THEN "invalid" ELSE "file")
             /\ pkg_handles' = AfterFailure /\ UNCHANGED copied
  /\ UNCHANGED <<package, i, db, installed, trouble>>

CloseDest ==
  /\ pkg_at = "copy" /\ Rest = 0
  /\ pkg_at' = "entry" /\ i' = i + 1 /\ copied' = 0 /\ pkg_handles' = pkg_handles - 1
  /\ UNCHANGED <<package, status, pkgDisk, installed, trouble>>

OpenDb ==
  /\ pkg_at = "append"
  /\ \/ pkg_at' = "line" /\ copied' = 0 /\ pkg_handles' = pkg_handles + 1 /\ UNCHANGED status
     \/ Fail("db") /\ UNCHANGED <<copied, pkg_handles>>
  /\ UNCHANGED <<package, i, pkgDisk, installed, trouble>>

(* The line is written in five calls, whose results are not looked at. *)
Line == <<package.name, <<BLANK_CHAR>>, package.version, <<CR_CHAR>>, <<LF_CHAR>>>>

WriteLine ==
  /\ pkg_at = "line" /\ copied < Len(Line)
  /\ \E w \in 0..Len(Line[copied + 1]) :
       /\ db' = db \o SubSeq(Line[copied + 1], 1, w)
       /\ trouble' = (trouble \/ w < Len(Line[copied + 1]))
  /\ copied' = copied + 1
  /\ UNCHANGED <<pkg_at, package, i, status, files, pkg_handles, installed>>

CloseDb ==
  /\ pkg_at = "line" /\ copied = Len(Line)
  /\ pkg_at' = Leave /\ status' = "ok" /\ pkg_handles' = pkg_handles - 1
  /\ UNCHANGED <<package, i, copied, pkgDisk, installed, trouble>>

Cleanup ==
  /\ pkg_at = Leave
  /\ pkg_at' = "idle" /\ pkg_handles' = pkg_handles - 1
  /\ installed' = IF status = "ok" THEN Append(installed, package) ELSE installed
  /\ package' = NoPackage /\ i' = 1 /\ copied' = 0 /\ status' = "error"
  /\ UNCHANGED <<pkgDisk, trouble>>

PowerCut ==
  /\ pkg_at # "idle"
  /\ pkg_at' = "idle" /\ package' = NoPackage /\ i' = 1 /\ copied' = 0
  /\ status' = "error" /\ pkg_handles' = 0
  /\ trouble' = (trouble \/ pkg_at = "line" \/ status = "ok")
  /\ UNCHANGED <<pkgDisk, installed>>

PkgStep ==
  \/ ReadHeader \/ CheckInstalled \/ ReadEntry \/ OpenDest \/ CopySector \/ CloseDest
  \/ OpenDb \/ WriteLine \/ CloseDb \/ Cleanup \/ PowerCut

PkgNext == PkgStep \/ pkg_init \/ \E p \in Packages : pkg_install(p)

PkgSpec == PkgInit /\ [][PkgNext]_pkgVars
-----------------------------------------------------------------------------
PkgTypeOK ==
  /\ pkg_at \in {"idle", "header", "check", "entry", "dest", "copy", "append", "line", Leave}
  /\ package \in Packages \cup {NoPackage} /\ i \in 1..(Len(package.files) + 1)
  /\ copied \in Nat /\ pkg_handles \in Nat /\ trouble \in BOOLEAN
  /\ status \in {"error", "invalid", "already", "file", "db", "ok"}
  /\ files \in [Files -> [by : Packages \cup {NoPackage}, amount : Nat]]
  /\ installed \in Seq(Packages)

InFull == Len(db) <= DB_WINDOW /\ ~trouble

(* A package that the database lists is there: each of its files that no    *)
(* other package has written since is complete, whatever failed or lost its *)
(* power on the way to the line.                                           *)
ListedIsComplete ==
  InFull =>
    \A p \in Packages : pkg_is_installed(p.name) =>
      \A f \in DOMAIN p.files :
        files[p.files[f].filename].by = p => files[p.files[f].filename].amount = p.files[f].file_size

(* The database answers for every name, one that begins another one too,    *)
(* whether that package was installed; none is listed twice, and the list   *)
(* shows them in the order they came, as long as the database fits what     *)
(* is read of it and no access to it has failed.                            *)
FoundOnce ==
  InFull /\ pkg_at = "idle" =>
    /\ \A p \in Packages : pkg_is_installed(p.name) <=> p \in {installed[n] : n \in DOMAIN installed}
    /\ \A m, n \in DOMAIN installed : installed[m] = installed[n] => m = n
    /\ pkg_list_installed =
         [n \in DOMAIN installed |-> installed[n].name \o <<BLANK_CHAR>> \o installed[n].version]

(* Every failure gives the open files back: pkg_install holds none when it  *)
(* has returned, and never more than two of the eight of the system.        *)
PkgHandlesClosed ==
  pkg_handles = CASE pkg_at = "idle" -> 0 [] pkg_at \in {"copy", "line"} -> 2 [] OTHER -> 1
=============================================================================
