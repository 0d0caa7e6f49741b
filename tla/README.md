# Hyderabad Homes: models, checks and proofs

Hyderabad Homes is a Rails 3.2 application. Administrators keep a catalogue of
property types, ownership types and interests; registered users offer homes and
look for homes; visitors search, and keep what they find as favourites after
registering. The repository carries the sources of PostGIS 1.5.3 with it, the
spatial extension of its PostgreSQL database. This directory holds TLA+ modules
of both, the TLC configurations that check them, and TLAPS proofs about them.

- [Inventory](#inventory)
- [Modules](#modules): [the application](#the-application),
  [the database extension](#the-database-extension),
  [geometries and their texts](#geometries-and-their-texts),
  [shapefiles](#shapefiles)
- [Runs](#runs)
- [Fairness](#fairness)
- [Proofs](#proofs)
- [Disagreements found](#disagreements-found)
- [What is not modelled](#what-is-not-modelled)
- [Plan](#plan)

To check a run, `tlc -config MCCatalogOne.cfg MCCatalog.tla`; to check proofs,
`tlapm CatalogProofs.tla`.

## Inventory

| Part | State | Operations | Works with |
|---|---|---|---|
| Catalogue (`app/controllers/administrators/{properties,ownership_types,looking_fors}_controller.rb`, the three models) | tables `properties`, `ownership_types`, `looking_fors` | create, update, destroy; list, show, search by prefix | the select boxes of the listings' forms |
| Listings (`app/controllers/users/user_properties_controller.rb`, `user_looking_for_properties_controller.rb`, their models, `user.rb`) | tables `user_properties`, `user_looking_for_properties`, `users` | create, update, destroy; cancelling the account destroys the dependents | catalogue rows by id; the geocoding service inside `save` |
| Favourites (`app/controllers/home_controller.rb`, `home/_search_properties.html.erb`) | session keys `location`, `property`, `looking_for`; rows of `user_looking_for_properties` | search, add_to_cart, add_to_favourites, create_properties | session, listings |
| Sessions and registration (`users/sessions_controller.rb`, `users/registrations_controller.rb`, `application_controller.rb`, `sessions_helper.rb`) | the session cookie: user, `return_to`, search keys, form token | sign in, sign up, sign out, the stored location | favourites, dashboard |
| Profiles, contacts, searches and pages, administrators' accounts, cart | one table each, or none | Devise handlers, forms, imports, reads | see [What is not modelled](#what-is-not-modelled) |
| Long transactions (`postgis/long_xact.*`) | `authorization_table`, a session's temporary table, the trigger | LockRow, UnlockRows, AddAuth, CheckAuth, enable, disable | any table that has the trigger |
| `transform()` (`postgis/lwgeom_transform.c`) | projections of a call site; a hash table of the backend | look up, load, evict, free | PROJ.4, the memory of a query |
| Predicates (`postgis/lwgeom_geos.c`, `lwgeom_geos_prepared.c`, `lwgeom_rtree.c`) | a call site's ring index or prepared geometry; a hash table | eleven predicates | GEOS, the memory of a query |
| Geometry columns (`postgis/postgis.sql.in.c`) | table `geometry_columns`, CHECK constraints | add, change, drop, populate, probe, fix, rename | system tables, plain SQL |
| Topology (`topology/topology.sql.in.c`) | nodes, edges, faces, relations; topologies and layers | 20 editing functions, validation, intersects; create, drop | geometry columns, triggers on layers |
| Indexes (`postgis/*_gist.c`, `*_btree.c`) | none between calls | consistent, union, penalty, picksplit, same; comparisons | PostgreSQL's trees |
| Geometries (`liblwgeom/*.c`, `postgis/lwgeom_functions_basic.c`, ...) | none between calls | read, write, box, edit, collect, dump | every SQL function |
| Texts (`lwgparse.c`, `lwgunparse.c`, `lwgeom_*gml*`, `*kml*`, `*geojson.c`, `*svg.c`) | none between calls | WKT, WKB, GML, KML, GeoJSON, SVG | browsers, other databases |
| dBase and shape files (`loader/dbfopen.c`, `shpopen.c`) | a handle with a header, an index and one record in memory; files | create, open, read, write, add and delete fields, rewind, close | the next two |
| `shp2pgsql`, `pgsql2shp` (`loader/`) | a shapefile and a table; a pipe, a transaction and a cursor | load in four modes, dump | psql, the server, other sessions |

Where the difficulty lies:

- **Processes.** `config.threadsafe!` is commented out, so a Rails process runs
  one request at a time. A site is served by several processes over one database.
  They interleave between SQL statements under PostgreSQL's default READ
  COMMITTED: a statement sees what is committed when it starts. The same holds of
  connections that lock rows for long transactions and of a dump under way.
- **Validations are reads.** `validates_uniqueness_of` and `:dependent =>
  :destroy` are a SELECT followed by a write, and so are LockRow's test, the
  topology's, and `pgsql2shp`'s search for the type of its shapes. No unique index
  or foreign key stands behind them.
- **Records outlive their rows.** An update works on a record found earlier,
  sends only the changed columns, and calls it success when no row matched.
- **The session is a cookie.** Each request has a copy, each answer overwrites
  the browser's, and an answer that is an exception writes nothing.
- **Caches of a query.** Projections and prepared geometries live in the memory
  of a query and in a hash table of the backend; rows come in any order, the cache
  has eight places, and what is freed must be forgotten, and once.
- **Registers beside the thing registered.** `geometry_columns`, `layer`,
  `relation` describe columns, tables and elements that plain SQL changes too.
- **Partial failure and crashes.** Favourites are saved one by one and the results
  are not looked at; a load runs through a pipe whose ends are killed separately;
  the number of records of a file is written when it is closed.
- **Bytes and conventions.** A geometry is bytes read at computed offsets; the
  order of axes, the winding of rings and the closing of lines differ from format
  to format and reader to writer.

What makes each part correct: names unique, an update answered with success has
happened (catalogue); every listing has an owner, a closed account stays empty,
a copy copies everything (listings, favourites); references resolve (site); the
search that a registration interrupts is resumed and redirects end (session); a
locked row is written with its code only (long transactions); an answer does not
depend on what was cached (backend); what is registered is so (database); an
edited topology is a topology; an index finds, bytes and texts read back; a load
is whole, a dump is a snapshot, a file holds what was written to it.
`PROJECT.json` lists the hazards line by line with the properties aimed at them.

## Modules

```
NameRegistry <-refined by- Catalog --+                ProjCache --+
                                     +-INSTANCE-> Site             +-> Backend
                          Listings --+                Predicates -+
                          Session                     GeometryColumns -> TopoLayers
                                                      LongXact     TopoGeo
LwGeom -> Serialized -> GeometryFunctions -> GeometryEditors -> Gml -> WebFormats --+
                                         \-> WellKnown -----------------------------+-> Texts
                                                                  BoxIndex, Texts --> Routines
DbfFile -> ShapeFile -> FileClients
                    \-> Loader -> Dumper -> ShapeExchange
```

Each component has an `MC` module with the instances for TLC; modules called
`...Proofs` hold the theorems (`SiteProofs` those of `Site`, `BackendProofs` those of
both caches and of `BoxIndex`, `DatabaseProofs` those of `GeometryColumns`,
`TopoLayers`, the load of `ShapeExchange` and the layer of `FileClients`).

`PROJECT.json` maps each definition to its lines. A helper that stands for a few
lines of a function is covered by that function's entry.

Definitions called *mutant* in a comment are variations of the definition that
follows them, the way a bug would change it. No specification uses them; each
property of a run is refuted when one of them takes the place of the definition
it varies.

### The application

**NameRegistry** is what the catalogue promises: `Claim`, `Rename` and `Release`
of a name, each one atomic step, and no name claimed twice in a table.

**Catalog** is how the application does it. `rows`, `nextId` are the tables and
their sequences; `req[w]` is the request of process `w` (the controller, the id
of the path, the typed name, the name that `find` returned). `SubmitCreate`,
`SubmitUpdate` and `SubmitDestroy` are the handlers up to the record being in
memory, with the `find`; `Validate` is the validation's SELECT; `Insert`,
`Update` and `Delete` are the write and its commit; `Abort` is an exception or
the process's death. `ModelOf` says which table a handler's model class is: the
ownership types controller uses `Property` in update and destroy. `author` is a
history variable. Names the validation can tell apart are kept as they are typed
and `Lower` gives their lower case.

**Listings** has the two listing tables and the accounts. A save is one step,
since nothing is read between `save` and its write that the properties depend
on. The edit is two (`Find`, `Update`), because `Merge` overwrites only the
columns in which the record differs from what was found. `CollectOffers`,
`CollectWanted`, `CommitCancel` are the loading of the dependents and the commit
of the cancellation. `SubmitCopy`, `Identify`, `AddFavourite`, `SkipFavourite`,
`AnswerFavourites` are `create_properties`. A create sets the user after the
attributes of the form, so the owner is the session's user. An update sets it
*before* `update_attributes`, and `user_id` and `location` are accessible: the
owner is the one the form names, or the session's user when it names none (as the
pages' own form), and the location is the form's only if it goes by that name
(`named`; the pages' own form calls it `addr`, which update does not read). The
`find` of update and destroy is not restricted to the user's own rows.
`Geocoder = FALSE` means a save *may* be refused. Left out are latitude and
longitude, which the geocoding derives from the location, and `price`, which
the form of a looked-for home sets and pages show, and no other code reads:
`create_properties` does not copy it into the new row. What a new row holds is chosen
from valid values; an invalid form is the refusal.

**Site** instantiates both over one database and one set of processes: process
`w` runs either a catalogue step or a listings step, never two requests at once.
The form of a listing carries ids the tables have issued (`Offered`): a row may
be destroyed between the form being rendered and its being posted.

**Session** is the browser's cookie, its tabs and the handlers that read or write
the session. A request copies the cookie (`Send`, `Follow`), its handler answers
with a page (`Render`), a redirect or an error page (`Fail`), and the first two
write the cookie. `Search` is `UserLookingForProperty.search`; `RenderResults`
writes the keys of the row rendered last. `token` stands for the form token:
a form whose token is not the session's is handled with an empty session.
Devise's `require_no_authentication` runs ahead of that check, as in the
locked version 2.0.4. Other users' listings come and go (`Publish`, `Withdraw`).
`create_properties` does not touch the session and is in Listings. `MCSession`
adds the choice between a browser with one tab and one with two.

### The database extension

**LongXact** is the lock table of `long_xact.sql.in.c` under transactions of
several connections. `locks` and `temp` are the committed tables, `txn[s]` what a
session's transaction inserted, deleted, wrote and was refused; `Visible(s)` is
what it reads. `Begin`, `Commit`, `Rollback` and `Disconnect` are the server's,
`LockRow`, `UnlockRows`, `AddAuth`, `EnableLongTransactions`, `CheckAuth` and
`DisableLongTransactions` the functions, `Write` a write with the trigger's
verdict. `now()` is the time the transaction began. The statement that deletes
another session's locks waits for it (`CanDelete`). The last three functions change
the schema and are several statements, between which others can come: each is two
steps (`CheckAuth` tests whether long transactions are enabled, `CheckAuthCommits`
makes the trigger and lets others see it; `DisableLongTransactions` scans for
triggers, `DisableCommits` drops the table and the view; and so on), with the stage
of the call in `ddl`, and `CallDies` ends one in between. Dropping the table waits
for the transactions that used it (`Quiet`), making or dropping a trigger for those
that wrote rows (`NoWriters`). There is one call of each kind at a time.
`ddl.mixed` is history: a disabling was under way together with one of the others.

**ProjCache** and **Predicates** are the two caches a call site keeps;
**Backend** runs either in a query and ends it (`QueryEnds`). `slot`, `count` and
`pjHash` are the cache and the backend's table of `lwgeom_transform.c`; `call` is the
`transform()` under way with the two projections it has taken. `Ensure` looks a
system up or adds it, `Add` gives up the slot `Victim` names, and `TakeOutput`,
`TakeInput` and `Return` are the steps of the call, in the code's order. In
Predicates `fn_extra` holds a ring index or a prepared geometry, told apart by
its type; a geometry is its interior and boundary on a grid, GEOS is what it
answers of them, and each predicate has the box tests it has in the code.

**GeometryColumns** is `geometry_columns` with the columns and constraints it
describes: `AddGeometryColumn`, `UpdateGeometrySRID`, the drops,
`populate_geometry_columns`, `probe_geometry_columns`, `fix_geometry_columns`,
and what plain SQL does to the tables. `fix_geometry_columns` looks for the SRID and
the type of a row in the text of a constraint by a pattern that is not anchored at
its end: `SridFound` and `TypeFound` are the pairs that match, so that 3200 is found
where 32001 is enforced. Two variables are history: `fixed` marks a row that this
function moved, `stale` the rows whose columns went away without the catalogue's
functions, by a plain DROP or by the `DROP SCHEMA ... CASCADE` of `DropTopology`.
**TopoLayers** adds topologies, which are schemas with geometry columns, their
layers, the relation rows and the triggers that guard them.

**TopoGeo** is one topology: nodes, edges with their faces and links, faces, and
TopoGeometries. A curve is the sequence of points it visits. The functions that
change state are actions; one that raises is a statement that was rolled back.
`ValidateTopology` and `intersects` are operators. What is edited was loaded into
the tables, since no function makes a face; it is a topology (`LoadedAssumption`).
Layers nest one level, and a layer above another is read through its child.

**BoxIndex** has the boxes of geometries and geographies, the GiST functions of
both and both B-tree orders, with the fuzzy comparisons of the code (`Eps`). Its
steps hand a full page and a query, or two keys, to them. `BoxesAssumption` says what
the code makes sure of: a box has its ends in order, a page that is split two entries.

### Geometries and their texts

**LwGeom** is a geometry in memory and liblwgeom's functions on it. **Serialized** is
its bytes: a buffer has one entry per byte, a value stands in the first of its bytes,
so a reader that is off by a byte finds nothing. **GeometryFunctions** and
**GeometryEditors** are the SQL functions of `lwgeom_functions_basic.c`,
`lwgeom_ogc.c`, `lwgeom_pg.c`, `lwgeom_dump.c`, ... on bytes. **Gml** and
**WebFormats** (KML, GeoJSON, SVG) write trees of elements, and Gml reads them;
**WellKnown** is WKT and WKB with the parser's checks. **Texts** says what a reader
should get of each. **Routines** hands each of these one input per step and keeps it
in `input`; among its steps are those of BoxIndex (`IndexNext`). The invariants
compare the answer with a reference definition: the set of vertices, the box of the
vertices, the entries a query must find, the geometry that was written.

### Shapefiles

**DbfFile** is `dbfopen.c` function by function: a handle has the header's fields, one
record in memory (`nCurrentRecord`, `pszCurrentRecord`, whether it is modified) and
the file's cells. **ShapeFile** is `shpopen.c`: records are placed in the file, over
the old one if they fit, and read back by the index. **FileClients** has a program
that calls the one beside the table it believes it keeps, and a program that calls the
other beside the layer it believes it keeps (`ShapesAssumption`: the shapes it writes
are ones `SHPCreateObject` makes, their parts in order and a point with its vertex).
**Loader** is `shp2pgsql-core.c`: its statements, from the layer's types and names to
the geometry of a shape (`FindPolygons`, `PIP`). **Dumper** is the shape and the
fields `pgsql2shp.c` makes of a row. **ShapeExchange** runs them: the dumper asks for
columns, type and dimensions in queries of their own, then begins a transaction,
declares a cursor and fetches, while other sessions write (`OtherWrites`): a row that
comes after the queries may be of another type or have a Z or M for which the layer
has no room. The loader prints and psql executes at the two ends of a pipe; each may
be killed. What the server does with a statement (`Effect`) is external.
Simplifications: the pipe is drained a statement at a time; a batch of FETCH is one
row; a text is character codes, those above 127 do not convert; the rounding of
`PIP`'s slopes is left out.

## Runs

Every run passes. The names are those of `PROJECT.json`; the configuration has the
name of the module and, for the first four, the instance.

| Run | Instance | Distinct states | Checks |
|---|---|---|---|
| `catalog_one` (`MCCatalogOne`) | 1 process, 2 controllers, 3 names of which 2 differ in case, 3 ids a table | 7,106 | `UpdateTakesEffect`, `ImplementsRegistry` |
| `catalog_many` (`MCCatalogMany`) | 3 processes, 2 names differing in case, 2 ids | 114,798 | `DistinctAuthors`, `NoResurrection` |
| `listings_one` (`MCListingsOne`) | 1 process, 2 users, 2 locations, both tables, 4 ids, no refusals | 737,882 | `NoOrphans`, `EditTakesEffect`, `FavouritesCopied` |
| `listings_many` (`MCListingsMany`) | 2 processes, 2 users, 2 ids, refusals, fair | 338,041 | `CancelledStaysQuiet`, `RequestsEnd` |
| `site` (`MCSite`) | 2 processes, 2 ids a catalogue table, 1 listing | 1,953,934 | `OwnershipTypesResolve`, `BrokenStaysBroken` |
| `session` (`MCSession`) | 1 tab and 3 rows, or 2 tabs and 1 row; 3 tokens; fair | 152,636 | `FavouriteWasShownInOneTab`, `CartReachesFavouritesInOneTab`, `RedirectsEnd` |
| `long_transactions` (`MCLongXact`) | 2 connections, 1 row, 2 codes, 3 transactions, 2 instants | 2,523,852 | `DuplicatesOverlap`, `WritesRespectLocks`, `RefusedOnlyIfLocked` |
| `backend` (`MCBackend`) | 5 systems of which 4 known, a cache of 3, 6 contexts; 5 geometries, 11 predicates, 2 prepared caches | 273,683 | `TransformsBetweenItsSystems`, `SlotsAreBacked`, `AnswersAreExact`, `EntriesNameTheLiving` |
| `topogeo` (`MCTopoGeo`) | 10 points, 4 curves to add, 3 rings, 4 layers; 5 nodes, 6 edges, 2 TopoGeometries | 48,161 | `ValidatorFindsNothing`, `LeftLinksMeet`, `IntersectsIsGeometric`, `SplitsKeepGeometry` |
| `database` (`MCTopoLayers`) | 1 topology, 3 feature columns, 2 users' columns of one name, 2 SRIDs | 781,389 | `RegisteredIsEnforced`, `FeaturesHaveLayers`, `DropCleansUp` |
| `routines` (`MCRoutines`) | one input a step: boxes, pages, geometries, texts, documents, numbers | 39,281 | `IndexFinds`, `BTreeAgrees`, `ReadsBack`, `BoxesAreTrue`, `EditsLoseNothing`, `TextsReadBack` |
| `shapefiles` (`MCShapefiles`) | 2 fields, 2 records; 11 shapes, 2 a layer; 11 exchanges, 1 write by another session | 245,879 | `AttributesKept`, `ShapesKept`, `LoadIsAtomic`, `LoadIsWhole`, `DumpIsSnapshot`, `DumpReturns` |

### Bounds

*Application.* `MaxRows` and `MaxListings` bound the ids a table issues, `MaxTokens`
the form tokens of a session's life. Two rows are what a duplicate, a lost update or a
reused id takes; the third of `catalog_one` leaves room for a create after a destroy
among two rows. `DistinctAuthors` runs with three processes so that a row can be
rewritten by a third between the two that duplicate it. `listings_many` needs two ids:
a listing, and a copy that is saved after its owner has gone; `listings_one` needs
four for two listings and a copy of each, and its constraint `OneOffer` issues one id
of the other table, to which nothing is copied. It has two locations, so that an edit
can keep or change the place. `site` needs one listing and two ids: a property
destroyed, and another that must not take its place; with one location the form of an
edit need not name it (`NoneNamed`). The three rows of `session` are such that a row
mixed from the columns of two others is not one of them; redirects do not depend on
the rows, so with two tabs there is one. Three tokens allow two sign-outs in a
visitor's history. A request to a full table waits; `Refuse`, `SkipFavourite` and
`Abort` end it.

*Database.* In `long_transactions` a duplicate takes two connections and one row,
and the row's lock expires at the second instant; three transactions let a code
outlive the one that brought it. Its constraint `OneCode` keeps a connection from
bringing a second code: codes of one connection are tested one by one, and a second
is reached (and its properties checked) but not followed. `FewCalls` bounds the
calls that change the schema: they overlap in any order, but once a disabling has
overlapped another call no third transaction is followed, and beside a third
transaction there is one such call at a time. That a trigger
outlives the table takes one transaction, whose write it refuses. In `backend` a cache of
three, one more than a transformation needs, is filled, evicted from and wrapped by
four known systems; the code's eight would only take longer. Each query takes one
of the two caches, since they share nothing. In `topogeo` the loaded topology has
two faces between three edges and an isolated node in one; the four curves are an
edge outside, one straight between the same ends, one inside a face, and one that
crosses itself. Its constraint `FewNodes` follows a state only while there are four
nodes: a fifth id is issued when one was removed before. In `database` a table of
one name stands in two schemas, because the functions that look by table name alone
are the ones that err; the digits of one SRID, 3200, begin those of the other, 32001,
both of `spatial_ref_sys`, as the pattern of `fix_geometry_columns` tells them apart no
better; and either topologies or users' tables are there, since no
function but `fix_geometry_columns` connects two columns.

*Routines.* Coordinates are small and chosen so that comparisons come out equal,
fuzzy-equal and different (`Eps = 1`); geometries are of every type, with and
without SRID, Z, M and box, singly, in pairs, nested and empty; documents are the
same line, area or collection in each form the reader knows. `MCRoutines.tla` names
each list.

*Shapefiles.* Constraint `Few` cuts two subsystems: the file of attributes until
fields change under a record in memory (what the program reads then is listed
under [Disagreements found](#disagreements-found)), and with two fields and two
records only as they are flushed; the layer of shapes to one shape written over
between two headers, and to the size of a file `Room` gives. The exchanges are
every load mode, both dump formats, null policies and geometry types, each with
its table, and files that no dump makes; the row another session adds is of the
types there are, of a new one, or of more dimensions than the layer.

Symmetry is used for processes, users, connections, rows and codes, in runs of
invariants and action properties only. Deadlock is not checked where the system
stops: once every account of the instance is cancelled (listings), where every id
or transaction of the bounds is used (long transactions, topology, database), when
a step has its answer (routines), and when an exchange is over (shapefiles).

## Fairness

`Listings!FairSpec`: weak fairness of `Proceed(w)`, all steps of a request a
process has taken except an exception. A process is sequential code, a statement
is answered by the database, and the library calls have timeouts. Nothing is
assumed of users, of exceptions, or of which of `AddFavourite` and
`SkipFavourite` is taken.

`MCSession!MCSpec`: weak fairness of `Answer(b)` and `Follow(b)`. The server
answers what it receives and a browser follows a redirect. A visitor need not do
anything, and a connection may fail (`Lose`) or not. `RedirectsEnd` also rests on
`MaxTokens`: a tab that signs out and in for ever could keep another tab between
two redirects; the bound says that the visitor stops signing out at some time.

The database's modules state no fairness and claim safety only: a lock waits for
another session's end, which a person decides, and a loader may be killed at any
step.

## Proofs

All theorems hold for any values of the constants that satisfy the named
assumptions: bounds are natural numbers, controllers are among the tables, and the
"nothing here" values differ from the real ones. Each run evaluates them. The
invariants that carry the proofs were first checked by TLC on the instances above.

**CatalogProofs.** `TypeCorrect`: types. `DuplicatesHaveDistinctAuthors`, for any
number of processes. The property is not inductive: nothing in it says why a
process does not insert a name that it wrote itself. `AuthorInv` adds
`ValidatedAgainstOwn`: while a process is between its validation and its write,
no other row of the table that *it* wrote holds the name. Another process may
break the validation's result, and then it is the author. `InsertWrites`,
`UpdateWrites` reduce both writes to one operator, `WriteRow`, and
`WriteKeepsAuthors` does the case analysis once. `DestroyedStaysDestroyed` follows
from the guards and the types. The three theorems that assume `OneProcess` (any
two processes are equal) use `SoloInv`: every live row has that author, and the
row found by an update is still there unchanged. `OneProcessUniqueNames` is then
`AuthorInv` with one author; `OneProcessImplementsRegistry` maps `Insert` to
`Claim`, a writing `Update` to `Rename`, `Delete` to `Release`, all else to a
stutter.

**ListingsProofs.** `ListingsTypeCorrect`: types. `CancelledNeverGrows`, for any
number of processes: a row comes to an owner as the user of a create or a copy,
which is not the cancelled one, or as the owner in the form of an edit; and that one
is the editor unless the form names another (`HandsOver`), which the property
excepts. `OneProcessNoOrphans`: `SoloInv` says that the user of a request is active
as long as it runs, and that what is collected for destruction is all that the user
owns; the same edits are the exception. `OneProcessEditTakesEffect`:
what Find has loaded is still the row that Update writes (`FoundStays`), because
only that process could change it. `OneProcessFavouritesCopied`, if the geocoder
always answers so that every save succeeds: `CopiedOrLeft` says that each selected
row is still to be copied or has its copy, and `RoomAhead`, that ids not yet
issued name no row, keeps one copy from overwriting another.

**SiteProofs.** `SiteImplementsComponents`: every behaviour of Site is one of
Catalog and one of Listings, so that their theorems hold of the whole;
`SiteTypeCorrect` uses it. `OwnershipTypesAlwaysResolve`: the invariant also
covers the forms under way and the rows a request holds, and rests on the fact
that an issued ownership type is never emptied, because the handler that should
do so names the properties table. `BrokenReferencesStayBroken` transfers the
catalogue's `DestroyedStaysDestroyed`.

**BackendProofs.** First of `BoxIndex`, for all boxes, pages, queries and every
`Eps`. `IndexSearchesFind` has three parts. The box above a page covers every entry
and each of its ends is an entry's (`PageBox`), by induction over the entries, in the
form of the least entry at which it fails (`LeastOf`). A split keeps the entries: each
is in one half, neither half is empty and the boxes cover them (`SplitOK`). The hard
part is that no half is empty. The first attempt goes by the nearer side; if that
puts all in one half, no entry is nearer the low side, and in the second attempt,
where an entry as near to both joins the half with fewer, both halves get one
(`OneSidedMeansNoneLow`, `SecondAttempt`); the sort of that attempt visits every
entry (`SortVisitsAll`). Last, an entry that is consistent with a query lies under
boxes that are (`SearchDescends`, `GidxSearchDescends`), operator by operator, because
the test of a page is never stricter than that of an entry on the ends it compares.
`BTreeComparisonsAgree`: unequal keys have a first corner that differs by more than
`Eps`, and `<=`, `>=`, `=` and the comparison function go by that one.

Then, for every set of systems, every cache of two places or more,
every bound on contexts, and every set of geometries, of `ProjCache`:
`CacheInv` adds to `SlotsAreBacked` that an empty slot names no context.
`ProjectionsAreTheCalls` needs that adding the second projection of a call spares
the first. The victim is the first slot that does not hold the other system, and
`VictimSpares` shows there is one: a system has one slot at most, which is part of
`SlotsAreBacked`, so of slots 0 and 1 one can go. The slots cleared and the contexts
freed belong together (`ClearingIsSound`), so what stays is backed, and a slot that
is overwritten after the count has wrapped leaves its context in the table, alive
and unused (`FillingIsSound`). Then of `Backend`: `EntriesAlwaysNameTheLiving` adds
to `EntriesNameTheLiving` that the entry of the call site's own context is what the
call site has prepared and that a context not yet made has no entry (`PreparedInv`);
a step of one cache leaves the other alone, and the query's end empties both, so the
theorems hold of the backend as it is checked. `AnswersAlwaysExact` adds that what
is prepared is the key it is kept under, the second argument's only for
`intersects`, which is symmetric, and that the ring index used is the one of the
call's own polygon. It assumes `ShortcutsAreSound`: a box test or a ray crossing
that decides a call says what GEOS would. TLC finds that true of the instance's
geometries (add it to the invariants of `MCBackend.cfg`).

**LongXactProofs.** For every number of connections, rows, codes and instants.
`DuplicatesOverlap` speaks of committed locks, and what is committed was inserted
earlier, under another transaction's eyes: `Overlapping` says the same of the locks
that open transactions have inserted, against the committed ones and each other's. It
is kept by a LockRow because `Held` reads everything committed, and by a Commit
because whoever inserted meanwhile was open when the lock was taken.
`CommittedWritesRespectLocks`: the trigger ran at some write, not at the commit, so
`WrittenByCode` says of every open transaction what it is to satisfy at its end. A
lock that came after the transaction began is left out by the property itself; the
hard case is that the trigger let the write pass because of a lock the writer itself
had inserted, on a row that another's lock held before. `BaseOwned` (no transaction
that was open then shares the xid of a lock of the base) with `Overlapping` shows
there is none. CheckAuth makes the implication true of the past as well, because the
trigger it creates waits until no transaction has written (`NoWriters`).
`OnlyLocksRefuse`: as long as no disabling has overlapped another call, a trigger or
the view implies the table, so that the query in the trigger never fails for want of
it. That is not inductive over the steps of the calls: `Undisturbed` adds what a call
under way has seen and not yet made, a table that an enabling found, a table behind
the view that CheckAuth tested, no trigger left by a disabling that found none.
`StageEnable`, `StageCheck` and `StageDisable` say when a step makes an overlap. Each
action is first reduced to what it changes (`Frame`, `Writes`, `Commits`, ...), and
the invariant is proved from these.

**SessionProofs.** For any tabs, rows and tokens. `SessionTypesCorrect`: a response
may start a session and so cost a token, and nothing in the types says that one is
left. A request is only sent while there is one for every tab that waits: the
invariant counts these (`Waiting`), with a lemma on how the count changes with one
tab. `OneTabFavouriteWasShown` is about a browser with one tab, because with two it
is false. Its invariant `Alone` says that the session a request brought is still the
cookie when it is answered. With it a response takes the favourite from the cookie,
from a row that this very page shows, or leaves none.

**DatabaseProofs.** `RegistrationEnforced`, for any tables, columns, SRIDs and types.
A row is written by a function that knows one column and read beside whatever plain
SQL has done to it: `GCInv` says, column by column, that every stored geometry meets
the constraints that are there (`Holds`), and that a row not left behind by a DROP
(`stale`) has a column with a constraint on its SRID, or on one in which its SRID is
found if the row was moved (`fixed`). For that the theorem uses nothing of `SridFound`:
the pattern is what the function tests, and any pattern will do. What probing and populating
write follows from the constraints, not from the values. `FeaturesKeepTheirLayers`,
for any topologies: `LayerInv` adds that a registered topology has its schema and that
a column has one layer, so that the layer a drop deletes is the layer of the column
that it empties. `OneTopologyDropsClean` assumes that there is one topology's name, as
in the run; with two it is false (see below).

`LoadsAreAtomic`, for any files, tables and options: of these only the fields that
the load reads are assumed (`LoadsAssumption`). What psql has done is decided by what
it was sent, and the loader may be killed between any two statements; so the invariant
`LoadInv` reads the transaction off what is left of the script. Before BEGIN there
are drops, which only `-d` writes (`Ahead`); after it, work on the table, and COMMIT
nowhere but at the end of a script of which every row was written (`WorkFrom`,
`Complete`). Until COMMIT is executed the table that others see is what it was, or what
`-d` left of it (`Undone`), whichever program stops first. What each function adds to
the script is a lemma about it (`DropFacts`, `CreateFacts`, `HeaderFacts`, ...). What
the rows then hold is `LoadIsWhole`, which is model-checked.

`ShapesAlwaysKept` (of `LayerSpec`, the part of `FileClients` about layers), for any
shapes of any types, any length of a layer and any order of calls. Its invariant
`ShapefileInv` has the layer's headers twice, as they are in memory and as they were
last written, and says the same of both (`FileOK`): no two places overlap, all end
within the file as the headers measure it, and what lies at each is a shape within the
bounds. The two differ as `Since` says: a record is where it was and no longer, or
beyond everything the old headers tell of. So a record that is written over, or moved
to the end because it grew, disturbs neither what the layer reads nor what is found
after the program ended without `SHPClose`, its own record excepted. That the lengths
suffice rests on the records themselves: `AllRecorded` says of each type that whatever
*begins* as the record of a shape is read as that shape, however many cells of a
longer one follow, but for measures it may take from these. Two facts about the code
came out of it. Measures are written only for types that have them (`WritesM`), so a
shape of another type that was read with measures, from a record written over before
such an end, loses them when `Rewind` writes it back (`Stored`), and its bounds in M
say nothing (`Within`). And winding rings in place (`SHPRewindObject`) moves vertices
only within their parts (`Source`), so a shape stays one (`RewoundIsShape`).

**TopoGeoProofs.** For any points, curves, polygons, layers and requests, and any
loaded tables that form a topology. That is assumed of what is loaded and proved of
what is edited. `Core` is the invariant: types; `Plane` (nodes apart, edges simple,
ending at their nodes, meeting each other and the nodes at ends only); and the left
links. A split first becomes one statement about tables (`SplitStep`: one edge is
replaced by two that join at a new node, and every relation row and left link of the
one now names the two); both functions, which keep different ids and go by different
updates, make such a step. `LeftLinksAlwaysMeet` and `IntersectsAgrees` follow: two
elements of which the ids say that they share no node have no point in common.

`SplitsAreInvisible` is about all TopoGeometries, those of a layer above another
included. `Held` says that rows only name ids that were issued and that a row of a
layer above names the child layer, so that no row names one of the new pieces before
the split. The elements of a TopoGeometry are then those it had, with one edge
exchanged for two (`Swap`, which can be undone: `SwapUndone`), and equal ones stay
equal, different ones different. Faces keep their geometry because the segments around
them are the same.

`ValidatorNeverFinds` needs the faces. A face's geometry is a ring of segments of its
edges, and an edge that is removed, moved or added by the functions for isolated edges
might belong to one. It cannot (`NoRingOnPath`): the edge is open and meets no other
edge, so a ring that uses one of its segments would lie on it altogether, and the first
of its points along the edge would have two neighbours further on, which a simple path
does not have. So every face keeps its geometry under every function (`Unmoved`), faces
that were apart stay apart, and closed edges stay between two faces.

**Only model-checked.** Liveness (`RequestsEnd`, `RedirectsEnd`,
`CartReachesFavouritesInOneTab`) is out of this prover's reach. So is what recursion
computes for every input: recursive operators read and write bytes, texts and
documents in `routines`, and in `shapefiles` folds over rows, fields and records make
what `AttributesKept`, `LoadIsWhole`, `DumpIsSnapshot` and `DumpReturns`
compare. (Induction over numbers can be had, as in `LeastOf`; over what a fold makes of
rows and bytes it is left to TLC.) The type invariants and `UniqueNames` are proved
and in no run: add `TypeOK` to a configuration to check one.

## Disagreements found

Some statements one would expect, or that a comment of the repository makes, are
false of the code. Those with a name are defined in the modules and in no run: add
the name to the configuration given to see the counterexample.

| Statement | Configuration | What happens |
|---|---|---|
| `OwnTableOnly` | `MCCatalogOne` | Edit and Destroy of an ownership type act on the property with its id (`ownership_types_controller.rb:33`, `48`) |
| `EditStoresLocation` | `MCListingsOne` | the edit form's address is dropped (`user_properties_controller.rb:42`) |
| `LocksAloneRefuse` | `MCLongXact` | CheckAuth tests whether long transactions are enabled and makes its trigger in a later statement (`long_xact.sql.in.c:163`, `175`); a DisableLongTransactions between them, or whose scan comes before the trigger is committed (`:298`), leaves a trigger without the table, and it refuses every row |
| `RegisteredExactly` | `MCTopoLayers` | `fix_geometry_columns` finds SRID 3200 in a constraint to 32001 (`postgis.sql.in.c:2283`, `2288`), against "looking at table, column, type and srid" (`:2263`) |
| `DropIsComplete` | `MCTopoLayers` | `DropTopology` leaves the rows of `geometry_columns` of the topology's tables, against "getting rid of every dependent object" (`topology.sql.in.c:1701`) |
| `PropertiesResolve` | `MCSite` | a destroyed property leaves listings that name it, whose pages fail (`property.rb:6`) |
| `SignInReturns` | `MCSession` | after signing in, a visitor stopped at the cart is sent to the search page by GET, which fails for want of a search (`users/sessions_controller.rb:11`) |
| `RightLinksMeet` | `MCTopoGeo` | after a split the right link of an edge may name an edge that does not leave from its start node, against "Update all next edge references to match new layout" (`topology.sql.in.c:2818`) |
| `LevelsAscend` | `MCTopoLayers` with `Names <- MCTwo` | a child layer is looked up by its id without its topology (`topology.sql.in.c:574`), so it may be another topology's |
| `DropCleansUp` | the same | `DropTopoGeometryColumn` takes the topology of any layer (`:711`, comment `:692`) |

Others hold only under a condition that their runs make. With two processes
`UniqueNames` fails (both validate before either inserts), `UpdateTakesEffect` and
`EditTakesEffect` fail (the row goes, or is rewritten, between the find and the
UPDATE, and the answer is success all the same), and `NoOrphans` fails (a listing
saved during a cancellation outlives its owner). The owner follows the form of an
edit (`user_properties_controller.rb:40-42`, `user_looking_for_properties_controller.rb:41-43`):
a form that names an account that is not there leaves a listing without an owner,
and `NoOrphans` and `CancelledStaysQuiet` except just that. A favourite is copied
without its price (`home_controller.rb:41`). With `Geocoder = FALSE`,
`FavouritesCopied` fails: a copy that is refused is dropped and the answer is
"Your Favourites added successfully....". With two tabs `FavouriteWasShown` and
`CartReachesFavourites` fail: an answer to one tab overwrites the cookie of both.

What follows was seen while PostGIS was modelled; the modules do what the code does.

*Long transactions.* `AddAuth` fails when another session has its temporary table
(`long_xact.sql.in.c:129-145`). `DisableLongTransactions` drops the view that its
comment says it keeps (`:283`, `315-317`).

*Topology.* `IF ! within(...)` raises for every non-null face (`:3257`).
`ST_RemoveIsoNode` and `ST_RemoveIsoEdge` leave relation rows of what they remove;
`ST_MoveIsoNode` leaves `containing_face`; `ST_ChangeEdgeGeom` refuses an edge that
shares a node. Nothing is locked, so two sessions can add one node twice (`:2391`).
`DropTopology` drops whatever schema has the name (`:1752`). A second
TopoGeometry column of a table fails on the fixed name `check_topogeom`.

*Geometry columns.* `UpdateGeometrySRID` and `populate_geometry_columns` write a
constraint on `srid()`, which `probe_geometry_columns` does not find again (it looks
for `st_srid`, `postgis.sql.in.c:2720`) though it counts it (`:2690`). `populate`
registers the type of one geometry of a mixed column.

*Indexes and predicates.* The comment on `geography_gist_picksplit` and its test
differ (`geography_gist.c:1345`, `1355`). `lwgeom_lt` and `lwgeom_gt` go on to the
next corner when one is greater, and `geography_cmp` is not antisymmetric. The
B-tree functions read a box no one wrote when a geometry is empty. `overlaps` and
`crosses` compare a box's `ymin` with its own `ymax` (`lwgeom_geos.c:1521`), `geomequals` its
`ymin` with itself (`:2639`): tests that exclude less than they could.

*Geometries.* Boxes of members before a nested collection are forgotten
(`lwcollection.c:545`). `ptarray_segmentize2d` loses the M of XYM points, against
"Every input point is kept" (`ptarray.c:124`). Adding a point or making a line of
XYM and XYZ makes an M a Z. `LWGEOM_area`, `length` and `perimeter` do not look into
nested collections; checks of the form `! TYPE_GETTYPE(x) == POINTTYPE` never fire
(`lwgeom_functions_basic.c:2446` and four more).

*Texts.* An `EMPTY` of any type is read as an empty GEOMETRYCOLLECTION
(`lwgparse.c:1234`); a line without points cannot be written; a MULTICURVE loses its
compound curves (`lwgunparse.c:473`). `parse_gml_pos` reads the positions that follow
as well (`lwgeom_in_gml.c:756`, `922`); a line of `pointProperty` loses its SRID and
turns its axes twice (`:976`, `1046`). Repeated points are kept or dropped by an `m`
that nobody set (`ptarray.c:869`).

*Shapefiles.* `DBFAddField` moves the records without writing the one in memory
first, which is then stale (`dbfopen.c:861`, `922`). Bounds that are all zero are
started afresh by the next shape (`shpopen.c:1505`). With `-d` the old table is
dropped before BEGIN (`shp2pgsql-core.c:1369`): a failed load leaves none, and
`LoadIsAtomic` says so. A multipoint of one vertex is printed as POINT and aborts the
load (`:368`). Holes go to the first polygon that contains them, not the innermost
(`:682`, comment `:668`). `-w -D -s` writes the SRID twice (`:1848`). The dumper
asks for types and dimensions before its transaction begins (`pgsql2shp.c:209`,
`1204`), so a MULTIPOINT inserted then loses points, and a row inserted then with the
first Z or M of the table loses it. A typed empty geometry ends the dump. Blanks at an
end are trimmed, an empty text becomes NULL, and the columns' types change
(`int8` to `numeric`): what comes back is compared after that.

## What is not modelled

*The application.*

- Profiles, contacts, paginated lists and the searches other than the home page's:
  see the plan.
- Administrators' accounts and dashboards: fixed redirects and reads.
- Remember-me, password recovery, and the confirmations controller (its Devise
  module is commented out in `user.rb`). A user deleted while signed in is in
  Listings (`Authenticated`, `Identify`), not in Session.
- The cart model, static pages, assets, mails, migrations, seeds, and tests,
  which are generated stubs.
- Database failures other than a rolled-back transaction.

*PostGIS.*

- Real numbers: distances, lengths on the spheroid, geographies' computations,
  linear referencing, simplification, the selectivity estimates. Their code is
  arithmetic in doubles, which TLC does not have.
- Generated scanners and parsers (`lex.yy.c`, `wktparse.tab.c`); WellKnown models
  the grammar by what the actions in `lwgparse.c` do.
- GEOS, PROJ.4, libxml2 and the server itself, which are external.
- Memory: buffers and their sizes, except that a geometry's bytes are read where they were
  written; a field that nobody wrote is a choice of values.
- Of the shapefile programs: queries given by the user, `.prj` files, binary
  cursors, old servers, the graphical loader, byte order.

## Plan

1. Profiles: `build_profile`, which removes the old profile before the new one
   is validated, against "one profile for a user"; composed with Listings'
   cancellation.
2. Contacts: `create_contacts` with an entry that raises in the middle, and a retry.
3. Two sessions in TopoGeo, with what a lock on the topology would have to cover.
4. Proofs: of the exchange the dump that is a snapshot.
5. Distances on a grid, as far as whole numbers go.
