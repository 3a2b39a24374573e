\* Two requests and the sweeper over two files; three bytes of room for files of up to two.
CONSTANTS
    h1 = h1  h2 = h2  u1 = u1  u2 = u2  sw = sw
    Handlers = {h1, h2}
    Sweeper = sw
    Uuids = {u1, u2}
    None = None
    max_download_bytes = 2
    Filesizes = {1, 2}
    max_store_bytes = 3
    EXPIRES = 3
    TIMEOUT = 1
SPECIFICATION Spec
SYMMETRY Interchangeable
INVARIANTS
    QuotaExact
    FilesKeptInTime
PROPERTIES
    RefinesAccount
