SPECIFICATION FairSpec
CONSTANTS
    Scopes = {s1, s2}
    Calls = {c1, c2, c3}
    Requests = {r1, r2}
    Ttl = 2
    max_row_bytes = 3
    max_session_rows = 1
    max_session_bytes = 2
    max_principal_rows = 2
    max_principal_bytes = 3
INVARIANTS
    TypeOK
    HistoryTranslatable
    QuotaHolds
PROPERTIES
    RowsExpire
