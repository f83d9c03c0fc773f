---------------------------- MODULE JuniorContent -----------------------------
(***************************************************************************)
(* The JUNIOR level of the curriculum (apps/api/prisma/seed/junior/): of   *)
(* each dataset the tables its setupSql creates and the ones its           *)
(* schemaJson shows, of each task what ContentTypes.tla keeps.             *)
(***************************************************************************)
EXTENDS ContentTypes

\* Multi-table JOINs
JuniorBlock1Datasets ==
  <<Dataset("junior-b1-sales",
      [customers |-> {"id", "name", "city"},
       employees |-> {"id", "name", "region"},
       orders |-> {"id", "customer_id", "employee_id", "amount",
                   "order_date"}],
      [customers |-> {"id", "name", "city"},
       employees |-> {"id", "name", "region"},
       orders |-> {"id", "customer_id", "employee_id", "amount",
                   "order_date"}])>>

JuniorBlock1Tasks ==
  <<Unordered(1, "junior-b1-sales", {"customers", "orders"}, Rows(7)),
    Unordered(2, "junior-b1-sales", {"customers", "orders"}, Rows(7)),
    Unordered(3, "junior-b1-sales", {"customers", "orders"}, Rows(4)),
    Unordered(4, "junior-b1-sales", {"employees", "orders"}, Rows(7)),
    Unordered(5, "junior-b1-sales", {"customers", "employees", "orders"},
        Rows(7)),
    Unordered(6, "junior-b1-sales", {"customers", "orders"}, Rows(8)),
    Unordered(7, "junior-b1-sales", {"customers", "orders"}, Rows(1)),
    Unordered(8, "junior-b1-sales", {"customers", "orders"}, Rows(3)),
    Ordered(9, "junior-b1-sales", {"customers", "employees", "orders"},
        Rows(7)),
    Ordered(10, "junior-b1-sales", {"customers", "orders"}, Rows(7))>>

-----------------------------------------------------------------------------
\* Aggregation & GROUP BY
JuniorBlock2Datasets ==
  <<Dataset("junior-b2-orders",
      [orders |-> {"id", "category", "status", "amount", "quantity"}],
      [orders |-> {"id", "category", "status", "amount", "quantity"}])>>

JuniorBlock2Tasks ==
  <<Unordered(1, "junior-b2-orders", {"orders"}, Rows(1)),
    Unordered(2, "junior-b2-orders", {"orders"}, Rows(1)),
    Unordered(3, "junior-b2-orders", {"orders"}, Rows(1)),
    Unordered(4, "junior-b2-orders", {"orders"}, Rows(4)),
    Unordered(5, "junior-b2-orders", {"orders"}, Rows(4)),
    Unordered(6, "junior-b2-orders", {"orders"}, Rows(4)),
    Unordered(7, "junior-b2-orders", {"orders"}, Rows(7)),
    Unordered(8, "junior-b2-orders", {"orders"}, Rows(2)),
    Unordered(9, "junior-b2-orders", {"orders"}, Rows(3)),
    Ordered(10, "junior-b2-orders", {"orders"}, Rows(4))>>

-----------------------------------------------------------------------------
\* Subqueries
JuniorBlock3Datasets ==
  <<Dataset("junior-b3-library",
      [members |-> {"id", "name"},
       books |-> {"id", "title", "category", "price"},
       loans |-> {"id", "book_id", "member_id", "loan_date"}],
      [members |-> {"id", "name"},
       books |-> {"id", "title", "category", "price"},
       loans |-> {"id", "book_id", "member_id", "loan_date"}])>>

JuniorBlock3Tasks ==
  <<Unordered(1, "junior-b3-library", {"books"}, Rows(3)),
    Unordered(2, "junior-b3-library", {"books"}, Rows(1)),
    Unordered(3, "junior-b3-library", {"books", "loans"}, Rows(4)),
    Unordered(4, "junior-b3-library", {"books", "loans"}, Rows(2)),
    Unordered(5, "junior-b3-library", {"members", "loans"}, Rows(3)),
    Unordered(6, "junior-b3-library", {"members", "loans"}, Rows(1)),
    Unordered(7, "junior-b3-library", {"books"}, Rows(1)),
    Unordered(8, "junior-b3-library", {"members", "loans"}, Rows(2)),
    Unordered(9, "junior-b3-library", {"books"}, Rows(2)),
    Ordered(10, "junior-b3-library", {"books", "loans"}, Rows(4))>>

-----------------------------------------------------------------------------
\* String & Date Functions + CASE
JuniorBlock4Datasets ==
  <<Dataset("junior-b4-users",
      [users |-> {"id", "first_name", "last_name", "age", "signup_date"}],
      [users |-> {"id", "first_name", "last_name", "age", "signup_date"}])>>

JuniorBlock4Tasks ==
  <<Unordered(1, "junior-b4-users", {"users"}, Rows(7)),
    Unordered(2, "junior-b4-users", {"users"}, Rows(7)),
    Unordered(3, "junior-b4-users", {"users"}, Rows(7)),
    Unordered(4, "junior-b4-users", {"users"}, Rows(7)),
    Unordered(5, "junior-b4-users", {"users"}, Rows(7)),
    Unordered(6, "junior-b4-users", {"users"}, Rows(7)),
    Unordered(7, "junior-b4-users", {"users"}, Rows(7)),
    Unordered(8, "junior-b4-users", {"users"}, Rows(7)),
    Unordered(9, "junior-b4-users", {"users"}, Rows(3)),
    Ordered(10, "junior-b4-users", {"users"}, Rows(7))>>

-----------------------------------------------------------------------------
\* Sorting, LIMIT, DISTINCT & Combining Concepts
JuniorBlock5Datasets ==
  <<Dataset("junior-b5-tracks",
      [artists |-> {"id", "name", "country"},
       tracks |-> {"id", "title", "artist_id", "genre", "plays",
                   "duration"}],
      [artists |-> {"id", "name", "country"},
       tracks |-> {"id", "title", "artist_id", "genre", "plays",
                   "duration"}])>>

JuniorBlock5Tasks ==
  <<Ordered(1, "junior-b5-tracks", {"tracks"},
        <<10, 20, 30, 40, 41, 50, 60, 61, 70, 80>>),
    Ordered(2, "junior-b5-tracks", {"tracks"},
        <<10, 11, 20, 30, 40, 50, 60, 70, 80, 90>>),
    Ordered(3, "junior-b5-tracks", {"tracks"}, Rows(3)),
    Ordered(4, "junior-b5-tracks", {"tracks"}, <<10, 11, 20>>),
    Unordered(5, "junior-b5-tracks", {"tracks"}, Rows(3)),
    Unordered(6, "junior-b5-tracks", {"tracks"}, Rows(5)),
    Ordered(7, "junior-b5-tracks", {"artists", "tracks"}, Rows(10)),
    Ordered(8, "junior-b5-tracks", {"artists", "tracks"}, Rows(4)),
    Ordered(9, "junior-b5-tracks", {"artists", "tracks"}, Rows(2)),
    Ordered(10, "junior-b5-tracks", {"tracks"}, Rows(3))>>

-----------------------------------------------------------------------------
JuniorBlocks ==
  <<Block(1, JuniorBlock1Datasets, JuniorBlock1Tasks),
    Block(2, JuniorBlock2Datasets, JuniorBlock2Tasks),
    Block(3, JuniorBlock3Datasets, JuniorBlock3Tasks),
    Block(4, JuniorBlock4Datasets, JuniorBlock4Tasks),
    Block(5, JuniorBlock5Datasets, JuniorBlock5Tasks)>>
=============================================================================
