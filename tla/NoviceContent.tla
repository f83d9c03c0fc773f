---------------------------- MODULE NoviceContent -----------------------------
(***************************************************************************)
(* The NOVICE level of the curriculum (apps/api/prisma/seed/novice/): of   *)
(* each dataset the tables its setupSql creates and the ones its           *)
(* schemaJson shows, of each task what ContentTypes.tla keeps.             *)
(***************************************************************************)
EXTENDS ContentTypes

\* SELECT Basics
NoviceBlock1Datasets ==
  <<Dataset("novice-b1-employees",
      [departments |-> {"id", "name"},
       employees |-> {"id", "first_name", "last_name", "department_id",
                      "salary", "hire_date"}],
      [departments |-> {"id", "name"},
       employees |-> {"id", "first_name", "last_name", "department_id",
                      "salary", "hire_date"}])>>

NoviceBlock1Tasks ==
  <<Unordered(1, "novice-b1-employees", {"employees"}, Rows(8)),
    Unordered(2, "novice-b1-employees", {"employees"}, Rows(8)),
    Unordered(3, "novice-b1-employees", {"employees"}, Rows(8)),
    Unordered(4, "novice-b1-employees", {"departments"}, Rows(3)),
    Unordered(5, "novice-b1-employees", {"employees"}, Rows(8)),
    Unordered(6, "novice-b1-employees", {"employees"}, Rows(8)),
    Unordered(7, "novice-b1-employees", {"employees"}, Rows(3)),
    Unordered(8, "novice-b1-employees", {"employees"}, Rows(1)),
    Unordered(9, "novice-b1-employees", {"departments"}, Rows(1)),
    Unordered(10, "novice-b1-employees", {"employees"}, Rows(1))>>

-----------------------------------------------------------------------------
\* Filtering & Sorting
NoviceBlock2Datasets ==
  <<Dataset("novice-b2-products",
      [categories |-> {"id", "name"},
       products |-> {"id", "name", "category_id", "price", "stock"}],
      [categories |-> {"id", "name"},
       products |-> {"id", "name", "category_id", "price", "stock"}])>>

NoviceBlock2Tasks ==
  <<Unordered(1, "novice-b2-products", {"products"}, Rows(4)),
    Unordered(2, "novice-b2-products", {"products"}, Rows(5)),
    Unordered(3, "novice-b2-products", {"products"}, Rows(5)),
    Unordered(4, "novice-b2-products", {"products"}, Rows(5)),
    Unordered(5, "novice-b2-products", {"products"}, Rows(2)),
    Unordered(6, "novice-b2-products", {"products"}, Rows(2)),
    Unordered(7, "novice-b2-products", {"products"}, Rows(4)),
    Ordered(8, "novice-b2-products", {"products"}, Rows(10)),
    Ordered(9, "novice-b2-products", {"products"}, Rows(3)),
    Ordered(10, "novice-b2-products", {"products"}, Rows(4))>>

-----------------------------------------------------------------------------
\* Aggregation
NoviceBlock3Datasets ==
  <<Dataset("novice-b3-orders",
      [customers |-> {"id", "name", "city"},
       orders |-> {"id", "customer_id", "amount", "status", "order_date"}],
      [customers |-> {"id", "name", "city"},
       orders |-> {"id", "customer_id", "amount", "status", "order_date"}])>>

NoviceBlock3Tasks ==
  <<Untitled(Unordered(1, "novice-b3-orders", {"orders"}, Rows(1))),
    Untitled(Unordered(2, "novice-b3-orders", {"orders"}, Rows(1))),
    Untitled(Unordered(3, "novice-b3-orders", {"orders"}, Rows(1))),
    Unordered(4, "novice-b3-orders", {"orders"}, Rows(5)),
    Unordered(5, "novice-b3-orders", {"orders"}, Rows(5)),
    Unordered(6, "novice-b3-orders", {"orders"}, Rows(3)),
    Untitled(Unordered(7, "novice-b3-orders", {"orders"}, Rows(1))),
    Unordered(8, "novice-b3-orders", {"orders"}, Rows(5)),
    Unordered(9, "novice-b3-orders", {"orders"}, Rows(3)),
    Ordered(10, "novice-b3-orders", {"orders"}, Rows(5))>>

-----------------------------------------------------------------------------
\* Joins
NoviceBlock4Datasets ==
  <<Dataset("novice-b4-store",
      [customers |-> {"id", "name", "city"},
       products |-> {"id", "name", "price"},
       orders |-> {"id", "customer_id", "order_date"},
       order_items |-> {"id", "order_id", "product_id", "quantity",
                        "unit_price"}],
      [customers |-> {"id", "name", "city"},
       products |-> {"id", "name", "price"},
       orders |-> {"id", "customer_id", "order_date"},
       order_items |-> {"id", "order_id", "product_id", "quantity",
                        "unit_price"}])>>

NoviceBlock4Tasks ==
  <<Unordered(1, "novice-b4-store", {"customers", "orders"}, Rows(4)),
    Unordered(2, "novice-b4-store", {"customers", "orders"}, Rows(5)),
    Unordered(3, "novice-b4-store", {"products", "order_items"},
        <<10, 20, 30, 40, 10, 30, 20>>),
    Unordered(4, "novice-b4-store", {"customers", "orders"}, Rows(3)),
    Unordered(5, "novice-b4-store", {"products", "order_items"}, Rows(7)),
    Unordered(6, "novice-b4-store", {"customers", "orders", "order_items"},
        Rows(7)),
    Unordered(7, "novice-b4-store",
        {"customers", "products", "orders", "order_items"}, Rows(7)),
    Unordered(8, "novice-b4-store", {"customers", "orders"}, Rows(4)),
    Unordered(9, "novice-b4-store", {"orders", "order_items"}, Rows(4)),
    Ordered(10, "novice-b4-store", {"customers", "orders", "order_items"},
        Rows(3))>>

-----------------------------------------------------------------------------
\* Subqueries & Sets
NoviceBlock5Datasets ==
  <<Dataset("novice-b5-library",
      [authors |-> {"id", "name", "country"},
       books |-> {"id", "title", "author_id", "genre", "pages"},
       loans |-> {"id", "book_id", "borrower", "loan_date", "return_date"}],
      [authors |-> {"id", "name", "country"},
       books |-> {"id", "title", "author_id", "genre", "pages"},
       loans |-> {"id", "book_id", "borrower", "loan_date",
                  "return_date"}])>>

NoviceBlock5Tasks ==
  <<Unordered(1, "novice-b5-library", {"authors", "books"}, Rows(4)),
    Unordered(2, "novice-b5-library", {"books", "loans"}, Rows(10)),
    Unordered(3, "novice-b5-library", {"books", "loans"}, Rows(5)),
    Unordered(4, "novice-b5-library", {"books"}, Rows(10)),
    Unordered(5, "novice-b5-library", {"authors"}, Rows(4)),
    Ordered(6, "novice-b5-library", {"books"}, Rows(5)),
    Unordered(7, "novice-b5-library", {"authors", "books"}, Rows(4)),
    Ordered(8, "novice-b5-library", {"books"}, Rows(7)),
    Unordered(9, "novice-b5-library", {"books"}, Rows(5)),
    Ordered(10, "novice-b5-library", {"books", "loans"},
        <<10, 20, 21, 30, 40>>)>>

-----------------------------------------------------------------------------
NoviceBlocks ==
  <<Block(1, NoviceBlock1Datasets, NoviceBlock1Tasks),
    Block(2, NoviceBlock2Datasets, NoviceBlock2Tasks),
    Block(3, NoviceBlock3Datasets, NoviceBlock3Tasks),
    Block(4, NoviceBlock4Datasets, NoviceBlock4Tasks),
    Block(5, NoviceBlock5Datasets, NoviceBlock5Tasks)>>
=============================================================================
