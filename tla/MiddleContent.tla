---------------------------- MODULE MiddleContent -----------------------------
(***************************************************************************)
(* The MIDDLE level of the curriculum (apps/api/prisma/seed/middle/): of   *)
(* each dataset the tables its setupSql creates and the ones its           *)
(* schemaJson shows, of each task what ContentTypes.tla keeps.             *)
(***************************************************************************)
EXTENDS ContentTypes

\* Window Functions
MiddleBlock1Datasets ==
  <<Dataset("middle-b1-sales",
      [sales |-> {"id", "region", "product", "sale_date", "amount"}],
      [sales |-> {"id", "region", "product", "sale_date", "amount"}])>>

MiddleBlock1Tasks ==
  <<Unordered(1, "middle-b1-sales", {"sales"},
        <<10, 20, 20, 30, 40, 50, 40, 60, 70, 80, 90, 90>>),
    Unordered(2, "middle-b1-sales", {"sales"},
        <<10, 20, 30, 40, 50, 50, 60, 70, 80, 70, 90, 90>>),
    Ordered(3, "middle-b1-sales", {"sales"}, Rows(12)),
    Ordered(4, "middle-b1-sales", {"sales"},
        <<10, 20, 30, 40, 40, 50, 60, 70, 70, 80, 90, 90>>),
    Ordered(5, "middle-b1-sales", {"sales"},
        <<10, 20, 30, 40, 40, 50, 60, 70, 70, 80, 90, 90>>),
    Ordered(6, "middle-b1-sales", {"sales"}, Rows(12)),
    Ordered(7, "middle-b1-sales", {"sales"}, Rows(12)),
    Unordered(8, "middle-b1-sales", {"sales"},
        <<10, 20, 30, 40, 50, 50, 60, 70, 80, 70, 90, 90>>),
    Ordered(9, "middle-b1-sales", {"sales"}, Rows(4)),
    Ordered(10, "middle-b1-sales", {"sales"},
        <<10, 20, 30, 40, 40, 50, 60, 70, 70, 80, 90, 90>>)>>

-----------------------------------------------------------------------------
\* Common Table Expressions
MiddleBlock2Datasets ==
  <<Dataset("middle-b2-employees",
      [departments |-> {"id", "name"},
       employees |-> {"id", "name", "department_id", "manager_id",
                      "salary"}],
      [departments |-> {"id", "name"},
       employees |-> {"id", "name", "department_id", "manager_id",
                      "salary"}])>>

MiddleBlock2Tasks ==
  <<Ordered(1, "middle-b2-employees", {"employees"}, Rows(4)),
    Ordered(2, "middle-b2-employees", {"employees"}, Rows(2)),
    Ordered(3, "middle-b2-employees", {"employees"}, Rows(4)),
    Ordered(4, "middle-b2-employees", {"employees"}, Rows(4)),
    Ordered(5, "middle-b2-employees", {}, Rows(8)),
    Ordered(6, "middle-b2-employees", {"employees"}, Rows(10)),
    Ordered(7, "middle-b2-employees", {"employees"}, Rows(10)),
    Ordered(8, "middle-b2-employees", {"employees"}, Rows(4)),
    Ordered(9, "middle-b2-employees", {"employees"}, Rows(10)),
    Ordered(10, "middle-b2-employees", {"departments", "employees"},
        Rows(3))>>

-----------------------------------------------------------------------------
\* Advanced Subqueries
MiddleBlock3Datasets ==
  <<Dataset("middle-b3-orders",
      [customers |-> {"id", "name", "city"},
       orders |-> {"id", "customer_id", "region", "order_date", "total"}],
      [customers |-> {"id", "name", "city"},
       orders |-> {"id", "customer_id", "region", "order_date", "total"}])>>

MiddleBlock3Tasks ==
  <<Unordered(1, "middle-b3-orders", {"orders"}, Rows(5)),
    Unordered(2, "middle-b3-orders", {"customers", "orders"}, Rows(2)),
    Unordered(3, "middle-b3-orders", {"customers", "orders"}, Rows(5)),
    Unordered(4, "middle-b3-orders", {"customers", "orders"}, Rows(1)),
    Ordered(5, "middle-b3-orders", {"orders"}, <<10, 20, 30, 31>>),
    Ordered(6, "middle-b3-orders", {"orders"}, Rows(2)),
    Ordered(7, "middle-b3-orders", {"customers", "orders"}, Rows(6)),
    Ordered(8, "middle-b3-orders", {"customers", "orders"},
        <<10, 20, 30, 40, 40, 50, 60, 70>>),
    Ordered(9, "middle-b3-orders", {"customers"}, Rows(4)),
    Ordered(10, "middle-b3-orders", {"customers", "orders"}, Rows(3))>>

-----------------------------------------------------------------------------
\* Set Operations & Advanced Joins
MiddleBlock4Datasets ==
  <<Dataset("middle-b4-staff",
      [current_staff |-> {"id", "name", "manager_id"},
       former_staff |-> {"id", "name"},
       projects |-> {"id", "name"},
       assignments |-> {"staff_id", "project_id"}],
      [current_staff |-> {"id", "name", "manager_id"},
       former_staff |-> {"id", "name"},
       projects |-> {"id", "name"},
       assignments |-> {"staff_id", "project_id"}])>>

MiddleBlock4Tasks ==
  <<Ordered(1, "middle-b4-staff", {"current_staff", "former_staff"},
        Rows(7)),
    Ordered(2, "middle-b4-staff", {"current_staff", "former_staff"},
        <<10, 20, 20, 30, 30, 40, 50, 60, 70>>),
    Ordered(3, "middle-b4-staff", {"current_staff", "former_staff"},
        Rows(2)),
    Ordered(4, "middle-b4-staff", {"current_staff", "former_staff"},
        Rows(3)),
    Ordered(5, "middle-b4-staff", {"current_staff"}, Rows(4)),
    Ordered(6, "middle-b4-staff", {"current_staff"}, Rows(5)),
    Ordered(7, "middle-b4-staff", {"current_staff", "assignments"},
        Rows(1)),
    Ordered(8, "middle-b4-staff", {"projects", "assignments"}, Rows(1)),
    Ordered(9, "middle-b4-staff",
        {"current_staff", "projects", "assignments"}, Rows(5)),
    Ordered(10, "middle-b4-staff", {"current_staff", "assignments"},
        Rows(6))>>

-----------------------------------------------------------------------------
\* Analytics Combo
MiddleBlock5Datasets ==
  <<Dataset("middle-b5-revenue",
      [monthly |-> {"id", "region", "product", "month", "revenue"}],
      [monthly |-> {"id", "region", "product", "month", "revenue"}])>>

MiddleBlock5Tasks ==
  <<Ordered(1, "middle-b5-revenue", {"monthly"}, Rows(3)),
    Ordered(2, "middle-b5-revenue", {"monthly"}, Rows(3)),
    Ordered(3, "middle-b5-revenue", {"monthly"}, Rows(3)),
    Ordered(4, "middle-b5-revenue", {"monthly"}, Rows(12)),
    Unordered(5, "middle-b5-revenue", {"monthly"}, Rows(1)),
    Ordered(6, "middle-b5-revenue", {"monthly"}, Rows(3)),
    Untitled(Ordered(7, "middle-b5-revenue", {"monthly"}, Rows(3))),
    Untitled(Ordered(8, "middle-b5-revenue", {"monthly"}, Rows(7))),
    Ordered(9, "middle-b5-revenue", {"monthly"}, Rows(4)),
    Ordered(10, "middle-b5-revenue", {"monthly"}, Rows(12))>>

-----------------------------------------------------------------------------
MiddleBlocks ==
  <<Block(1, MiddleBlock1Datasets, MiddleBlock1Tasks),
    Block(2, MiddleBlock2Datasets, MiddleBlock2Tasks),
    Block(3, MiddleBlock3Datasets, MiddleBlock3Tasks),
    Block(4, MiddleBlock4Datasets, MiddleBlock4Tasks),
    Block(5, MiddleBlock5Datasets, MiddleBlock5Tasks)>>
=============================================================================
